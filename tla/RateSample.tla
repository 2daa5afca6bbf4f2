----------------------------- MODULE RateSample -----------------------------
(***************************************************************************)
(* The rates of a report: monitoring/unit/net.go and disk_io.go.           *)
(*                                                                         *)
(* A rate is the difference of two readings of counters that only grow,    *)
(* but belong to devices that come and go: one that comes begins at 0.     *)
(* The network keeps the sum of its counters from one report to the next,  *)
(* the disks keep each counter.  Sent and received, read and written bytes *)
(* are treated alike, a rate is left as the difference it is made from,    *)
(* and time is only whether the clock has advanced since the sample.       *)
(***************************************************************************)
EXTENDS Integers, FiniteSets, Functions

CONSTANTS
  Devices,      \* the interfaces, or the disks
  Loopback,     \* those whose name begins like a loopback interface's
  IncludeNics,  \* the patterns of the two flags, each as the set of names it matches
  ExcludeNics,
  MaxCount,     \* bound: the bytes a device counts
  NoSample

Absent == -1

ASSUME RateConstants ==
  /\ Loopback \subseteq Devices
  /\ IncludeNics \subseteq SUBSET Devices /\ ExcludeNics \subseteq SUBSET Devices
  /\ MaxCount \in Nat /\ NoSample \notin Nat /\ IsFiniteSet(Devices)

VARIABLES
  part,     \* which of the two this is: "net" or "disk"
  counter,  \* what each device counts, or Absent
  sample,   \* networkSpeedSample or lastDiskIOCounters, or NoSample
  elapsed,  \* whether the clock has advanced since the sample
  passed,   \* history: the bytes of each device since the sample
  stayed,   \* history: the devices that neither came nor went since
  rates     \* the report just made, device by device; "all" for the network

rateVars == <<part, counter, sample, elapsed, passed, stayed, rates>>
sampleVars == <<sample, elapsed, passed, stayed>>

Present == {d \in Devices : counter[d] # Absent}
NoBytes == [d \in Devices |-> 0]
NoRates == [d \in {} |-> 0]

\* What a report says, what is true, and whether it can be known exactly.
Rate(said, real, exact) == [said |-> said, real |-> real, exact |-> exact]

RateInit ==
  /\ part \in {"net", "disk"}
  /\ counter \in [Devices -> {Absent, 0, 1}]
  /\ sample = NoSample /\ elapsed = FALSE
  /\ passed = NoBytes /\ stayed = Devices
  /\ rates = NoRates

\* shouldInclude: the include list, if there is one, decides alone.
shouldInclude(nic) ==
  /\ nic \notin Loopback
  /\ \/ nic \in UNION IncludeNics
     \/ nic \notin UNION ExcludeNics /\ IncludeNics = {}

Included == {d \in Devices : shouldInclude(d)}

\* Mutant: how far the two are apart, whichever is the greater.
safeDeltaAbs(current, previous) == IF current >= previous THEN current - previous ELSE previous - current

\* safeCounterDelta, diskSafeDelta.
safeDelta(current, previous) == IF current >= previous THEN current - previous ELSE 0

\* A new sample, with which the history begins again.
Sampled(s) ==
  /\ sample' = s /\ elapsed' = FALSE
  /\ passed' = NoBytes /\ stayed' = Devices

(***************************************************************************)
(* The devices and the clock.                                              *)
(***************************************************************************)

Count(d) ==
  /\ counter[d] \in 0 .. MaxCount - 1 /\ passed[d] < MaxCount
  /\ counter' = [counter EXCEPT ![d] = @ + 1]
  /\ passed' = [passed EXCEPT ![d] = @ + 1]
  /\ rates' = NoRates
  /\ UNCHANGED <<part, sample, elapsed, stayed>>

ComeOrGo(d) ==
  /\ counter' = [counter EXCEPT ![d] = IF @ = Absent THEN 0 ELSE Absent]
  /\ stayed' = stayed \ {d}
  /\ rates' = NoRates
  /\ UNCHANGED <<part, sample, elapsed, passed>>

ClockAdvances ==
  /\ ~elapsed /\ elapsed' = TRUE
  /\ rates' = NoRates
  /\ UNCHANGED <<part, counter, sample, passed, stayed>>

\* The counters cannot be read, or there is nothing to read: no rate, and the
\* sample stays.
NoReport ==
  /\ rates' = NoRates
  /\ UNCHANGED <<part, counter, sampleVars>>

(***************************************************************************)
(* The network.  Whether MonthRotate takes the totals from netstatic or    *)
(* not, and whether netstatic fails or not, the rates are those of         *)
(* getNetworkSpeedFallback.                                                *)
(***************************************************************************)

\* collectNetworkTotals.
NetworkTotal == SumFunctionOnSet(counter, Present \cap Included)

\* updateNetworkSpeedSample: the first sample, no time, a rate.
NetworkSpeed ==
  /\ part = "net" /\ Present # {}
  /\ \/ /\ sample = NoSample
        /\ Sampled(NetworkTotal) /\ rates' = NoRates
     \/ /\ sample # NoSample /\ ~elapsed
        /\ rates' = NoRates /\ UNCHANGED sampleVars
     \/ /\ sample # NoSample /\ elapsed
        /\ Sampled(NetworkTotal)
        /\ rates' = [x \in {"all"} |->
                       Rate(safeDelta(NetworkTotal, sample),
                            SumFunctionOnSet(passed, Included), Included \subseteq stayed)]
  /\ UNCHANGED <<part, counter>>

(***************************************************************************)
(* The disks.                                                              *)
(***************************************************************************)

\* computeDiskIORates: a target without a counter then or now is left out.
computeDiskIORates(targets, prev, cur) ==
  [d \in targets \cap DOMAIN prev \cap DOMAIN cur |->
     Rate(safeDelta(cur[d], prev[d]), passed[d], d \in stayed)]

\* DiskIO: every sample is the next baseline, also one taken in no time.
DiskIO ==
  /\ part = "disk"
  /\ \E targets \in (SUBSET Devices) \ {{}} :
       LET cur == Restrict(counter, Present)
       IN /\ rates' = IF sample # NoSample /\ elapsed THEN computeDiskIORates(targets, sample, cur)
                      ELSE NoRates
          /\ Sampled(cur)
  /\ UNCHANGED <<part, counter>>

RateNext ==
  \/ \E d \in Devices : Count(d) \/ ComeOrGo(d)
  \/ ClockAdvances \/ NoReport
  \/ NetworkSpeed \/ DiskIO

RateSpec == RateInit /\ [][RateNext]_rateVars

\* However the devices come and go, no rate is more than what the devices have
\* carried since the sample it is taken from; and it is exactly that when they
\* have been there all the time.  So no counter is compared with one of another
\* device or of another time (net.go, disk_io.go).
RatesAreReal ==
  \A d \in DOMAIN rates :
    /\ rates[d].said <= rates[d].real
    /\ rates[d].exact => rates[d].said = rates[d].real
=============================================================================
