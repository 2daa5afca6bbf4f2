----------------------------- MODULE NetStatic -----------------------------
(***************************************************************************)
(* The history of network traffic: monitoring/netstatic/static.go.         *)
(*                                                                         *)
(* A goroutine samples the counters of the interfaces into staticCache,    *)
(* another one moves the cache into the store and writes the store to a    *)
(* file.  mu makes each of these, and each operation of the package, one   *)
(* step.  The goroutines wait without it: for every wait they read the     *)
(* package variables detectTicker or saveTicker and then stopCh, which     *)
(* SetNewConfig and StartOrContinue replace.                               *)
(*                                                                         *)
(* Bytes sent and received are treated alike; one number stands for both.  *)
(* The records of an interface are two sums: those purgeExpiredLocked will *)
(* keep and those that are older than DataPreserveDay.                     *)
(*                                                                         *)
(* The users of the package are the main goroutine, which starts the       *)
(* statistics and sets the interfaces (RunE in cmd/root.go) and then       *)
(* starts them again with every report (NetworkSpeed), and the goroutine   *)
(* that shuts the agent down and stops them meanwhile.                     *)
(***************************************************************************)
EXTENDS Naturals

CONSTANTS
  Nics,       \* the network interfaces that carry something
  Lists,      \* the lists of interfaces, these or others, that may be configured
  MaxBytes,   \* bound: what an interface carries
  MaxStarts,  \* bound: how often a process starts the goroutines
  LoadFails,  \* whether the file may exist and not be readable
  SaveFails,  \* whether it may not be writable
  NoFile, NoCounter

ASSUME Bounds == MaxBytes \in Nat /\ MaxStarts \in Nat /\ {LoadFails, SaveFails} \subseteq BOOLEAN

VARIABLES
  main,     \* where the main goroutine is
  shut,     \* whether shutdown has called Stop
  running,
  gen,      \* the generation of detectTicker, saveTicker and stopCh
  closed,   \* the generations whose stopCh is closed
  worker,   \* the goroutines: where they are, the ticker and the stopCh they wait for
  nics,     \* config.Nics; empty stands for all
  last,     \* lastCounters
  cache,    \* staticCache
  store,    \* store.Interfaces
  file,     \* net_static.json
  bytes,    \* the kernel's counters
  carried   \* history: what the interfaces have carried

userVars == <<main, shut>>
goVars == <<running, gen, closed, worker>>
countVars == <<last, cache>>
hostVars == <<bytes, carried>>
statVars == <<goVars, nics, countVars, store, file, hostVars>>
vars == <<userVars, statVars>>

Gens == 1 .. MaxStarts
Workers == {"detect", "save"} \X Gens
At(pc, tick, stop) == [pc |-> pc, tick |-> tick, stop |-> stop]
Ended == At("ended", 0, 0)

Nothing == [n \in Nics |-> 0]
NoRecords == [n \in Nics |-> [kept |-> 0, old |-> 0]]

Records == [Nics -> [kept : Nat, old : Nat]]
Files == [records : Records, nics : Lists \cup {{}}]

ASSUME Apart == NoCounter \notin Nat /\ NoFile \notin Files

Init ==
  /\ main = "start" /\ shut = FALSE
  /\ running = FALSE /\ gen = 0 /\ closed = {}
  /\ worker = [w \in Workers |-> Ended]
  /\ nics = {}
  /\ last = [n \in Nics |-> NoCounter]
  /\ cache = Nothing
  /\ store = NoRecords
  /\ file = NoFile
  /\ bytes = Nothing /\ carried = Nothing

\* isNicAllowed.
Allowed(list, n) == list = {} \/ n \in list

(***************************************************************************)
(* What the operations do under mu.                                        *)
(***************************************************************************)

\* sampleOnceLocked; a counter that went back counts as no traffic.
SampleOnce ==
  /\ cache' = [n \in Nics |->
       IF Allowed(nics, n) /\ last[n] # NoCounter /\ bytes[n] >= last[n]
       THEN cache[n] + (bytes[n] - last[n]) ELSE cache[n]]
  /\ last' = [n \in Nics |-> IF Allowed(nics, n) THEN bytes[n] ELSE last[n]]

\* flushCacheLocked.
Flushed == [n \in Nics |-> [store[n] EXCEPT !.kept = @ + cache[n]]]

\* purgeExpiredLocked.
Purged(records) == [n \in Nics |-> [records[n] EXCEPT !.old = 0]]

\* saveToFileLocked: a temporary file that is renamed.
Save(records, list) ==
  \/ file' = [records |-> records, nics |-> list]
  \/ SaveFails /\ UNCHANGED file

\* New tickers, a new stopCh and the two goroutines.
StartGoroutines ==
  /\ gen < MaxStarts
  /\ gen' = gen + 1
  /\ worker' = [w \in Workers |-> IF w[2] = gen' THEN At("ticker", 0, 0) ELSE worker[w]]

\* Mutant: the cache is not emptied.
FlushAndSaveKeepingCache ==
  /\ store' = Purged(Flushed)
  /\ Save(store', nics)
  /\ UNCHANGED cache

FlushAndSave ==
  /\ store' = Purged(Flushed)
  /\ Save(store', nics)
  /\ cache' = Nothing

(***************************************************************************)
(* The operations.                                                         *)
(***************************************************************************)

\* loadFromFileLocked; without a file what is in memory stays.
Load ==
  IF file = NoFile THEN UNCHANGED <<store, nics>>
  ELSE store' = Purged(file.records) /\ nics' = file.nics

\* Mutant: the history in the file is not read.
StartWithoutLoad ==
  IF running THEN UNCHANGED statVars
  ELSE /\ StartGoroutines
       /\ running' = TRUE
       /\ UNCHANGED <<closed, nics, countVars, store, file, hostVars>>

\* running is read without the mutex, but only one goroutine ever sets it.
StartOrContinue ==
  \/ /\ running \/ (LoadFails /\ file # NoFile)
     /\ UNCHANGED statVars
  \/ /\ ~running
     /\ Load
     /\ StartGoroutines
     /\ running' = TRUE
     /\ UNCHANGED <<closed, countVars, file, hostVars>>

\* Mutant: the old goroutines are not told to end.
SetNewConfigKeepingGoroutines(list) ==
  /\ nics' = list
  /\ IF running THEN StartGoroutines ELSE UNCHANGED <<gen, worker>>
  /\ Save(store, list)
  /\ store' = Purged(store)
  /\ UNCHANGED <<running, closed, countVars, hostVars>>

\* Samples and counters of interfaces that are not listed are dropped, the
\* goroutines are started anew; the store is saved before it is purged.
SetNewConfig(list) ==
  /\ nics' = list
  /\ IF running
     THEN /\ StartGoroutines
          /\ closed' = closed \cup {gen}
          /\ cache' = [n \in Nics |-> IF Allowed(list, n) THEN cache[n] ELSE 0]
          /\ last' = [n \in Nics |-> IF Allowed(list, n) THEN last[n] ELSE NoCounter]
     ELSE UNCHANGED <<gen, closed, worker, countVars>>
  /\ Save(store, list)
  /\ store' = Purged(store)
  /\ UNCHANGED <<running, hostVars>>

Stop ==
  IF running
  THEN /\ running' = FALSE
       /\ closed' = closed \cup {gen}
       /\ FlushAndSave
       /\ UNCHANGED <<gen, worker, nics, last, hostVars>>
  ELSE UNCHANGED statVars

(***************************************************************************)
(* The goroutines.                                                         *)
(***************************************************************************)

\* A select reads the ticker first ...
ReadTicker(w) ==
  /\ worker[w].pc = "ticker"
  /\ worker' = [worker EXCEPT ![w] = At("channel", gen, 0)]
  /\ UNCHANGED <<running, gen, closed, nics, countVars, store, file, hostVars>>

\* ... and then the channel.
ReadStopCh(w) ==
  /\ worker[w].pc = "channel"
  /\ worker' = [worker EXCEPT ![w] = At("select", worker[w].tick, gen)]
  /\ UNCHANGED <<running, gen, closed, nics, countVars, store, file, hostVars>>

\* A ticker that was stopped ticks no more.
Tick(w) ==
  /\ worker[w].pc = "select"
  /\ running /\ worker[w].tick = gen
  /\ worker' = [worker EXCEPT ![w] = At("tick", 0, 0)]
  /\ UNCHANGED <<running, gen, closed, nics, countVars, store, file, hostVars>>

StopSeen(w) ==
  /\ worker[w].pc = "select"
  /\ worker[w].stop \in closed
  /\ worker' = [worker EXCEPT ![w] = Ended]
  /\ UNCHANGED <<running, gen, closed, nics, countVars, store, file, hostVars>>

\* The counters may not be available.
Detect(w) ==
  /\ worker[w].pc = "tick" /\ w[1] = "detect"
  /\ SampleOnce \/ UNCHANGED countVars
  /\ worker' = [worker EXCEPT ![w] = At("ticker", 0, 0)]
  /\ UNCHANGED <<running, gen, closed, nics, store, file, hostVars>>

SaveTick(w) ==
  /\ worker[w].pc = "tick" /\ w[1] = "save"
  /\ FlushAndSave
  /\ worker' = [worker EXCEPT ![w] = At("ticker", 0, 0)]
  /\ UNCHANGED <<running, gen, closed, nics, last, hostVars>>

WorkerStep(w) == ReadTicker(w) \/ ReadStopCh(w) \/ Tick(w) \/ StopSeen(w) \/ Detect(w) \/ SaveTick(w)

(***************************************************************************)
(* The users.                                                              *)
(***************************************************************************)

Start == main = "start" /\ StartOrContinue /\ main' = "configure" /\ UNCHANGED shut

\* Whatever interfaces there are, or the list of before if they cannot be listed.
Configure ==
  /\ main = "configure"
  /\ \E list \in Lists \cup {nics} : SetNewConfig(list)
  /\ main' = "report"
  /\ UNCHANGED shut

Report == main = "report" /\ StartOrContinue /\ UNCHANGED userVars

Shutdown == ~shut /\ Stop /\ shut' = TRUE /\ UNCHANGED main

\* The process ends, at any time, and the next one begins with nothing but the file.
Restart ==
  /\ main' = "start" /\ shut' = FALSE
  /\ running' = FALSE /\ gen' = 0 /\ closed' = {}
  /\ worker' = [w \in Workers |-> Ended]
  /\ nics' = {}
  /\ last' = [n \in Nics |-> NoCounter]
  /\ cache' = Nothing
  /\ store' = NoRecords
  /\ UNCHANGED <<file, hostVars>>

(***************************************************************************)
(* The machine.                                                            *)
(***************************************************************************)

Traffic(n) ==
  /\ carried[n] < MaxBytes
  /\ carried' = [carried EXCEPT ![n] = @ + 1]
  /\ bytes' = [bytes EXCEPT ![n] = @ + 1]
  /\ UNCHANGED <<userVars, goVars, nics, countVars, store, file>>

\* An interface is made anew: its counter begins at nothing.
CounterRestarts(n) ==
  /\ bytes[n] > 0
  /\ bytes' = [bytes EXCEPT ![n] = 0]
  /\ UNCHANGED <<userVars, goVars, nics, countVars, store, file, carried>>

Aged(records) == [n \in Nics |-> [kept |-> 0, old |-> records[n].kept + records[n].old]]

\* DataPreserveDay goes by.
DaysPass ==
  /\ store' = Aged(store)
  /\ file' = IF file = NoFile THEN NoFile ELSE [file EXCEPT !.records = Aged(@)]
  /\ UNCHANGED <<userVars, goVars, nics, countVars, hostVars>>

Next ==
  \/ Start \/ Configure \/ Report \/ Shutdown \/ Restart
  \/ \E w \in Workers : WorkerStep(w) /\ UNCHANGED userVars
  \/ \E n \in Nics : Traffic(n) \/ CounterRestarts(n)
  \/ DaysPass

Spec == Init /\ [][Next]_vars

(***************************************************************************)
(* Properties.                                                             *)
(***************************************************************************)

\* The values the code can give its variables: no sum is negative, which would wrap.
TypeOK ==
  /\ main \in {"start", "configure", "report"} /\ shut \in BOOLEAN
  /\ running \in BOOLEAN /\ gen \in 0 .. MaxStarts /\ closed \subseteq Gens
  /\ worker \in [Workers -> [pc : {"ticker", "channel", "select", "tick", "ended"},
                             tick : 0 .. MaxStarts, stop : 0 .. MaxStarts]]
  /\ nics \in Lists \cup {{}}
  /\ last \in [Nics -> Nat \cup {NoCounter}]
  /\ cache \in [Nics -> Nat]
  /\ store \in Records
  /\ file \in Files \cup {NoFile}
  /\ bytes \in [Nics -> Nat] /\ carried \in [Nics -> Nat]

Recorded(record) == record.kept + record.old

\* No byte is counted twice, whatever goroutines sample, flush, save and load in
\* whatever order: the totals of GetTotalTrafficBetween and those of the next
\* process never exceed what the interface has carried.
NoOvercount ==
  \A n \in Nics :
    /\ Recorded(store[n]) + cache[n] <= carried[n]
    /\ file # NoFile => Recorded(file.records[n]) <= carried[n]

\* What the file holds of the last DataPreserveDay days is never lost to a later
\* save.
HistoryKept ==
  [][\A n \in Nics : file # NoFile => /\ file' # NoFile
                                      /\ Recorded(file'.records[n]) >= file.records[n].kept]_statVars

\* No goroutine waits for a stopCh that nobody can close any more.
NoStrayGoroutine ==
  \A w \in Workers : worker[w].pc = "select" => worker[w].stop \in closed \/ (running /\ worker[w].stop = gen)
============================================================================
