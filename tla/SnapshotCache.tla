--------------------------- MODULE SnapshotCache ---------------------------
(***************************************************************************)
(* The two measurements that a report takes from a cache.                  *)
(*                                                                         *)
(* monitoring/unit/miner.go: a goroutine asks the miner for its state, and *)
(* Miner() serves the last answer without waiting.                         *)
(*                                                                         *)
(* monitoring/unit/disk.go: with ForceDiskTotal the disk usage is the size *)
(* of a directory, walked at most once in diskWalkTTL; the goroutine of    *)
(* the reports and that of the basic information share the walk, one of    *)
(* them holding diskWalkMu as long as it lasts.                            *)
(*                                                                         *)
(* Time passes in units, at any moment; every age stops counting when it   *)
(* is beyond all that the code compares it with.                           *)
(***************************************************************************)
EXTENDS Naturals

CONSTANTS
  StaleAfter,      \* minerStaleAfter
  RequestTimeout,  \* minerRequestTimeout
  MaxFails,        \* minerMaxFails
  WalkTTL,         \* diskWalkTTL
  WalkTime,        \* bound: how long a walk lasts
  Askers           \* the goroutines that call Disk()

ASSUME CacheConstants ==
  {StaleAfter, RequestTimeout, MaxFails, WalkTTL, WalkTime} \subseteq Nat

VARIABLES
  snapshot,  \* lastMinerStat # nil
  fetchAge,  \* time since lastMinerFetch
  fails,     \* minerFetchFails
  request,   \* the request of the collector: how long it has taken, or Idle
  told,      \* history: how long ago the miner was as the snapshot says
  missed,    \* history: the requests that have failed since the snapshot
  walked,    \* diskWalkAt is not zero
  walkAge,   \* time since diskWalkAt
  walkOK,    \* diskWalkOK
  holder,    \* who holds diskWalkMu, and how long its walk has taken
  asking,    \* who waits for diskWalkMu
  used,      \* what forcedDiskUsed answered last: whether it is a size, and how old it is
  begun      \* history: how long ago the walk that diskWalkUsed comes from began

minerVars == <<snapshot, fetchAge, fails, request, told, missed>>
walkVars == <<walked, walkAge, walkOK, holder, asking, used, begun>>
cacheVars == <<minerVars, walkVars>>

Idle == RequestTimeout + 1
Nobody == [who |-> "nobody", time |-> 0]
Later(age, limit) == IF age > limit THEN age ELSE age + 1

CacheInit ==
  /\ snapshot = FALSE /\ fetchAge = 0 /\ fails = 0 /\ request = Idle
  /\ told = 0 /\ missed = 0
  /\ walked = FALSE /\ walkAge = 0 /\ walkOK = FALSE
  /\ holder = Nobody /\ asking = {} /\ begun = 0
  /\ used = [ok |-> FALSE, age |-> 0]

\* Neither a request nor a walk takes more than its time.
TimePasses ==
  /\ request # RequestTimeout /\ holder.time # WalkTime
  /\ fetchAge' = Later(fetchAge, StaleAfter)
  /\ told' = Later(told, StaleAfter + RequestTimeout)
  /\ request' = IF request = Idle THEN Idle ELSE request + 1
  /\ walkAge' = Later(walkAge, WalkTTL)
  /\ begun' = Later(begun, WalkTTL + WalkTime)
  /\ holder' = IF holder = Nobody THEN Nobody ELSE [holder EXCEPT !.time = @ + 1]
  /\ UNCHANGED <<snapshot, fails, missed, walked, walkOK, asking, used>>

(***************************************************************************)
(* The miner.                                                              *)
(***************************************************************************)

\* The ticker of StartMinerCollector, or its first request.
Fetch == request = Idle /\ request' = 0 /\ UNCHANGED <<snapshot, fetchAge, fails, told, missed, walkVars>>

\* An answer that normalizeSrbStatus takes; the miner has written it at some
\* moment of the request.
FetchDone ==
  /\ request # Idle
  /\ snapshot' = TRUE /\ fetchAge' = 0 /\ fails' = 0
  /\ told' \in 0 .. request
  /\ missed' = 0
  /\ request' = Idle
  /\ UNCHANGED walkVars

\* No answer, a status, no algorithms or no hashrate.
FetchFailed ==
  /\ request # Idle
  /\ fails' = Later(fails, MaxFails) /\ missed' = Later(missed, MaxFails)
  /\ request' = Idle
  /\ UNCHANGED <<snapshot, fetchAge, told, walkVars>>

\* Mutant: the snapshot is given up only if it is old and the miner fails.
MinerUnlessBoth == snapshot /\ (fetchAge <= StaleAfter \/ fails <= MaxFails)

\* Miner() does not return nil.
Miner == snapshot /\ fetchAge <= StaleAfter /\ fails <= MaxFails

(***************************************************************************)
(* The size of the directory.                                              *)
(***************************************************************************)

Ask(a) ==
  /\ a \notin asking /\ holder.who # a
  /\ asking' = asking \cup {a}
  /\ UNCHANGED <<minerVars, walked, walkAge, walkOK, holder, used, begun>>

\* Mutant: a walk is good for ever.
CachedOnceWalked == walked

Cached == walked /\ walkAge < WalkTTL

\* dirApparentSizeCached with the lock: the cached size, or a walk of its own.
TakeLock(a) ==
  /\ a \in asking /\ holder = Nobody
  /\ asking' = asking \ {a}
  /\ \/ /\ Cached
        /\ used' = [ok |-> walkOK, age |-> begun] /\ UNCHANGED holder
     \/ /\ ~Cached
        /\ holder' = [who |-> a, time |-> 0] /\ UNCHANGED used
  /\ UNCHANGED <<minerVars, walked, walkAge, walkOK, begun>>

\* The walk ends, and its result is dated with its end.
WalkEnds ==
  /\ holder # Nobody
  /\ walked' = TRUE /\ walkAge' = 0 /\ walkOK' \in BOOLEAN
  /\ begun' = holder.time
  /\ used' = [ok |-> walkOK', age |-> holder.time]
  /\ holder' = Nobody
  /\ UNCHANGED <<minerVars, asking>>

CacheNext ==
  \/ TimePasses
  \/ Fetch \/ FetchDone \/ FetchFailed
  \/ \E a \in Askers : Ask(a) \/ TakeLock(a)
  \/ WalkEnds

CacheSpec == CacheInit /\ [][CacheNext]_cacheVars

\* A miner report is not older than minerStaleAfter and one request, and not
\* more than minerMaxFails requests have failed since: a miner that is down or
\* hangs is not reported as a running one for longer (miner.go).
MinerIsFresh == Miner => told <= StaleAfter + RequestTimeout /\ missed <= MaxFails

\* A directory size is not older than the TTL and the walk it comes from,
\* however long its asker has waited for another one's walk (disk.go).
SizeIsFresh == used.ok => used.age <= WalkTTL + WalkTime

CachesFresh == MinerIsFresh /\ SizeIsFresh
=============================================================================
