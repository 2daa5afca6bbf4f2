-------------------------- MODULE UploadLifecycle --------------------------
(***************************************************************************)
(* The registry of upload streams in server/file_stream.go: which streams  *)
(* of an upload are active, how a finalizer (upload_commit, upload_cancel) *)
(* waits for them, the tombstone a cancellation leaves behind, and the     *)
(* semaphore that bounds the transfers in flight.                          *)
(*                                                                         *)
(* Every request is a goroutine (handleFileOperation runs under "go").  A  *)
(* step below is one critical section of uploadLifecycleMu, one channel    *)
(* operation or one call made outside of the lock.  What a stream does     *)
(* with its slot and what a finalizer does once it stopped waiting are one *)
(* state each here; FileUpload refines them.                               *)
(***************************************************************************)
EXTENDS Integers, FiniteSets

CONSTANTS
  Uploads,      \* upload ids
  Streams,      \* goroutines serving upload_stream requests, one at a time each
  Commits,      \* goroutines serving upload_commit requests
  Cancels,      \* goroutines serving upload_cancel requests
  Downloads,    \* goroutines serving download_stream requests
  Transfers,    \* transfer ids
  TransferOf,   \* the transfer id of the requests each stream serves
  Channels,     \* identities of idle channels
  MaxSlots,     \* maxFileStreamOperations
  NoChan, NoStream, NoUpload

Workers == Commits \cup Cancels

ASSUME Finiteness ==
  /\ IsFiniteSet(Streams) /\ IsFiniteSet(Downloads)
  /\ IsFiniteSet(Uploads) /\ IsFiniteSet(Workers)
ASSUME DistinctKinds == Commits \cap Cancels = {}
ASSUME Sentinels == NoChan \notin Channels /\ NoStream \notin Streams /\ NoUpload \notin Uploads
ASSUME TransferTyped == TransferOf \in [Streams -> Transfers]
ASSUME SlotsPositive == MaxSlots \in Nat \ {0}
\* make(chan struct{}) never fails: an unreferenced identity is always left.
ASSUME EnoughChannels ==
  \E C \in SUBSET Channels : Cardinality(C) > Cardinality(Uploads) + Cardinality(Workers)

VARIABLES
  uploadLifecycles, \* upload -> *uploadStreamLifecycle, NoLifecycle when the key is absent
  open,             \* the idle channels that are not closed
  slots,            \* tokens in fileStreamSlots
  pc,               \* where each stream is in receiveUploadStream
  up,               \* the upload its request names
  ctxDone,          \* the streams whose context is cancelled
  wpc,              \* where each finalizer is
  wup,              \* the upload its request names
  wch,              \* the idle channel a parked finalizer receives from
  pending,          \* the cancel functions a cancellation collected and still has to call
  dpc               \* where each download is in sendDownloadStream

lifecycleVars == <<uploadLifecycles, open>>
streamVars == <<pc, up, ctxDone>>
workerVars == <<wpc, wup, wch, pending>>
vars == <<uploadLifecycles, open, slots, pc, up, ctxDone, wpc, wup, wch, pending, dpc>>

(***************************************************************************)
(* State.                                                                  *)
(***************************************************************************)

NoStreams == [t \in Transfers |-> NoStream]

\* A missing map entry.  An entry that exists always has a channel.
NoLifecycle ==
  [active |-> 0, idle |-> NoChan, canceled |-> "no", streams |-> NoStreams]

\* canceled and canceledAt together: "expired" is uploadCancelTombstoneTTL later.
Lifecycle ==
  [active : Nat, idle : Channels \cup {NoChan}, canceled : {"no", "recently", "expired"},
   streams : [Transfers -> Streams \cup {NoStream}]]

Registered(u) == {s \in Streams : pc[s] # "idle" /\ up[s] = u}
Canceled(u) == uploadLifecycles[u].canceled # "no"
BusyOn(u) == {w \in Workers : wpc[w] # "idle" /\ wup[w] = u}

\* A channel nobody refers to.
Unused(c) ==
  /\ \A u \in Uploads : uploadLifecycles[u].idle # c
  /\ \A w \in Workers : wch[w] # c

\* What make returns.  Identities are interchangeable, so one choice stands for all.
Fresh(c) == Unused(c) /\ c = CHOOSE d \in Channels : Unused(d)

Init ==
  /\ uploadLifecycles = [u \in Uploads |-> NoLifecycle]
  /\ open = {}
  /\ slots = 0
  /\ pc = [s \in Streams |-> "idle"]
  /\ up = [s \in Streams |-> NoUpload]
  /\ ctxDone = {}
  /\ wpc = [w \in Workers |-> "idle"]
  /\ wup = [w \in Workers |-> NoUpload]
  /\ wch = [w \in Workers |-> NoChan]
  /\ pending = [w \in Workers |-> {}]
  /\ dpc = [d \in Downloads |-> "idle"]

\* Mutant: pruning that ignores the time to live.
PrunedEarly ==
  [u \in Uploads |->
     IF uploadLifecycles[u].canceled # "no" /\ uploadLifecycles[u].active = 0
     THEN NoLifecycle
     ELSE uploadLifecycles[u]]

\* pruneUploadLifecyclesLocked: every expired tombstone without a stream goes.
Pruned ==
  [u \in Uploads |->
     IF uploadLifecycles[u].canceled = "expired" /\ uploadLifecycles[u].active = 0
     THEN NoLifecycle
     ELSE uploadLifecycles[u]]

(***************************************************************************)
(* Streams: receiveUploadStream.                                           *)
(***************************************************************************)

\* Mutant: the cancel function is not registered.
BegunUnregistered(st, s, c) ==
  [st EXCEPT !.active = @ + 1, !.idle = IF st.active = 0 THEN c ELSE @]

\* Mutant: every stream, not only the first, makes an idle channel.
BegunRenewingIdle(st, s, c) ==
  [st EXCEPT !.active = @ + 1, !.idle = c, !.streams = [@ EXCEPT ![TransferOf[s]] = s]]

\* The entry with stream s registered; the first stream brings a new idle channel c.
Begun(st, s, c) ==
  [active   |-> st.active + 1,
   idle     |-> IF st.active = 0 THEN c ELSE st.idle,
   canceled |-> st.canceled,
   streams  |-> [st.streams EXCEPT ![TransferOf[s]] = s]]

\* Mutant: the tombstone is not looked at.
BeginEvenCanceled(s, u) ==
  /\ pc[s] = "idle"
  /\ \E c \in Channels :
       /\ Fresh(c)
       /\ uploadLifecycles' = [Pruned EXCEPT ![u] = Begun(Pruned[u], s, c)]
       /\ open' = IF Pruned[u].active = 0 THEN open \cup {c} ELSE open
  /\ pc' = [pc EXCEPT ![s] = "slot"]
  /\ up' = [up EXCEPT ![s] = u]
  /\ UNCHANGED <<slots, ctxDone, workerVars, dpc>>

\* beginUploadStream on an upload that is not cancelled: the active count and
\* the cancel function are registered under one lock.
BeginUploadStream(s, u) ==
  /\ pc[s] = "idle"
  /\ Pruned[u].canceled = "no"
  /\ \E c \in Channels :
       /\ Fresh(c)
       /\ uploadLifecycles' = [Pruned EXCEPT ![u] = Begun(Pruned[u], s, c)]
       /\ open' = IF Pruned[u].active = 0 THEN open \cup {c} ELSE open
  /\ pc' = [pc EXCEPT ![s] = "slot"]
  /\ up' = [up EXCEPT ![s] = u]
  /\ UNCHANGED <<slots, ctxDone, workerVars, dpc>>

\* beginUploadStream on a cancelled upload: an error, after the pruning.
RefuseUploadStream(s, u) ==
  /\ pc[s] = "idle"
  /\ Pruned[u].canceled # "no"
  /\ uploadLifecycles' = Pruned
  /\ UNCHANGED <<open, slots, streamVars, workerVars, dpc>>

\* acquireFileStreamSlot, the branch that sends into the channel.
AcquireSlot(s) ==
  /\ pc[s] = "slot"
  /\ slots < MaxSlots
  /\ slots' = slots + 1
  /\ pc' = [pc EXCEPT ![s] = "http"]
  /\ UNCHANGED <<lifecycleVars, up, ctxDone, workerVars, dpc>>

\* Mutant: the deferred release is registered before the slot is acquired.
AbandonSlotReleases(s) ==
  /\ pc[s] = "slot"
  /\ s \in ctxDone
  /\ slots' = slots - 1
  /\ pc' = [pc EXCEPT ![s] = "end"]
  /\ UNCHANGED <<lifecycleVars, up, ctxDone, workerVars, dpc>>

\* acquireFileStreamSlot, the branch on a done context: no slot is released.
AbandonSlot(s) ==
  /\ pc[s] = "slot"
  /\ s \in ctxDone
  /\ pc' = [pc EXCEPT ![s] = "end"]
  /\ UNCHANGED <<lifecycleVars, slots, up, ctxDone, workerVars, dpc>>

\* The exchange and the chunk are over, with or without an error (the HTTP
\* client times out after fileStreamHTTPTimeout): the deferred calls run.
LeaveTransfer(s) ==
  /\ pc[s] = "http"
  /\ pc' = [pc EXCEPT ![s] = "release"]
  /\ UNCHANGED <<lifecycleVars, slots, up, ctxDone, workerVars, dpc>>

\* releaseFileStreamSlot, deferred last and so run before endActive.
ReleaseSlot(s) ==
  /\ pc[s] = "release"
  /\ slots' = slots - 1
  /\ pc' = [pc EXCEPT ![s] = "end"]
  /\ UNCHANGED <<lifecycleVars, up, ctxDone, workerVars, dpc>>

\* The entry without stream s, before it is deleted.
Ended(st, s) ==
  [active   |-> st.active - 1,
   idle     |-> st.idle,
   canceled |-> st.canceled,
   streams  |-> [st.streams EXCEPT ![TransferOf[s]] = NoStream]]

\* The entry once stream s has ended: the last end deletes it, tombstones excepted.
AfterEnd(st, s) ==
  IF st.active = 1 /\ st.canceled = "no" THEN NoLifecycle ELSE Ended(st, s)

\* Mutant: the close moved into the branch that deletes the entry.
ClosesUnlessCanceled(st) == st.active = 1 /\ st.canceled = "no"

\* The last end closes the idle channel.
Closes(st) == st.active = 1

\* The function beginUploadStream returned.  Cancelling a finished request
\* does nothing, so its cancel function leaves every pending collection.
EndUploadStream(s) ==
  /\ pc[s] = "end"
  /\ LET st == uploadLifecycles[up[s]]
     IN  IF st.active = 0
         THEN UNCHANGED lifecycleVars
         ELSE /\ uploadLifecycles' = [uploadLifecycles EXCEPT ![up[s]] = AfterEnd(@, s)]
              /\ open' = IF Closes(st) THEN open \ {st.idle} ELSE open
  /\ pc' = [pc EXCEPT ![s] = "idle"]
  /\ up' = [up EXCEPT ![s] = NoUpload]
  /\ ctxDone' = ctxDone \ {s}
  /\ pending' = [w \in Workers |-> pending[w] \ {s}]
  /\ UNCHANGED <<slots, wpc, wup, wch, dpc>>

(***************************************************************************)
(* Finalizers: what commitFileUpload and cancelFileUpload share.           *)
(***************************************************************************)

\* commitFileUpload reaches waitUploadStreams.
StartCommit(w, u) ==
  /\ w \in Commits
  /\ wpc[w] = "idle"
  /\ wpc' = [wpc EXCEPT ![w] = "waiting"]
  /\ wup' = [wup EXCEPT ![w] = u]
  /\ UNCHANGED <<lifecycleVars, slots, streamVars, wch, pending, dpc>>

\* The entry as a tombstone; one that is made for it has the closed channel c.
Marked(st, c) ==
  [active   |-> st.active,
   idle     |-> IF st.idle = NoChan THEN c ELSE st.idle,
   canceled |-> "recently",
   streams  |-> st.streams]

\* The critical section of cancelUploadStreams: a tombstone is made when the
\* upload has no entry, and the cancel functions are collected.
MarkCanceled(w, u) ==
  /\ w \in Cancels
  /\ wpc[w] = "idle"
  /\ \E c \in Channels :
       /\ Fresh(c)
       /\ uploadLifecycles' = [Pruned EXCEPT ![u] = Marked(@, c)]
       /\ pending' = [pending EXCEPT ![w] =
                        {s \in Streams : \E t \in Transfers : Pruned[u].streams[t] = s}]
  /\ wpc' = [wpc EXCEPT ![w] = "waiting"]
  /\ wup' = [wup EXCEPT ![w] = u]
  /\ UNCHANGED <<open, slots, streamVars, wch, dpc>>

\* One of the cancel functions, called after the lock was released.
CallCancel(w, s) ==
  /\ s \in pending[w]
  /\ pending' = [pending EXCEPT ![w] = @ \ {s}]
  /\ ctxDone' = ctxDone \cup {s}
  /\ UNCHANGED <<lifecycleVars, slots, pc, up, wpc, wup, wch, dpc>>

\* waitUploadStreams finds no active stream and returns.
WaitPasses(w) ==
  /\ wpc[w] = "waiting"
  /\ pending[w] = {}
  /\ uploadLifecycles[wup[w]].active = 0
  /\ uploadLifecycles' =
       [uploadLifecycles EXCEPT ![wup[w]] = IF @.canceled # "no" THEN @ ELSE NoLifecycle]
  /\ wpc' = [wpc EXCEPT ![w] = "passed"]
  /\ UNCHANGED <<open, slots, streamVars, wup, wch, pending, dpc>>

\* waitUploadStreams reads the idle channel, unlocks and receives from it.
WaitParks(w) ==
  /\ wpc[w] = "waiting"
  /\ pending[w] = {}
  /\ uploadLifecycles[wup[w]].active > 0
  /\ wch' = [wch EXCEPT ![w] = uploadLifecycles[wup[w]].idle]
  /\ wpc' = [wpc EXCEPT ![w] = "parked"]
  /\ UNCHANGED <<lifecycleVars, slots, streamVars, wup, pending, dpc>>

\* The channel is closed: the loop looks at the entry again.
WaitWakes(w) ==
  /\ wpc[w] = "parked"
  /\ wch[w] \notin open
  /\ wch' = [wch EXCEPT ![w] = NoChan]
  /\ wpc' = [wpc EXCEPT ![w] = "waiting"]
  /\ UNCHANGED <<lifecycleVars, slots, streamVars, wup, pending, dpc>>

\* The finalizer answers its request.
FinalizerReturns(w) ==
  /\ wpc[w] = "passed"
  /\ wpc' = [wpc EXCEPT ![w] = "idle"]
  /\ wup' = [wup EXCEPT ![w] = NoUpload]
  /\ UNCHANGED <<lifecycleVars, slots, streamVars, wch, pending, dpc>>

(***************************************************************************)
(* Downloads, which compete for the slots; time; the process.              *)
(***************************************************************************)

StartDownload(d) ==
  /\ dpc[d] = "idle"
  /\ dpc' = [dpc EXCEPT ![d] = "slot"]
  /\ UNCHANGED <<lifecycleVars, slots, streamVars, workerVars>>

DownloadAcquires(d) ==
  /\ dpc[d] = "slot"
  /\ slots < MaxSlots
  /\ slots' = slots + 1
  /\ dpc' = [dpc EXCEPT ![d] = "sending"]
  /\ UNCHANGED <<lifecycleVars, streamVars, workerVars>>

\* The context of a download expires on its own.
DownloadTimesOut(d) ==
  /\ dpc[d] = "slot"
  /\ dpc' = [dpc EXCEPT ![d] = "idle"]
  /\ UNCHANGED <<lifecycleVars, slots, streamVars, workerVars>>

DownloadReleases(d) ==
  /\ dpc[d] = "sending"
  /\ slots' = slots - 1
  /\ dpc' = [dpc EXCEPT ![d] = "idle"]
  /\ UNCHANGED <<lifecycleVars, streamVars, workerVars>>

\* Fifteen minutes pass.  No upload_cancel takes that long: it interrupts the
\* streams it waits for, and what it does then is a file removal.
TombstoneExpires(u) ==
  /\ uploadLifecycles[u].canceled = "recently"
  /\ BusyOn(u) \cap Cancels = {}
  /\ uploadLifecycles' = [uploadLifecycles EXCEPT ![u].canceled = "expired"]
  /\ UNCHANGED <<open, slots, streamVars, workerVars, dpc>>

\* The process dies and is started again: every map, channel and goroutine is gone.
Restart ==
  /\ uploadLifecycles' = [u \in Uploads |-> NoLifecycle]
  /\ open' = {}
  /\ slots' = 0
  /\ pc' = [s \in Streams |-> "idle"]
  /\ up' = [s \in Streams |-> NoUpload]
  /\ ctxDone' = {}
  /\ wpc' = [w \in Workers |-> "idle"]
  /\ wup' = [w \in Workers |-> NoUpload]
  /\ wch' = [w \in Workers |-> NoChan]
  /\ pending' = [w \in Workers |-> {}]
  /\ dpc' = [d \in Downloads |-> "idle"]

StreamNext(s) ==
  \/ \E u \in Uploads : BeginUploadStream(s, u) \/ RefuseUploadStream(s, u)
  \/ AcquireSlot(s)
  \/ AbandonSlot(s)
  \/ LeaveTransfer(s)
  \/ ReleaseSlot(s)
  \/ EndUploadStream(s)

WorkerNext(w) ==
  \/ \E u \in Uploads : StartCommit(w, u) \/ MarkCanceled(w, u)
  \/ \E s \in Streams : CallCancel(w, s)
  \/ WaitPasses(w)
  \/ WaitParks(w)
  \/ WaitWakes(w)
  \/ FinalizerReturns(w)

DownloadNext(d) ==
  StartDownload(d) \/ DownloadAcquires(d) \/ DownloadTimesOut(d) \/ DownloadReleases(d)

Next ==
  \/ \E s \in Streams : StreamNext(s)
  \/ \E w \in Workers : WorkerNext(w)
  \/ \E d \in Downloads : DownloadNext(d)
  \/ \E u \in Uploads : TombstoneExpires(u)
  \/ Restart

\* The scheduler runs every goroutine that can run, an HTTP exchange ends by
\* its timeout at the latest, and senders blocked on a full channel are served
\* first in, first out.  Nothing makes the controller send another request.
Fairness ==
  /\ \A s \in Streams :
       /\ WF_vars(AbandonSlot(s) \/ LeaveTransfer(s) \/ ReleaseSlot(s) \/ EndUploadStream(s))
       /\ SF_vars(AcquireSlot(s))
  /\ \A w \in Workers :
       /\ WF_vars(WaitPasses(w) \/ WaitParks(w) \/ WaitWakes(w) \/ FinalizerReturns(w))
       /\ \A s \in Streams : WF_vars(CallCancel(w, s))
  /\ \A d \in Downloads : WF_vars(DownloadReleases(d))

Spec == Init /\ [][Next]_vars
FairSpec == Spec /\ Fairness

(***************************************************************************)
(* Properties.                                                             *)
(***************************************************************************)

\* Every variable has the type the code gives it.
TypeOK ==
  /\ uploadLifecycles \in [Uploads -> Lifecycle]
  /\ open \subseteq Channels
  /\ slots \in Nat
  /\ pc \in [Streams -> {"idle", "slot", "http", "release", "end"}]
  /\ up \in [Streams -> Uploads \cup {NoUpload}]
  /\ ctxDone \subseteq Streams
  /\ wpc \in [Workers -> {"idle", "waiting", "parked", "passed"}]
  /\ wup \in [Workers -> Uploads \cup {NoUpload}]
  /\ wch \in [Workers -> Channels \cup {NoChan}]
  /\ pending \in [Workers -> SUBSET Streams]
  /\ dpc \in [Downloads -> {"idle", "slot", "sending"}]

\* The counter a finalizer waits on is the number of streams of the upload
\* between beginUploadStream and its end function: entries are deleted by
\* ends, waits and prunes, and none of them may lose a stream that still runs.
ActiveCountsStreams ==
  \A u \in Uploads : uploadLifecycles[u].active = Cardinality(Registered(u))

\* The idle channel is open exactly while streams are active, so the last end
\* never closes a closed channel (a panic) and a wait never receives too early.
IdleOpenIffActive ==
  \A u \in Uploads : uploadLifecycles[u].idle \in open <=> uploadLifecycles[u].active > 0

\* A finalizer parked on an open channel holds the channel of the entry of its
\* own upload, which the end of the last stream will close: the entry was not
\* replaced by one with another channel while the finalizer slept.
NoLostWakeup ==
  \A w \in Workers :
    (wpc[w] = "parked" /\ wch[w] \in open) => uploadLifecycles[wup[w]].idle = wch[w]

\* The streams whose next step waits for the network or for a slot.
Interruptible(u) == {s \in Registered(u) : pc[s] \in {"slot", "http"}}

\* Transfer ids that tell two requests in flight apart.
DistinctTransfers == \A s, r \in Streams : TransferOf[s] = TransferOf[r] => s = r

\* Once an upload is marked cancelled, every stream of it has been interrupted
\* or is about to be by the cancellation that collected it: no order of
\* beginUploadStream and cancelUploadStreams lets one slip through.
CancelReachesStreams ==
  DistinctTransfers =>
    \A u \in Uploads : Canceled(u) =>
      \A s \in Interruptible(u) : s \in ctxDone \/ \E w \in Cancels : s \in pending[w]

\* When upload_cancel goes on to remove the part file, no stream of the upload
\* runs, whatever other requests, expiries and prunes did since it looked.
CancelQuiesces ==
  \A w \in Cancels : wpc[w] = "passed" => Registered(wup[w]) = {}

Receivers == {s \in Streams : pc[s] \in {"http", "release"}}
Senders == {d \in Downloads : dpc[d] = "sending"}

\* The tokens in the semaphore are the transfers in flight, at most MaxSlots of
\* them: no path of a cancelled, failed or finished transfer leaks or returns two.
SlotsMatchHolders ==
  slots = Cardinality(Receivers) + Cardinality(Senders) /\ slots <= MaxSlots

\* An idle channel belongs to one entry and an open one to some entry: what makes
\* the three properties about the registry inductive.
RegistryInv ==
  /\ ActiveCountsStreams
  /\ IdleOpenIffActive
  /\ NoLostWakeup
  /\ \A c \in open : \E u \in Uploads : uploadLifecycles[u].idle = c
  /\ \A u, v \in Uploads :
       (u # v /\ uploadLifecycles[u].idle = uploadLifecycles[v].idle)
         => uploadLifecycles[u].idle = NoChan

\* A cancellation in progress keeps its tombstone fresh and, once it stopped
\* waiting, finds no active stream; the cancel function of every stream is where
\* a cancellation will find it.
CancelInv ==
  /\ \A w \in Cancels :
       /\ wpc[w] # "idle" => uploadLifecycles[wup[w]].canceled = "recently"
       /\ wpc[w] = "passed" => uploadLifecycles[wup[w]].active = 0
  /\ DistinctTransfers =>
       \A u \in Uploads : \A s \in Registered(u) :
         /\ uploadLifecycles[u].streams[TransferOf[s]] = s
         /\ Canceled(u) => s \in ctxDone \/ \E w \in Cancels : s \in pending[w]

\* upload_cancel returns: the tombstone keeps new streams away and each stream
\* it waits for gets out of the slot queue or of its exchange.  Every stream ends,
\* those queued for a slot behind downloads included.
HandlersReturn ==
  /\ \A w \in Cancels : wpc[w] # "idle" ~> wpc[w] = "idle"
  /\ \A s \in Streams : pc[s] # "idle" ~> pc[s] = "idle"
=============================================================================
