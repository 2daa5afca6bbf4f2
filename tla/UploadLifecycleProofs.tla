----------------------- MODULE UploadLifecycleProofs -----------------------
(***************************************************************************)
(* Proofs about UploadLifecycle, for any number of uploads, streams,       *)
(* finalizers and downloads.                                               *)
(***************************************************************************)
EXTENDS UploadLifecycle, FiniteSetTheorems, TLAPS

\* A missing map entry is a well-typed one.
LEMMA NoLifecycleTyped == NoLifecycle \in Lifecycle
<1>1. NoStreams \in [Transfers -> Streams \cup {NoStream}]
  BY DEF NoStreams
<1> QED BY <1>1 DEF NoLifecycle, Lifecycle

\* Pruning keeps the type of the registry.
LEMMA PrunedTyped == ASSUME TypeOK PROVE Pruned \in [Uploads -> Lifecycle]
BY NoLifecycleTyped DEF TypeOK, Pruned

\* Registering a stream keeps the type of an entry.
LEMMA BegunTyped ==
  ASSUME NEW st \in Lifecycle, NEW s \in Streams, NEW c \in Channels
  PROVE  Begun(st, s, c) \in Lifecycle
<1>1. [st.streams EXCEPT ![TransferOf[s]] = s] \in [Transfers -> Streams \cup {NoStream}]
  BY DEF Lifecycle
<1> QED BY <1>1 DEF Begun, Lifecycle

\* Marking an upload cancelled keeps the type of its entry.
LEMMA MarkedTyped ==
  ASSUME NEW st \in Lifecycle, NEW c \in Channels
  PROVE  Marked(st, c) \in Lifecycle
BY DEF Marked, Lifecycle

\* Ending a stream keeps the type of an entry that counted it.
LEMMA AfterEndTyped ==
  ASSUME NEW st \in Lifecycle, NEW s \in Streams, st.active # 0
  PROVE  AfterEnd(st, s) \in Lifecycle
BY TransferTyped DEF AfterEnd, Ended, Lifecycle, NoLifecycle, NoStreams

(***************************************************************************)
(* Types and slots.  slots - 1 is a natural number because whoever gives a *)
(* slot back holds one, so both are proved together.                       *)
(***************************************************************************)

\* The holders of slots are finitely many.
LEMMA HoldersFinite ==
  /\ IsFiniteSet(Receivers) /\ Cardinality(Receivers) \in Nat
  /\ IsFiniteSet(Senders) /\ Cardinality(Senders) \in Nat
<1>1. Receivers \subseteq Streams /\ Senders \subseteq Downloads
  BY DEF Receivers, Senders
<1> QED BY <1>1, Finiteness, FS_Subset, FS_CardinalityType

\* Whoever serves a request knows the upload it names, and only a cancellation
\* that has not begun to wait still has cancel functions to call.
Named ==
  /\ \A s \in Streams : pc[s] # "idle" => up[s] \in Uploads
  /\ \A w \in Workers : wpc[w] # "idle" => wup[w] \in Uploads
  /\ \A w \in Workers : wpc[w] # "waiting" => pending[w] = {}

TypedSlots == TypeOK /\ Named /\ SlotsMatchHolders

\* Whoever is busy has named an upload, after every step.
LEMMA NamedStep == TypeOK /\ Named /\ [Next]_vars => Named'
<1> SUFFICES ASSUME TypeOK, Named, [Next]_vars PROVE Named'
  OBVIOUS
<1> USE DEF TypeOK, Named
<1>1. ASSUME NEW s \in Streams, StreamNext(s) PROVE Named'
  <2>1. UNCHANGED <<wpc, wup>> /\ \A w \in Workers : pending'[w] \subseteq pending[w]
    BY <1>1 DEF StreamNext, BeginUploadStream, RefuseUploadStream, AcquireSlot, AbandonSlot,
                LeaveTransfer, ReleaseSlot, EndUploadStream, workerVars
  <2>2. CASE \E u \in Uploads : BeginUploadStream(s, u)
    BY <2>1, <2>2 DEF BeginUploadStream
  <2>3. CASE \E u \in Uploads : RefuseUploadStream(s, u)
    BY <2>1, <2>3 DEF RefuseUploadStream, streamVars
  <2>4. CASE AcquireSlot(s) \/ AbandonSlot(s) \/ LeaveTransfer(s) \/ ReleaseSlot(s)
    BY <2>1, <2>4 DEF AcquireSlot, AbandonSlot, LeaveTransfer, ReleaseSlot
  <2>5. CASE EndUploadStream(s)
    BY <2>1, <2>5 DEF EndUploadStream
  <2> QED BY <1>1, <2>2, <2>3, <2>4, <2>5 DEF StreamNext
<1>2. ASSUME NEW w \in Workers, WorkerNext(w) PROVE Named'
  BY <1>2 DEF WorkerNext, StartCommit, MarkCanceled, CallCancel, WaitPasses, WaitParks, WaitWakes,
              FinalizerReturns, streamVars
<1>3. ASSUME NEW d \in Downloads, DownloadNext(d) PROVE Named'
  BY <1>3 DEF DownloadNext, StartDownload, DownloadAcquires, DownloadTimesOut, DownloadReleases,
              streamVars, workerVars
<1>4. ASSUME NEW u \in Uploads, TombstoneExpires(u) PROVE Named'
  BY <1>4 DEF TombstoneExpires, streamVars, workerVars
<1>5. ASSUME Restart PROVE Named'
  BY <1>5 DEF Restart
<1>6. ASSUME UNCHANGED vars PROVE Named'
  BY <1>6 DEF vars
<1> QED BY <1>1, <1>2, <1>3, <1>4, <1>5, <1>6 DEF Next

\* Types and tokens are right at the start.
LEMMA TypedSlotsInit == Init => TypedSlots
<1> SUFFICES ASSUME Init PROVE TypedSlots
  OBVIOUS
<1>1. TypeOK
  BY DEF Init, TypeOK, Lifecycle, NoLifecycle, NoStreams
<1>2. Receivers = {} /\ Senders = {}
  BY DEF Init, Receivers, Senders
<1>3. SlotsMatchHolders
  BY <1>2, FS_EmptySet, SlotsPositive DEF Init, SlotsMatchHolders
<1> QED BY <1>1, <1>3 DEF Init, Named, TypedSlots

\* Every step keeps the types and the tokens right.
LEMMA TypedSlotsStep == TypedSlots /\ [Next]_vars => TypedSlots'
<1> SUFFICES ASSUME TypeOK, Named, SlotsMatchHolders, [Next]_vars
             PROVE  TypeOK' /\ SlotsMatchHolders'
  BY NamedStep DEF TypedSlots
<1> USE DEF TypeOK
\* Steps that leave the slots and their holders alone.
<1>a. ASSUME Receivers' = Receivers, Senders' = Senders, slots' = slots
      PROVE  SlotsMatchHolders'
  BY <1>a DEF SlotsMatchHolders
<1>1. ASSUME NEW s \in Streams, NEW u \in Uploads, BeginUploadStream(s, u)
      PROVE  TypeOK' /\ SlotsMatchHolders'
  <2>1. TypeOK'
    BY <1>1, PrunedTyped, BegunTyped DEF BeginUploadStream, workerVars
  <2>2. Receivers' = Receivers /\ Senders' = Senders /\ slots' = slots
    BY <1>1 DEF BeginUploadStream, workerVars, Receivers, Senders
  <2> QED BY <2>1, <2>2, <1>a
<1>2. ASSUME NEW s \in Streams, NEW u \in Uploads, RefuseUploadStream(s, u)
      PROVE  TypeOK' /\ SlotsMatchHolders'
  <2>1. TypeOK'
    BY <1>2, PrunedTyped DEF RefuseUploadStream, workerVars, streamVars
  <2>2. Receivers' = Receivers /\ Senders' = Senders /\ slots' = slots
    BY <1>2 DEF RefuseUploadStream, streamVars, Receivers, Senders
  <2> QED BY <2>1, <2>2, <1>a
<1>3. ASSUME NEW s \in Streams, AcquireSlot(s)
      PROVE  TypeOK' /\ SlotsMatchHolders'
  <2>1. TypeOK'
    BY <1>3 DEF AcquireSlot, lifecycleVars, workerVars
  <2>2. Receivers' = Receivers \cup {s} /\ s \notin Receivers /\ Senders' = Senders
    BY <1>3 DEF AcquireSlot, Receivers, Senders
  <2>3. Cardinality(Receivers') = Cardinality(Receivers) + 1
    BY <2>2, HoldersFinite, FS_AddElement
  <2>4. slots' = slots + 1 /\ slots + 1 <= MaxSlots
    BY <1>3, SlotsPositive DEF AcquireSlot
  <2> QED BY <2>1, <2>2, <2>3, <2>4, HoldersFinite DEF SlotsMatchHolders
<1>4. ASSUME NEW s \in Streams, AbandonSlot(s)
      PROVE  TypeOK' /\ SlotsMatchHolders'
  <2>1. TypeOK'
    BY <1>4 DEF AbandonSlot, lifecycleVars, workerVars
  <2>2. Receivers' = Receivers /\ Senders' = Senders /\ slots' = slots
    BY <1>4 DEF AbandonSlot, Receivers, Senders
  <2> QED BY <2>1, <2>2, <1>a
<1>5. ASSUME NEW s \in Streams, LeaveTransfer(s)
      PROVE  TypeOK' /\ SlotsMatchHolders'
  <2>1. TypeOK'
    BY <1>5 DEF LeaveTransfer, lifecycleVars, workerVars
  <2>2. Receivers' = Receivers /\ Senders' = Senders /\ slots' = slots
    BY <1>5 DEF LeaveTransfer, Receivers, Senders
  <2> QED BY <2>1, <2>2, <1>a
<1>6. ASSUME NEW s \in Streams, ReleaseSlot(s)
      PROVE  TypeOK' /\ SlotsMatchHolders'
  <2>1. s \in Receivers /\ Receivers' = Receivers \ {s} /\ Senders' = Senders
    BY <1>6 DEF ReleaseSlot, Receivers, Senders
  <2>2. Cardinality(Receivers') = Cardinality(Receivers) - 1
    BY <2>1, HoldersFinite, FS_RemoveElement
  <2>3. Cardinality(Receivers) > 0
    BY <2>1, HoldersFinite, FS_EmptySet
  <2>4. slots' = slots - 1 /\ slots' \in Nat /\ slots' <= MaxSlots
    BY <1>6, <2>3, HoldersFinite, SlotsPositive DEF ReleaseSlot, SlotsMatchHolders
  <2>5. TypeOK'
    BY <1>6, <2>4 DEF ReleaseSlot, lifecycleVars, workerVars
  <2> QED BY <2>1, <2>2, <2>4, <2>5, HoldersFinite DEF SlotsMatchHolders
<1>7. ASSUME NEW s \in Streams, EndUploadStream(s)
      PROVE  TypeOK' /\ SlotsMatchHolders'
  <2>1. TypeOK'
    BY <1>7, AfterEndTyped DEF EndUploadStream, lifecycleVars
  <2>2. Receivers' = Receivers /\ Senders' = Senders /\ slots' = slots
    BY <1>7 DEF EndUploadStream, Receivers, Senders
  <2> QED BY <2>1, <2>2, <1>a
<1>8. ASSUME NEW w \in Workers, WorkerNext(w)
      PROVE  TypeOK' /\ SlotsMatchHolders'
  <2>1. Receivers' = Receivers /\ Senders' = Senders /\ slots' = slots
    BY <1>8 DEF WorkerNext, StartCommit, MarkCanceled, CallCancel, WaitPasses, WaitParks,
                WaitWakes, FinalizerReturns, streamVars, Receivers, Senders
  <2>2. ASSUME NEW u \in Uploads, StartCommit(w, u) PROVE TypeOK'
    BY <2>2 DEF StartCommit, lifecycleVars, streamVars
  <2>3. ASSUME NEW u \in Uploads, MarkCanceled(w, u) PROVE TypeOK'
    <3>1. PICK c \in Channels : uploadLifecycles' = [Pruned EXCEPT ![u] = Marked(@, c)]
      BY <2>3 DEF MarkCanceled
    <3>2. Marked(Pruned[u], c) \in Lifecycle
      BY PrunedTyped, MarkedTyped
    <3>3. uploadLifecycles' \in [Uploads -> Lifecycle]
      BY <3>1, <3>2, PrunedTyped
    <3> QED BY <2>3, <3>3 DEF MarkCanceled, streamVars
  <2>4. ASSUME NEW s \in Streams, CallCancel(w, s) PROVE TypeOK'
    BY <2>4 DEF CallCancel, lifecycleVars
  <2>5. ASSUME WaitPasses(w) PROVE TypeOK'
    <3>1. uploadLifecycles' \in [Uploads -> Lifecycle]
      BY <2>5, NoLifecycleTyped DEF WaitPasses
    <3>2. wpc' \in [Workers -> {"idle", "waiting", "parked", "passed"}]
      BY <2>5 DEF WaitPasses
    <3> QED BY <2>5, <3>1, <3>2 DEF WaitPasses, streamVars
  <2>6. ASSUME WaitParks(w) PROVE TypeOK'
    <3>1. uploadLifecycles[wup[w]].idle \in Channels \cup {NoChan}
      BY <2>6 DEF WaitParks, Named, Lifecycle
    <3> QED BY <2>6, <3>1 DEF WaitParks, lifecycleVars, streamVars
  <2>7. ASSUME WaitWakes(w) PROVE TypeOK'
    BY <2>7 DEF WaitWakes, lifecycleVars, streamVars
  <2>8. ASSUME FinalizerReturns(w) PROVE TypeOK'
    BY <2>8 DEF FinalizerReturns, lifecycleVars, streamVars
  <2> QED
    BY <1>8, <1>a, <2>1, <2>2, <2>3, <2>4, <2>5, <2>6, <2>7, <2>8 DEF WorkerNext
<1>9. ASSUME NEW d \in Downloads, DownloadNext(d)
      PROVE  TypeOK' /\ SlotsMatchHolders'
  <2>1. CASE StartDownload(d) \/ DownloadTimesOut(d)
    <3>1. TypeOK'
      BY <2>1 DEF StartDownload, DownloadTimesOut, lifecycleVars, streamVars, workerVars
    <3>2. Receivers' = Receivers /\ Senders' = Senders /\ slots' = slots
      BY <2>1 DEF StartDownload, DownloadTimesOut, streamVars, Receivers, Senders
    <3> QED BY <3>1, <3>2, <1>a
  <2>2. CASE DownloadAcquires(d)
    <3>1. TypeOK'
      BY <2>2 DEF DownloadAcquires, lifecycleVars, streamVars, workerVars
    <3>2. Senders' = Senders \cup {d} /\ d \notin Senders /\ Receivers' = Receivers
      BY <2>2 DEF DownloadAcquires, streamVars, Receivers, Senders
    <3>3. Cardinality(Senders') = Cardinality(Senders) + 1
      BY <3>2, HoldersFinite, FS_AddElement
    <3>4. slots' = slots + 1 /\ slots + 1 <= MaxSlots
      BY <2>2, SlotsPositive DEF DownloadAcquires
    <3> QED BY <3>1, <3>2, <3>3, <3>4, HoldersFinite DEF SlotsMatchHolders
  <2>3. CASE DownloadReleases(d)
    <3>1. d \in Senders /\ Senders' = Senders \ {d} /\ Receivers' = Receivers
      BY <2>3 DEF DownloadReleases, streamVars, Receivers, Senders
    <3>2. Cardinality(Senders') = Cardinality(Senders) - 1
      BY <3>1, HoldersFinite, FS_RemoveElement
    <3>3. Cardinality(Senders) > 0
      BY <3>1, HoldersFinite, FS_EmptySet
    <3>4. slots' = slots - 1 /\ slots' \in Nat /\ slots' <= MaxSlots
      BY <2>3, <3>3, HoldersFinite, SlotsPositive DEF DownloadReleases, SlotsMatchHolders
    <3>5. TypeOK'
      BY <2>3, <3>4 DEF DownloadReleases, lifecycleVars, streamVars, workerVars
    <3> QED BY <3>1, <3>2, <3>4, <3>5, HoldersFinite DEF SlotsMatchHolders
  <2> QED BY <1>9, <2>1, <2>2, <2>3 DEF DownloadNext
<1>10. ASSUME NEW u \in Uploads, TombstoneExpires(u)
       PROVE  TypeOK' /\ SlotsMatchHolders'
  <2>1. TypeOK'
    BY <1>10 DEF TombstoneExpires, streamVars, workerVars, Lifecycle
  <2>2. Receivers' = Receivers /\ Senders' = Senders /\ slots' = slots
    BY <1>10 DEF TombstoneExpires, streamVars, Receivers, Senders
  <2> QED BY <2>1, <2>2, <1>a
<1>11. ASSUME Restart
       PROVE  TypeOK' /\ SlotsMatchHolders'
  <2>1. TypeOK'
    BY <1>11 DEF Restart, Lifecycle, NoLifecycle, NoStreams
  <2>2. Receivers' = {} /\ Senders' = {} /\ slots' = 0
    BY <1>11 DEF Restart, Receivers, Senders
  <2> QED BY <2>1, <2>2, FS_EmptySet, SlotsPositive DEF SlotsMatchHolders
<1>12. ASSUME UNCHANGED vars
       PROVE  TypeOK' /\ SlotsMatchHolders'
  BY <1>12 DEF vars, SlotsMatchHolders, Receivers, Senders
<1> QED
  BY <1>1, <1>2, <1>3, <1>4, <1>5, <1>6, <1>7, <1>8, <1>9, <1>10, <1>11, <1>12
  DEF Next, StreamNext

\* Every variable keeps its type.
THEOREM TypeCorrect == Spec => []TypeOK
<1>1. TypedSlots => TypeOK
  BY DEF TypedSlots
<1> QED BY <1>1, TypedSlotsInit, TypedSlotsStep, PTL DEF Spec

\* The tokens in the semaphore are the transfers in flight, at most MaxSlots.
THEOREM SlotsCorrect == Spec => []SlotsMatchHolders
<1>1. TypedSlots => SlotsMatchHolders
  BY DEF TypedSlots
<1> QED BY <1>1, TypedSlotsInit, TypedSlotsStep, PTL DEF Spec

(***************************************************************************)
(* The registry: the counter, the idle channel and the sleepers.           *)
(***************************************************************************)

\* The streams of an upload can be counted.
LEMMA RegisteredFinite ==
  ASSUME NEW u \in Uploads
  PROVE  IsFiniteSet(Registered(u)) /\ Cardinality(Registered(u)) \in Nat
<1>1. Registered(u) \subseteq Streams
  BY DEF Registered
<1> QED BY <1>1, Finiteness, FS_Subset, FS_CardinalityType

\* Pruning drops entries without a stream and leaves the others as they are.
LEMMA PrunedKeeps ==
  ASSUME NEW u \in Uploads
  PROVE  /\ Pruned[u].active = uploadLifecycles[u].active
         /\ \/ Pruned[u] = uploadLifecycles[u]
            \/ /\ Pruned[u] = NoLifecycle
               /\ uploadLifecycles[u].active = 0
               /\ uploadLifecycles[u].canceled = "expired"
BY DEF Pruned, NoLifecycle

\* A step that neither starts nor ends a stream, opens or closes a channel nor
\* parks a finalizer, and changes an entry at most by dropping an idle one.
LEMMA QuietStep ==
  ASSUME TypeOK, Named, RegistryInv,
         UNCHANGED <<open, pc, up>>,
         \A u \in Uploads :
           /\ uploadLifecycles'[u].active = uploadLifecycles[u].active
           /\ \/ uploadLifecycles'[u].idle = uploadLifecycles[u].idle
              \/ uploadLifecycles'[u].idle = NoChan /\ uploadLifecycles[u].active = 0,
         \A w \in Workers : wpc'[w] = "parked" =>
           wpc[w] = "parked" /\ wch'[w] = wch[w] /\ wup'[w] = wup[w]
  PROVE  RegistryInv'
<1>1. \A u \in Uploads : Registered(u)' = Registered(u)
  BY DEF Registered
<1>2. ActiveCountsStreams'
  BY <1>1 DEF RegistryInv, ActiveCountsStreams
<1>3. NoChan \notin open
  BY Sentinels DEF TypeOK
<1>4. IdleOpenIffActive'
  BY <1>3 DEF RegistryInv, IdleOpenIffActive, TypeOK, Lifecycle
<1>5. \A c \in open : \E u \in Uploads : uploadLifecycles[u].idle = c /\ uploadLifecycles[u].active > 0
  BY DEF RegistryInv, IdleOpenIffActive
<1>6. \A c \in open' : \E u \in Uploads : uploadLifecycles'[u].idle = c
  BY <1>5
<1>7. NoLostWakeup'
  <2> SUFFICES ASSUME NEW w \in Workers, wpc'[w] = "parked", wch'[w] \in open'
               PROVE  uploadLifecycles'[wup'[w]].idle = wch'[w]
    BY DEF NoLostWakeup
  <2>1. wup[w] \in Uploads /\ uploadLifecycles[wup[w]].idle = wch[w]
    BY DEF Named, RegistryInv, NoLostWakeup
  <2>2. uploadLifecycles[wup[w]].active > 0
    BY <2>1 DEF RegistryInv, IdleOpenIffActive
  <2> QED BY <2>1, <2>2
<1>8. \A u, v \in Uploads :
        (u # v /\ uploadLifecycles'[u].idle = uploadLifecycles'[v].idle)
          => uploadLifecycles'[u].idle = NoChan
  BY DEF RegistryInv
<1> QED BY <1>2, <1>4, <1>6, <1>7, <1>8 DEF RegistryInv

\* The registry invariant holds at the start.
LEMMA RegistryInit == Init => RegistryInv
<1> SUFFICES ASSUME Init PROVE RegistryInv
  OBVIOUS
<1>1. \A u \in Uploads : Registered(u) = {}
  BY DEF Init, Registered
<1> QED
  BY <1>1, FS_EmptySet
  DEF Init, NoLifecycle, RegistryInv, ActiveCountsStreams, IdleOpenIffActive, NoLostWakeup

\* beginUploadStream keeps the registry invariant: a first stream brings a
\* channel nobody refers to, a later one keeps the channel there is.
LEMMA RegistryBegin ==
  ASSUME TypeOK, Named, RegistryInv, NEW s \in Streams, NEW u \in Uploads, BeginUploadStream(s, u)
  PROVE  RegistryInv'
<1> USE DEF TypeOK
<1>1. PICK c \in Channels :
        /\ Unused(c)
        /\ uploadLifecycles' = [Pruned EXCEPT ![u] = Begun(Pruned[u], s, c)]
        /\ open' = IF Pruned[u].active = 0 THEN open \cup {c} ELSE open
  BY DEF BeginUploadStream, Fresh
<1>2. pc[s] = "idle" /\ pc' = [pc EXCEPT ![s] = "slot"] /\ up' = [up EXCEPT ![s] = u]
  BY DEF BeginUploadStream
<1>3. wpc' = wpc /\ wup' = wup /\ wch' = wch
  BY DEF BeginUploadStream, workerVars
<1>4. c \notin open
  BY <1>1 DEF Unused, RegistryInv
<1>5. NoChan \notin open /\ c # NoChan
  BY Sentinels
<1>6. /\ uploadLifecycles'[u].active = uploadLifecycles[u].active + 1
      /\ uploadLifecycles'[u].idle = IF uploadLifecycles[u].active = 0
                                     THEN c ELSE uploadLifecycles[u].idle
  BY <1>1, PrunedKeeps, PrunedTyped DEF Begun
<1>7. \A v \in Uploads \ {u} :
        /\ uploadLifecycles'[v].active = uploadLifecycles[v].active
        /\ \/ uploadLifecycles'[v].idle = uploadLifecycles[v].idle
           \/ uploadLifecycles'[v].idle = NoChan /\ uploadLifecycles[v].active = 0
  BY <1>1, PrunedKeeps, PrunedTyped DEF NoLifecycle
<1>8. open' = IF uploadLifecycles[u].active = 0 THEN open \cup {c} ELSE open
  BY <1>1, PrunedKeeps
<1>9. \A v \in Uploads : uploadLifecycles[v].active \in Nat
                         /\ uploadLifecycles[v].idle \in Channels \cup {NoChan}
                         /\ uploadLifecycles[v].idle # c
  BY <1>1 DEF Lifecycle, Unused
<1>10. ActiveCountsStreams'
  <2>1. Registered(u)' = Registered(u) \cup {s} /\ s \notin Registered(u)
    BY <1>2 DEF Registered
  <2>2. Cardinality(Registered(u)') = Cardinality(Registered(u)) + 1
    BY <2>1, RegisteredFinite, FS_AddElement
  <2>3. \A v \in Uploads \ {u} : Registered(v)' = Registered(v)
    BY <1>2 DEF Registered
  <2> QED BY <2>2, <2>3, <1>6, <1>7 DEF RegistryInv, ActiveCountsStreams
<1>11. IdleOpenIffActive'
  <2>1. \A v \in Uploads \ {u} :
          uploadLifecycles'[v].idle \in open' <=> uploadLifecycles'[v].active > 0
    BY <1>5, <1>7, <1>8, <1>9 DEF RegistryInv, IdleOpenIffActive
  <2>2. uploadLifecycles'[u].idle \in open' /\ uploadLifecycles'[u].active > 0
    BY <1>6, <1>8, <1>9 DEF RegistryInv, IdleOpenIffActive
  <2> QED BY <2>1, <2>2 DEF IdleOpenIffActive
<1>12. \A d \in open' : \E v \in Uploads : uploadLifecycles'[v].idle = d
  <2> SUFFICES ASSUME NEW d \in open' PROVE \E v \in Uploads : uploadLifecycles'[v].idle = d
    OBVIOUS
  <2>1. CASE d \in open
    <3>1. PICK v \in Uploads : uploadLifecycles[v].idle = d
      BY <2>1 DEF RegistryInv
    <3>2. uploadLifecycles[v].active > 0
      BY <2>1, <3>1 DEF RegistryInv, IdleOpenIffActive
    <3>3. uploadLifecycles'[v].idle = d
      BY <3>1, <3>2, <1>6, <1>7, <1>9
    <3> QED BY <3>3
  <2>2. CASE d \notin open
    BY <2>2, <1>6, <1>8
  <2> QED BY <2>1, <2>2
<1>13. NoLostWakeup'
  <2> SUFFICES ASSUME NEW w \in Workers, wpc'[w] = "parked", wch'[w] \in open'
               PROVE  uploadLifecycles'[wup'[w]].idle = wch'[w]
    BY DEF NoLostWakeup
  <2>1. wch[w] \in open
    BY <1>1, <1>3, <1>8 DEF Unused
  <2>2. wup[w] \in Uploads /\ uploadLifecycles[wup[w]].idle = wch[w]
    BY <2>1, <1>3 DEF Named, RegistryInv, NoLostWakeup
  <2>3. uploadLifecycles[wup[w]].active > 0
    BY <2>1, <2>2 DEF RegistryInv, IdleOpenIffActive
  <2> QED BY <2>2, <2>3, <1>3, <1>6, <1>7, <1>9
<1>14. \A v, x \in Uploads :
         (v # x /\ uploadLifecycles'[v].idle = uploadLifecycles'[x].idle)
           => uploadLifecycles'[v].idle = NoChan
  BY <1>5, <1>6, <1>7, <1>9 DEF RegistryInv
<1> QED BY <1>10, <1>11, <1>12, <1>13, <1>14 DEF RegistryInv

\* The end function keeps the registry invariant: the last end closes the
\* channel every sleeper of the upload waits on.
LEMMA RegistryEnd ==
  ASSUME TypeOK, Named, RegistryInv, NEW s \in Streams, EndUploadStream(s)
  PROVE  RegistryInv'
<1> USE DEF TypeOK
<1> DEFINE u == up[s]
           st == uploadLifecycles[u]
<1>1. pc[s] = "end" /\ u \in Uploads /\ s \in Registered(u)
  BY DEF EndUploadStream, Named, Registered
\* The guard against a zero counter never bites.
<1>2. st.active = Cardinality(Registered(u)) /\ st.active \in Nat /\ st.active # 0
  <2>1. Cardinality(Registered(u)) # 0
    BY <1>1, RegisteredFinite, FS_EmptySet
  <2> QED BY <1>1, <2>1, RegisteredFinite DEF RegistryInv, ActiveCountsStreams
<1>3. /\ uploadLifecycles' = [uploadLifecycles EXCEPT ![u] = AfterEnd(st, s)]
      /\ open' = IF st.active = 1 THEN open \ {st.idle} ELSE open
  BY <1>2 DEF EndUploadStream, Closes
<1>4. pc' = [pc EXCEPT ![s] = "idle"] /\ wpc' = wpc /\ wup' = wup /\ wch' = wch
  BY DEF EndUploadStream
<1>5. NoChan \notin open /\ st.idle \in open
  BY <1>1, <1>2, Sentinels DEF RegistryInv, IdleOpenIffActive
<1>6. /\ uploadLifecycles'[u].active = st.active - 1
      /\ \/ uploadLifecycles'[u].idle = st.idle
         \/ st.active = 1 /\ uploadLifecycles'[u].idle = NoChan
  BY <1>1, <1>2, <1>3 DEF AfterEnd, Ended, NoLifecycle
<1>7. \A v \in Uploads \ {u} : uploadLifecycles'[v] = uploadLifecycles[v]
  BY <1>3
<1>8. \A v \in Uploads \ {u} : uploadLifecycles[v].idle # st.idle
  BY <1>1, <1>5 DEF RegistryInv
<1>9. \A v \in Uploads : uploadLifecycles[v].active \in Nat
  BY DEF Lifecycle
<1> HIDE DEF u, st
<1>10. ActiveCountsStreams'
  <2>1. /\ pc'[s] = "idle"
        /\ \A r \in Streams \ {s} : pc'[r] = pc[r] /\ up'[r] = up[r]
    BY <1>4 DEF EndUploadStream
  <2>2. ASSUME NEW v \in Uploads, v = u
        PROVE  uploadLifecycles'[v].active = Cardinality(Registered(v)')
    <3>1. Registered(v)' = Registered(v) \ {s} /\ s \in Registered(v)
      BY <1>1, <2>1, <2>2 DEF Registered
    <3>2. Cardinality(Registered(v)') = Cardinality(Registered(v)) - 1
      BY <3>1, RegisteredFinite, FS_RemoveElement
    <3> QED BY <1>2, <1>6, <2>2, <3>2
  <2>3. ASSUME NEW v \in Uploads, v # u
        PROVE  uploadLifecycles'[v].active = Cardinality(Registered(v)')
    <3>1. Registered(v)' = Registered(v)
      BY <1>1, <2>1, <2>3 DEF Registered, u
    <3> QED BY <1>7, <2>3, <3>1 DEF RegistryInv, ActiveCountsStreams
  <2> QED BY <2>2, <2>3 DEF ActiveCountsStreams
<1>11. IdleOpenIffActive'
  <2>1. \A v \in Uploads \ {u} :
          uploadLifecycles'[v].idle \in open' <=> uploadLifecycles'[v].active > 0
    BY <1>3, <1>7, <1>8 DEF RegistryInv, IdleOpenIffActive
  <2>2. uploadLifecycles'[u].idle \in open' <=> uploadLifecycles'[u].active > 0
    BY <1>2, <1>3, <1>5, <1>6
  <2> QED BY <2>1, <2>2 DEF IdleOpenIffActive
<1>12. \A c \in open' : \E v \in Uploads : uploadLifecycles'[v].idle = c
  <2> SUFFICES ASSUME NEW c \in open' PROVE \E v \in Uploads : uploadLifecycles'[v].idle = c
    OBVIOUS
  <2>1. PICK v \in Uploads : uploadLifecycles[v].idle = c
    BY <1>3 DEF RegistryInv
  <2> QED BY <1>1, <1>3, <1>6, <1>7, <2>1 DEF u, st
<1>13. NoLostWakeup'
  <2> SUFFICES ASSUME NEW w \in Workers, wpc'[w] = "parked", wch'[w] \in open'
               PROVE  uploadLifecycles'[wup'[w]].idle = wch'[w]
    BY DEF NoLostWakeup
  <2>1. wch[w] \in open /\ wup[w] \in Uploads /\ uploadLifecycles[wup[w]].idle = wch[w]
    BY <1>3, <1>4 DEF Named, RegistryInv, NoLostWakeup
  <2> QED BY <2>1, <1>3, <1>4, <1>6, <1>7 DEF u, st
<1>14. \A v, x \in Uploads :
         (v # x /\ uploadLifecycles'[v].idle = uploadLifecycles'[x].idle)
           => uploadLifecycles'[v].idle = NoChan
  BY <1>6, <1>7, <1>8 DEF RegistryInv
<1> QED BY <1>10, <1>11, <1>12, <1>13, <1>14 DEF RegistryInv

\* cancelUploadStreams keeps the registry invariant.
LEMMA RegistryMark ==
  ASSUME TypeOK, Named, RegistryInv, NEW w \in Workers, NEW u \in Uploads, MarkCanceled(w, u)
  PROVE  RegistryInv'
<1> USE DEF TypeOK
<1>1. PICK c \in Channels :
        Unused(c) /\ uploadLifecycles' = [Pruned EXCEPT ![u] = Marked(Pruned[u], c)]
  BY DEF MarkCanceled, Fresh
<1>2. UNCHANGED <<open, pc, up, wch>> /\ wpc[w] = "idle" /\ wpc' = [wpc EXCEPT ![w] = "waiting"]
      /\ wup' = [wup EXCEPT ![w] = u]
  BY DEF MarkCanceled, streamVars
<1>3. c \notin open /\ c # NoChan /\ NoChan \notin open
  BY <1>1, Sentinels DEF Unused, RegistryInv
<1>4. /\ uploadLifecycles'[u].active = uploadLifecycles[u].active
      /\ \/ uploadLifecycles'[u].idle = uploadLifecycles[u].idle
         \/ /\ uploadLifecycles'[u].idle = c
            /\ uploadLifecycles[u].idle \notin open
  <2>1. uploadLifecycles[u].active = 0 => uploadLifecycles[u].idle \notin open
    BY DEF RegistryInv, IdleOpenIffActive
  <2> QED BY <1>1, <1>3, <2>1, PrunedKeeps, PrunedTyped DEF Marked, NoLifecycle
<1>5. \A v \in Uploads \ {u} :
        /\ uploadLifecycles'[v].active = uploadLifecycles[v].active
        /\ \/ uploadLifecycles'[v].idle = uploadLifecycles[v].idle
           \/ uploadLifecycles'[v].idle = NoChan /\ uploadLifecycles[v].idle \notin open
  <2>1. \A v \in Uploads : uploadLifecycles[v].active = 0 => uploadLifecycles[v].idle \notin open
    BY DEF RegistryInv, IdleOpenIffActive
  <2> QED BY <1>1, <2>1, PrunedKeeps, PrunedTyped DEF NoLifecycle
<1>6. \A v \in Uploads : uploadLifecycles[v].idle # c
  BY <1>1 DEF Unused
<1>7. ActiveCountsStreams'
  <2>1. \A v \in Uploads : Registered(v)' = Registered(v)
    BY <1>2 DEF Registered
  <2> QED BY <2>1, <1>4, <1>5 DEF RegistryInv, ActiveCountsStreams
<1>8. IdleOpenIffActive'
  BY <1>2, <1>3, <1>4, <1>5 DEF RegistryInv, IdleOpenIffActive
<1>9. \A d \in open' : \E v \in Uploads : uploadLifecycles'[v].idle = d
  BY <1>2, <1>4, <1>5 DEF RegistryInv
<1>10. NoLostWakeup'
  <2> SUFFICES ASSUME NEW x \in Workers, wpc'[x] = "parked", wch'[x] \in open'
               PROVE  uploadLifecycles'[wup'[x]].idle = wch'[x]
    BY DEF NoLostWakeup
  <2>1. x # w /\ wpc[x] = "parked" /\ wch[x] \in open /\ wup'[x] = wup[x]
    BY <1>2
  <2>2. wup[x] \in Uploads /\ uploadLifecycles[wup[x]].idle = wch[x]
    BY <2>1 DEF Named, RegistryInv, NoLostWakeup
  <2> QED BY <2>1, <2>2, <1>2, <1>4, <1>5
<1>11. \A v, x \in Uploads :
         (v # x /\ uploadLifecycles'[v].idle = uploadLifecycles'[x].idle)
           => uploadLifecycles'[v].idle = NoChan
  BY <1>3, <1>4, <1>5, <1>6 DEF RegistryInv
<1> QED BY <1>7, <1>8, <1>9, <1>10, <1>11 DEF RegistryInv

\* Every step keeps the registry invariant.
LEMMA RegistryStep == TypeOK /\ Named /\ RegistryInv /\ [Next]_vars => RegistryInv'
<1> SUFFICES ASSUME TypeOK, Named, RegistryInv, [Next]_vars PROVE RegistryInv'
  OBVIOUS
<1>a. ASSUME UNCHANGED <<open, pc, up, uploadLifecycles, wpc, wup, wch>> PROVE RegistryInv'
  BY <1>a, QuietStep
\* Moves inside a request leave the set of registered streams as it is.
<1>b. ASSUME NEW s \in Streams, pc[s] # "idle", NEW to \in {"http", "release", "end"},
             pc' = [pc EXCEPT ![s] = to], UNCHANGED <<open, up, uploadLifecycles, wpc, wup, wch>>
      PROVE  RegistryInv'
  <2>1. \A u \in Uploads : Registered(u)' = Registered(u)
    BY <1>b DEF Registered, TypeOK
  <2> QED
    BY <1>b, <2>1 DEF RegistryInv, ActiveCountsStreams, IdleOpenIffActive, NoLostWakeup
<1>1. ASSUME NEW s \in Streams, StreamNext(s) PROVE RegistryInv'
  <2>1. CASE \E u \in Uploads : BeginUploadStream(s, u)
    BY <2>1, RegistryBegin
  <2>2. CASE \E u \in Uploads : RefuseUploadStream(s, u)
    <3>1. UNCHANGED <<open, pc, up, wpc, wup, wch>> /\ uploadLifecycles' = Pruned
      BY <2>2 DEF RefuseUploadStream, streamVars, workerVars
    <3> QED BY <3>1, QuietStep, PrunedKeeps DEF NoLifecycle
  <2>3. CASE AcquireSlot(s)
    BY <2>3, <1>b DEF AcquireSlot, lifecycleVars, workerVars
  <2>4. CASE AbandonSlot(s)
    BY <2>4, <1>b DEF AbandonSlot, lifecycleVars, workerVars
  <2>5. CASE LeaveTransfer(s)
    BY <2>5, <1>b DEF LeaveTransfer, lifecycleVars, workerVars
  <2>6. CASE ReleaseSlot(s)
    BY <2>6, <1>b DEF ReleaseSlot, lifecycleVars, workerVars
  <2>7. CASE EndUploadStream(s)
    BY <2>7, RegistryEnd
  <2> QED BY <1>1, <2>1, <2>2, <2>3, <2>4, <2>5, <2>6, <2>7 DEF StreamNext
<1>2. ASSUME NEW w \in Workers, WorkerNext(w) PROVE RegistryInv'
  <2>1. CASE \E u \in Uploads : StartCommit(w, u)
    BY <2>1, QuietStep DEF StartCommit, lifecycleVars, streamVars, TypeOK
  <2>2. CASE \E u \in Uploads : MarkCanceled(w, u)
    BY <2>2, RegistryMark
  <2>3. CASE \E s \in Streams : CallCancel(w, s)
    BY <2>3, <1>a DEF CallCancel, lifecycleVars
  <2>4. CASE WaitPasses(w)
    BY <2>4, QuietStep DEF WaitPasses, streamVars, TypeOK, NoLifecycle
  <2>5. CASE WaitParks(w)
    <3>1. /\ UNCHANGED <<open, pc, up, uploadLifecycles, wup>>
          /\ wpc[w] = "waiting" /\ wpc' = [wpc EXCEPT ![w] = "parked"]
          /\ wch' = [wch EXCEPT ![w] = uploadLifecycles[wup[w]].idle]
      BY <2>5 DEF WaitParks, lifecycleVars, streamVars
    <3>2. \A u \in Uploads : Registered(u)' = Registered(u)
      BY <3>1 DEF Registered
    <3>3. NoLostWakeup'
      BY <3>1 DEF NoLostWakeup, RegistryInv, TypeOK
    <3> QED BY <3>1, <3>2, <3>3 DEF RegistryInv, ActiveCountsStreams, IdleOpenIffActive
  <2>6. CASE WaitWakes(w)
    BY <2>6, QuietStep DEF WaitWakes, lifecycleVars, streamVars, TypeOK
  <2>7. CASE FinalizerReturns(w)
    BY <2>7, QuietStep DEF FinalizerReturns, lifecycleVars, streamVars, TypeOK
  <2> QED BY <1>2, <2>1, <2>2, <2>3, <2>4, <2>5, <2>6, <2>7 DEF WorkerNext
<1>3. ASSUME NEW d \in Downloads, DownloadNext(d) PROVE RegistryInv'
  BY <1>3, <1>a DEF DownloadNext, StartDownload, DownloadAcquires, DownloadTimesOut,
                    DownloadReleases, lifecycleVars, streamVars, workerVars
<1>4. ASSUME NEW u \in Uploads, TombstoneExpires(u) PROVE RegistryInv'
  <2>1. \A v \in Uploads : /\ uploadLifecycles'[v].active = uploadLifecycles[v].active
                           /\ uploadLifecycles'[v].idle = uploadLifecycles[v].idle
    BY <1>4 DEF TombstoneExpires, TypeOK, Lifecycle
  <2> QED BY <1>4, <2>1, QuietStep DEF TombstoneExpires, streamVars, workerVars
<1>5. ASSUME Restart PROVE RegistryInv'
  <2>1. \A u \in Uploads : Registered(u)' = {}
    BY <1>5 DEF Restart, Registered
  <2>2. open' = {} /\ \A u \in Uploads : /\ uploadLifecycles'[u].active = 0
                                         /\ uploadLifecycles'[u].idle = NoChan
    BY <1>5 DEF Restart, NoLifecycle
  <2>3. ActiveCountsStreams'
    BY <2>1, <2>2, FS_EmptySet DEF ActiveCountsStreams
  <2>4. IdleOpenIffActive'
    BY <2>2 DEF IdleOpenIffActive
  <2> QED
    BY <2>2, <2>3, <2>4 DEF RegistryInv, NoLostWakeup
<1>6. ASSUME UNCHANGED vars PROVE RegistryInv'
  BY <1>6, <1>a DEF vars
<1> QED BY <1>1, <1>2, <1>3, <1>4, <1>5, <1>6 DEF Next

\* The registry invariant holds in every reachable state.
THEOREM RegistryCorrect == Spec => []RegistryInv
<1>1. TypedSlots => TypeOK /\ Named
  BY DEF TypedSlots
<1> QED
  BY <1>1, TypedSlotsInit, TypedSlotsStep, RegistryInit, RegistryStep, PTL DEF Spec

\* The counter a finalizer waits on never loses a stream and never counts one twice.
THEOREM CounterCorrect == Spec => []ActiveCountsStreams
<1>1. RegistryInv => ActiveCountsStreams
  BY DEF RegistryInv
<1> QED BY <1>1, RegistryCorrect, PTL

\* The last end of a stream closes an open channel: close never panics.
THEOREM IdleChannelCorrect == Spec => []IdleOpenIffActive
<1>1. RegistryInv => IdleOpenIffActive
  BY DEF RegistryInv
<1> QED BY <1>1, RegistryCorrect, PTL

\* Whoever sleeps on an idle channel will be woken by the last stream of its upload.
THEOREM WakeupCorrect == Spec => []NoLostWakeup
<1>1. RegistryInv => NoLostWakeup
  BY DEF RegistryInv
<1> QED BY <1>1, RegistryCorrect, PTL

(***************************************************************************)
(* Cancellation.  Busy and Reach are the two halves of CancelInv.          *)
(***************************************************************************)

Busy ==
  \A w \in Cancels :
    /\ wpc[w] # "idle" => uploadLifecycles[wup[w]].canceled = "recently"
    /\ wpc[w] = "passed" => uploadLifecycles[wup[w]].active = 0

Reach ==
  DistinctTransfers =>
    \A u \in Uploads : \A s \in Registered(u) :
      /\ uploadLifecycles[u].streams[TransferOf[s]] = s
      /\ Canceled(u) => s \in ctxDone \/ \E w \in Cancels : s \in pending[w]

\* The two halves of the cancellation invariant, proved one after the other.
LEMMA CancelInvSplit == CancelInv <=> Busy /\ Reach
BY DEF CancelInv, Busy, Reach

\* Whoever serves an upload_cancel is a finalizer.
LEMMA CancelsAreWorkers == \A w \in Cancels : w \in Workers
BY DEF Workers

\* An upload without an active stream has no registered one.
LEMMA InactiveEmpty ==
  ASSUME RegistryInv, NEW u \in Uploads, uploadLifecycles[u].active = 0
  PROVE  Registered(u) = {}
BY RegisteredFinite, FS_EmptySet DEF RegistryInv, ActiveCountsStreams

\* A fresh tombstone outlives every pruning, and the others keep their streams.
LEMMA BusyQuiet ==
  ASSUME Named, Busy, UNCHANGED <<wpc, wup>>,
         \A u \in Uploads : uploadLifecycles[u].canceled = "recently" =>
           /\ uploadLifecycles'[u].canceled = "recently"
           /\ uploadLifecycles[u].active = 0 => uploadLifecycles'[u].active = 0
  PROVE  Busy'
BY CancelsAreWorkers DEF Busy, Named

\* Every step keeps the tombstone of a cancellation in progress fresh.
LEMMA BusyStep == TypeOK /\ Named /\ RegistryInv /\ Busy /\ [Next]_vars => Busy'
<1> SUFFICES ASSUME TypeOK, Named, RegistryInv, Busy, [Next]_vars PROVE Busy'
  OBVIOUS
<1>a. ASSUME UNCHANGED <<uploadLifecycles, wpc, wup>> PROVE Busy'
  BY <1>a DEF Busy
<1>1. ASSUME NEW s \in Streams, StreamNext(s) PROVE Busy'
  <2>1. ASSUME NEW u \in Uploads, BeginUploadStream(s, u) PROVE Busy'
    <3>1. PICK c \in Channels : uploadLifecycles' = [Pruned EXCEPT ![u] = Begun(Pruned[u], s, c)]
      BY <2>1 DEF BeginUploadStream
    <3>2. Pruned[u].canceled = "no" /\ UNCHANGED <<wpc, wup>>
      BY <2>1 DEF BeginUploadStream, workerVars
    <3>3. \A v \in Uploads : uploadLifecycles[v].canceled = "recently" =>
            uploadLifecycles'[v] = uploadLifecycles[v]
      BY <3>1, <3>2, PrunedKeeps, PrunedTyped
    <3> QED BY <3>2, <3>3, BusyQuiet
  <2>2. ASSUME NEW u \in Uploads, RefuseUploadStream(s, u) PROVE Busy'
    <3>1. uploadLifecycles' = Pruned /\ UNCHANGED <<wpc, wup>>
      BY <2>2 DEF RefuseUploadStream, workerVars
    <3> QED BY <3>1, PrunedKeeps, BusyQuiet
  <2>3. CASE AcquireSlot(s) \/ AbandonSlot(s) \/ LeaveTransfer(s) \/ ReleaseSlot(s)
    BY <2>3, <1>a
    DEF AcquireSlot, AbandonSlot, LeaveTransfer, ReleaseSlot, lifecycleVars, workerVars
  <2>4. CASE EndUploadStream(s)
    <3>1. UNCHANGED <<wpc, wup>>
      BY <2>4 DEF EndUploadStream
    <3>2. up[s] \in Uploads /\ s \in Registered(up[s])
      BY <2>4 DEF EndUploadStream, Named, Registered
    <3>3. uploadLifecycles[up[s]].active # 0
      BY <3>2, InactiveEmpty
    <3>4. uploadLifecycles' =
            [uploadLifecycles EXCEPT ![up[s]] = AfterEnd(uploadLifecycles[up[s]], s)]
      BY <2>4, <3>3 DEF EndUploadStream
    <3>5. \A v \in Uploads : uploadLifecycles[v].canceled = "recently" =>
            /\ uploadLifecycles'[v].canceled = "recently"
            /\ uploadLifecycles[v].active = 0 => uploadLifecycles'[v].active = 0
      BY <3>2, <3>3, <3>4 DEF AfterEnd, Ended, TypeOK
    <3> QED BY <3>1, <3>5, BusyQuiet
  <2> QED BY <1>1, <2>1, <2>2, <2>3, <2>4 DEF StreamNext
<1>2. ASSUME NEW w \in Workers, WorkerNext(w) PROVE Busy'
  <2>1. ASSUME NEW u \in Uploads, StartCommit(w, u) PROVE Busy'
    <3>1. w \notin Cancels
      BY <2>1, DistinctKinds DEF StartCommit
    <3> QED BY <2>1, <3>1 DEF StartCommit, lifecycleVars, Busy, TypeOK
  <2>2. ASSUME NEW u \in Uploads, MarkCanceled(w, u) PROVE Busy'
    <3>1. PICK c \in Channels : uploadLifecycles' = [Pruned EXCEPT ![u] = Marked(Pruned[u], c)]
      BY <2>2 DEF MarkCanceled
    <3>2. /\ uploadLifecycles'[u].canceled = "recently"
          /\ uploadLifecycles'[u].active = uploadLifecycles[u].active
      BY <3>1, PrunedTyped, PrunedKeeps DEF Marked
    <3>3. \A v \in Uploads \ {u} : uploadLifecycles[v].canceled = "recently" =>
            uploadLifecycles'[v] = uploadLifecycles[v]
      BY <3>1, PrunedKeeps, PrunedTyped
    <3>4. \A x \in Workers \ {w} : wpc'[x] = wpc[x] /\ wup'[x] = wup[x]
      BY <2>2 DEF MarkCanceled, TypeOK
    <3>5. wpc'[w] = "waiting" /\ wup'[w] = u
      BY <2>2 DEF MarkCanceled, TypeOK
    <3> QED BY <3>2, <3>3, <3>4, <3>5, CancelsAreWorkers DEF Busy, Named
  <2>3. CASE \E s \in Streams : CallCancel(w, s)
    BY <2>3, <1>a DEF CallCancel, lifecycleVars
  <2>4. CASE WaitPasses(w)
    <3>1. wup[w] \in Uploads /\ uploadLifecycles[wup[w]].active = 0 /\ wpc[w] = "waiting"
      BY <2>4 DEF WaitPasses, Named
    <3>2. \A v \in Uploads : uploadLifecycles[v].canceled = "recently" =>
            uploadLifecycles'[v] = uploadLifecycles[v]
      BY <2>4, <3>1 DEF WaitPasses, TypeOK
    <3>3. \A x \in Workers \ {w} : wpc'[x] = wpc[x] /\ wup'[x] = wup[x]
      BY <2>4 DEF WaitPasses, TypeOK
    <3>4. wpc'[w] = "passed" /\ wup'[w] = wup[w]
      BY <2>4 DEF WaitPasses, TypeOK
    <3> QED BY <3>1, <3>2, <3>3, <3>4, CancelsAreWorkers DEF Busy, Named
  <2>5. CASE WaitParks(w) \/ WaitWakes(w) \/ FinalizerReturns(w)
    BY <2>5, CancelsAreWorkers
    DEF WaitParks, WaitWakes, FinalizerReturns, lifecycleVars, Busy, TypeOK
  <2> QED BY <1>2, <2>1, <2>2, <2>3, <2>4, <2>5 DEF WorkerNext
<1>3. ASSUME NEW d \in Downloads, DownloadNext(d) PROVE Busy'
  BY <1>3, <1>a DEF DownloadNext, StartDownload, DownloadAcquires, DownloadTimesOut,
                    DownloadReleases, lifecycleVars, workerVars
<1>4. ASSUME NEW u \in Uploads, TombstoneExpires(u) PROVE Busy'
  <2>1. \A v \in Uploads \ {u} : uploadLifecycles'[v] = uploadLifecycles[v]
    BY <1>4 DEF TombstoneExpires, TypeOK
  <2>2. \A w \in Cancels : wpc[w] # "idle" => wup[w] # u
    BY <1>4, CancelsAreWorkers DEF TombstoneExpires, BusyOn
  <2>3. UNCHANGED <<wpc, wup>>
    BY <1>4 DEF TombstoneExpires, workerVars
  <2> QED BY <2>1, <2>2, <2>3, CancelsAreWorkers DEF Busy, Named
<1>5. ASSUME Restart PROVE Busy'
  BY <1>5, CancelsAreWorkers DEF Restart, Busy
<1>6. ASSUME UNCHANGED vars PROVE Busy'
  BY <1>6, <1>a DEF vars
<1> QED BY <1>1, <1>2, <1>3, <1>4, <1>5, <1>6 DEF Next

\* A step that registers no stream, marks no upload and ends no collection.
LEMMA ReachQuiet ==
  ASSUME Reach,
         \A u \in Uploads : Registered(u)' \subseteq Registered(u),
         \A u \in Uploads : Registered(u)' # {} =>
           /\ uploadLifecycles'[u].streams = uploadLifecycles[u].streams
           /\ Canceled(u)' => Canceled(u),
         \A s \in Streams :
           (s \in ctxDone \/ \E w \in Cancels : s \in pending[w]) =>
             (s \in ctxDone' \/ \E w \in Cancels : s \in pending'[w])
  PROVE  Reach'
<1> SUFFICES ASSUME DistinctTransfers, NEW u \in Uploads, NEW s \in Registered(u)'
             PROVE  /\ uploadLifecycles'[u].streams[TransferOf[s]] = s
                    /\ Canceled(u)' => s \in ctxDone' \/ \E w \in Cancels : s \in pending'[w]
  BY DEF Reach, DistinctTransfers
<1>1. s \in Registered(u) /\ s \in Streams
  BY DEF Registered
<1> QED BY <1>1 DEF Reach

\* Every step leaves each stream of a cancelled upload interrupted or about to be.
LEMMA ReachStep == TypeOK /\ Named /\ RegistryInv /\ Reach /\ [Next]_vars => Reach'
<1> SUFFICES ASSUME TypeOK, Named, RegistryInv, Reach, [Next]_vars PROVE Reach'
  OBVIOUS
<1>a. ASSUME UNCHANGED <<uploadLifecycles, ctxDone, pending>>,
             \A u \in Uploads : Registered(u)' \subseteq Registered(u)
      PROVE  Reach'
  BY <1>a, ReachQuiet DEF Canceled
<1>b. ASSUME UNCHANGED <<pc, up>> PROVE \A u \in Uploads : Registered(u)' = Registered(u)
  BY <1>b DEF Registered
\* A pruned entry has no stream, whose registration could be lost.
<1>c. \A u \in Uploads : Registered(u) # {} => Pruned[u] = uploadLifecycles[u]
  BY PrunedKeeps, InactiveEmpty
<1>1. ASSUME NEW s \in Streams, StreamNext(s) PROVE Reach'
  <2>1. ASSUME NEW u \in Uploads, BeginUploadStream(s, u) PROVE Reach'
    <3>1. PICK c \in Channels : uploadLifecycles' = [Pruned EXCEPT ![u] = Begun(Pruned[u], s, c)]
      BY <2>1 DEF BeginUploadStream
    <3>2. /\ Pruned[u].canceled = "no" /\ UNCHANGED <<ctxDone, pending>>
          /\ pc[s] = "idle" /\ pc' = [pc EXCEPT ![s] = "slot"] /\ up' = [up EXCEPT ![s] = u]
      BY <2>1 DEF BeginUploadStream, workerVars
    <3>3. \A v \in Uploads \ {u} :
            Registered(v)' = Registered(v) /\ uploadLifecycles'[v] = Pruned[v]
      BY <3>1, <3>2, PrunedTyped DEF Registered, TypeOK
    <3>4. Registered(u)' = Registered(u) \cup {s} /\ s \notin Registered(u)
      BY <3>2 DEF Registered, TypeOK
    <3>5. /\ uploadLifecycles'[u].canceled = "no"
          /\ uploadLifecycles'[u].streams = [Pruned[u].streams EXCEPT ![TransferOf[s]] = s]
      BY <3>1, <3>2, PrunedTyped DEF Begun
    <3> SUFFICES ASSUME DistinctTransfers, NEW v \in Uploads, NEW r \in Registered(v)'
                 PROVE  /\ uploadLifecycles'[v].streams[TransferOf[r]] = r
                        /\ Canceled(v)' => r \in ctxDone' \/ \E w \in Cancels : r \in pending'[w]
      BY DEF Reach, DistinctTransfers
    <3>6. CASE v # u
      BY <3>2, <3>3, <3>6, <1>c DEF Reach, Canceled
    <3>7. CASE v = u
      <4>1. ~Canceled(v)'
        BY <3>5, <3>7 DEF Canceled
      <4>2. Pruned[u].streams \in [Transfers -> Streams \cup {NoStream}]
        BY PrunedTyped DEF Lifecycle
      <4>3. r \in Streams /\ (r = s \/ r \in Registered(u))
        BY <3>4, <3>7 DEF Registered
      <4>4. uploadLifecycles'[u].streams[TransferOf[r]] = r
        BY <3>5, <4>2, <4>3, <1>c, TransferTyped DEF Reach, DistinctTransfers
      <4> QED BY <4>1, <4>4, <3>7
    <3> QED BY <3>6, <3>7
  <2>2. ASSUME NEW u \in Uploads, RefuseUploadStream(s, u) PROVE Reach'
    <3>1. uploadLifecycles' = Pruned /\ UNCHANGED <<pc, up, ctxDone, pending>>
      BY <2>2 DEF RefuseUploadStream, streamVars, workerVars
    <3> QED BY <3>1, <1>b, <1>c, ReachQuiet DEF Canceled
  <2>3. CASE AcquireSlot(s) \/ AbandonSlot(s) \/ LeaveTransfer(s) \/ ReleaseSlot(s)
    <3>1. pc[s] # "idle" /\ UNCHANGED <<uploadLifecycles, up, ctxDone, pending>>
          /\ \A r \in Streams \ {s} : pc'[r] = pc[r]
      BY <2>3 DEF AcquireSlot, AbandonSlot, LeaveTransfer, ReleaseSlot, lifecycleVars, workerVars,
                  TypeOK
    <3>2. \A u \in Uploads : Registered(u)' \subseteq Registered(u)
      BY <3>1 DEF Registered
    <3> QED BY <3>1, <3>2, <1>a
  <2>4. CASE EndUploadStream(s)
    <3>1. up[s] \in Uploads /\ s \in Registered(up[s])
      BY <2>4 DEF EndUploadStream, Named, Registered
    <3>2. uploadLifecycles[up[s]].active # 0
      BY <3>1, InactiveEmpty
    <3>3. uploadLifecycles' =
            [uploadLifecycles EXCEPT ![up[s]] = AfterEnd(uploadLifecycles[up[s]], s)]
      BY <2>4, <3>2 DEF EndUploadStream
    <3>4. /\ pc'[s] = "idle" /\ \A r \in Streams \ {s} : pc'[r] = pc[r] /\ up'[r] = up[r]
          /\ ctxDone' = ctxDone \ {s}
          /\ \A w \in Workers : pending'[w] = pending[w] \ {s}
      BY <2>4 DEF EndUploadStream, TypeOK
    <3>5. \A v \in Uploads : Registered(v)' = Registered(v) \ {s}
      BY <3>4 DEF Registered
    <3> SUFFICES ASSUME DistinctTransfers, NEW v \in Uploads, NEW r \in Registered(v)'
                 PROVE  /\ uploadLifecycles'[v].streams[TransferOf[r]] = r
                        /\ Canceled(v)' => r \in ctxDone' \/ \E w \in Cancels : r \in pending'[w]
      BY DEF Reach, DistinctTransfers
    <3>6. r \in Registered(v) /\ r # s /\ r \in Streams
      BY <3>5 DEF Registered
    <3>7. uploadLifecycles[v].streams[TransferOf[r]] = r
          /\ (Canceled(v) => r \in ctxDone \/ \E w \in Cancels : r \in pending[w])
      BY <3>6 DEF Reach
    <3>8. Canceled(v) => r \in ctxDone' \/ \E w \in Cancels : r \in pending'[w]
      BY <3>4, <3>6, <3>7, CancelsAreWorkers
    <3>9. CASE v # up[s]
      BY <3>3, <3>7, <3>8, <3>9 DEF Canceled, TypeOK
    <3>10. CASE v = up[s]
      <4>1. uploadLifecycles[v].active # 1
        <5> SUFFICES ASSUME uploadLifecycles[v].active = 1 PROVE FALSE
          OBVIOUS
        <5>1. Cardinality(Registered(v)) = 1
          BY DEF RegistryInv, ActiveCountsStreams
        <5>s. s \in Registered(v) /\ IsFiniteSet(Registered(v))
          BY <3>1, <3>10, RegisteredFinite
        <5>r. /\ IsFiniteSet(Registered(v) \ {s})
              /\ Cardinality(Registered(v) \ {s}) = Cardinality(Registered(v)) - 1
          BY <5>s, FS_RemoveElement
        <5>2. Cardinality(Registered(v) \ {s}) = 0
          BY <5>1, <5>r
        <5>3. IsFiniteSet(Registered(v) \ {s})
          BY <5>r
        <5> QED BY <3>6, <5>2, <5>3, FS_EmptySet
      <4>2. uploadLifecycles'[v] = Ended(uploadLifecycles[v], s)
        BY <3>3, <3>10, <4>1 DEF AfterEnd, TypeOK
      <4>3. uploadLifecycles[v].streams \in [Transfers -> Streams \cup {NoStream}]
        BY DEF TypeOK, Lifecycle
      <4>4. TransferOf[r] # TransferOf[s] /\ TransferOf[r] \in Transfers
        BY <3>6, TransferTyped DEF DistinctTransfers
      <4> QED BY <3>7, <3>8, <4>2, <4>3, <4>4 DEF Ended, Canceled
    <3> QED BY <3>9, <3>10
  <2> QED BY <1>1, <2>1, <2>2, <2>3, <2>4 DEF StreamNext
<1>2. ASSUME NEW w \in Workers, WorkerNext(w) PROVE Reach'
  <2>1. CASE \E u \in Uploads : StartCommit(w, u)
    BY <2>1, <1>a, <1>b DEF StartCommit, lifecycleVars, streamVars
  <2>2. ASSUME NEW u \in Uploads, MarkCanceled(w, u) PROVE Reach'
    <3>1. PICK c \in Channels : uploadLifecycles' = [Pruned EXCEPT ![u] = Marked(Pruned[u], c)]
      BY <2>2 DEF MarkCanceled
    <3>2. /\ w \in Cancels /\ UNCHANGED <<pc, up, ctxDone>>
          /\ pending' = [pending EXCEPT ![w] =
                           {s \in Streams : \E t \in Transfers : Pruned[u].streams[t] = s}]
      BY <2>2 DEF MarkCanceled, streamVars
    \* A request the finalizer served before left nothing behind.
    <3>3. pending[w] = {}
      BY <2>2 DEF MarkCanceled, Named
    <3>4. \A x \in Cancels : pending[x] \subseteq pending'[x]
      BY <3>2, <3>3, CancelsAreWorkers DEF TypeOK
    <3> SUFFICES ASSUME DistinctTransfers, NEW v \in Uploads, NEW r \in Registered(v)'
                 PROVE  /\ uploadLifecycles'[v].streams[TransferOf[r]] = r
                        /\ Canceled(v)' => r \in ctxDone' \/ \E x \in Cancels : r \in pending'[x]
      BY DEF Reach, DistinctTransfers
    <3>5. r \in Registered(v) /\ r \in Streams /\ Pruned[v] = uploadLifecycles[v]
      BY <3>2, <1>b, <1>c DEF Registered
    <3>6. /\ uploadLifecycles[v].streams[TransferOf[r]] = r
          /\ Canceled(v) => r \in ctxDone \/ \E x \in Cancels : r \in pending[x]
      BY <3>5 DEF Reach
    <3>7. uploadLifecycles'[v].streams = uploadLifecycles[v].streams
      BY <3>1, <3>5, PrunedTyped DEF Marked
    <3>8. CASE v = u
      BY <3>2, <3>5, <3>6, <3>7, <3>8, CancelsAreWorkers, TransferTyped DEF TypeOK
    <3>9. CASE v # u
      <4>1. uploadLifecycles'[v] = uploadLifecycles[v]
        BY <3>1, <3>5, <3>9, PrunedTyped
      <4> QED BY <4>1, <3>2, <3>4, <3>6, <3>7 DEF Canceled
    <3> QED BY <3>8, <3>9
  <2>3. ASSUME NEW s \in Streams, CallCancel(w, s) PROVE Reach'
    <3>1. /\ UNCHANGED <<uploadLifecycles, pc, up>> /\ ctxDone' = ctxDone \cup {s}
          /\ \A x \in Workers : pending[x] \subseteq pending'[x] \cup {s}
      BY <2>3 DEF CallCancel, lifecycleVars, TypeOK
    <3> QED BY <3>1, <1>b, ReachQuiet, CancelsAreWorkers DEF Canceled
  <2>4. CASE WaitPasses(w)
    <3>1. wup[w] \in Uploads /\ uploadLifecycles[wup[w]].active = 0
          /\ UNCHANGED <<pc, up, ctxDone, pending>>
      BY <2>4 DEF WaitPasses, Named, streamVars
    <3>2. Registered(wup[w]) = {}
      BY <3>1, InactiveEmpty
    <3>3. \A u \in Uploads \ {wup[w]} : uploadLifecycles'[u] = uploadLifecycles[u]
      BY <2>4 DEF WaitPasses, TypeOK
    <3> QED BY <3>1, <3>2, <3>3, <1>b, ReachQuiet DEF Canceled
  <2>5. CASE WaitParks(w) \/ WaitWakes(w) \/ FinalizerReturns(w)
    BY <2>5, <1>a, <1>b DEF WaitParks, WaitWakes, FinalizerReturns, lifecycleVars, streamVars
  <2> QED BY <1>2, <2>1, <2>2, <2>3, <2>4, <2>5 DEF WorkerNext
<1>3. ASSUME NEW d \in Downloads, DownloadNext(d) PROVE Reach'
  BY <1>3, <1>a, <1>b DEF DownloadNext, StartDownload, DownloadAcquires, DownloadTimesOut,
                    DownloadReleases, lifecycleVars, streamVars, workerVars
<1>4. ASSUME NEW u \in Uploads, TombstoneExpires(u) PROVE Reach'
  <2>1. \A v \in Uploads : /\ uploadLifecycles'[v].streams = uploadLifecycles[v].streams
                           /\ Canceled(v)' <=> Canceled(v)
    BY <1>4 DEF TombstoneExpires, TypeOK, Lifecycle, Canceled
  <2> QED BY <1>4, <2>1, <1>b, ReachQuiet DEF TombstoneExpires, streamVars, workerVars
<1>5. ASSUME Restart PROVE Reach'
  <2>1. \A u \in Uploads : Registered(u)' = {}
    BY <1>5 DEF Restart, Registered
  <2> QED BY <2>1 DEF Reach, DistinctTransfers
<1>6. ASSUME UNCHANGED vars PROVE Reach'
  BY <1>6, <1>a, <1>b DEF vars
<1> QED BY <1>1, <1>2, <1>3, <1>4, <1>5, <1>6 DEF Next

\* The cancellation invariant holds at the start.
LEMMA CancelInit == Init => Busy /\ Reach
<1> SUFFICES ASSUME Init PROVE Busy /\ Reach
  OBVIOUS
<1>1. Busy
  BY CancelsAreWorkers DEF Init, Busy
<1>2. \A u \in Uploads : Registered(u) = {}
  BY DEF Init, Registered
<1> QED BY <1>1, <1>2 DEF Reach, DistinctTransfers

\* The cancellation invariant holds in every reachable state.
THEOREM CancelCorrect == Spec => []CancelInv
<1>1. TypedSlots => TypeOK /\ Named
  BY DEF TypedSlots
<1> QED
  BY <1>1, TypedSlotsInit, TypedSlotsStep, RegistryInit, RegistryStep, CancelInit, BusyStep,
     ReachStep, CancelInvSplit, PTL DEF Spec

\* In no order of requests, expiries and prunes does a stream run while
\* upload_cancel removes the part file.
THEOREM CancelQuiescent == Spec => []CancelQuiesces
<1>1. TypedSlots /\ RegistryInv /\ CancelInv => CancelQuiesces
  <2> SUFFICES ASSUME TypedSlots, RegistryInv, CancelInv, NEW w \in Cancels, wpc[w] = "passed"
               PROVE  Registered(wup[w]) = {}
    BY DEF CancelQuiesces
  <2>1. wup[w] \in Uploads /\ uploadLifecycles[wup[w]].active = 0
    BY CancelsAreWorkers DEF TypedSlots, Named, CancelInv
  <2> QED BY <2>1, InactiveEmpty
<1> QED
  BY <1>1, TypedSlotsInit, TypedSlotsStep, RegistryCorrect, CancelCorrect, PTL DEF Spec

\* However beginUploadStream and cancelUploadStreams interleave, a cancelled
\* upload has no stream that nobody interrupts.
THEOREM CancelComplete == Spec => []CancelReachesStreams
<1>1. CancelInv => CancelReachesStreams
  BY DEF CancelInv, CancelReachesStreams, Interruptible, DistinctTransfers
<1> QED BY <1>1, CancelCorrect, PTL
=============================================================================
