-------------------------- MODULE FileUploadProofs --------------------------
(***************************************************************************)
(* Proofs about FileUpload, for any number of uploads, paths, streams and  *)
(* finalizers: it implements the registry and the abstract AtomicPublish,  *)
(* and a target that a commit replaced is whole.                           *)
(***************************************************************************)
EXTENDS FileUpload, FiniteSetTheorems, TLAPS

\* The registry again, with what is proved about it.
RP == INSTANCE UploadLifecycleProofs

(***************************************************************************)
(* The registry: FileUpload implements it, so what is proved of it holds.  *)
(***************************************************************************)

\* Both instances of UploadLifecycle say the same.
LEMMA SameRegistry == Registry!Spec <=> RP!Spec
BY DEF Registry!Workers, RP!Workers, Registry!lifecycleVars, RP!lifecycleVars,
      Registry!streamVars, RP!streamVars, Registry!workerVars, RP!workerVars, Registry!vars,
      RP!vars, Registry!NoStreams, RP!NoStreams, Registry!NoLifecycle, RP!NoLifecycle,
      Registry!BusyOn, RP!BusyOn, Registry!Unused, RP!Unused, Registry!Fresh, RP!Fresh,
      Registry!Init, RP!Init, Registry!Pruned, RP!Pruned, Registry!Begun, RP!Begun,
      Registry!BeginUploadStream, RP!BeginUploadStream, Registry!RefuseUploadStream,
      RP!RefuseUploadStream, Registry!AcquireSlot, RP!AcquireSlot, Registry!AbandonSlot,
      RP!AbandonSlot, Registry!LeaveTransfer, RP!LeaveTransfer, Registry!ReleaseSlot,
      RP!ReleaseSlot, Registry!Ended, RP!Ended, Registry!AfterEnd, RP!AfterEnd,
      Registry!Closes, RP!Closes, Registry!EndUploadStream, RP!EndUploadStream,
      Registry!StartCommit, RP!StartCommit, Registry!Marked, RP!Marked,
      Registry!MarkCanceled, RP!MarkCanceled, Registry!CallCancel, RP!CallCancel,
      Registry!WaitPasses, RP!WaitPasses, Registry!WaitParks, RP!WaitParks,
      Registry!WaitWakes, RP!WaitWakes, Registry!FinalizerReturns, RP!FinalizerReturns,
      Registry!StartDownload, RP!StartDownload, Registry!DownloadAcquires,
      RP!DownloadAcquires, Registry!DownloadTimesOut, RP!DownloadTimesOut,
      Registry!DownloadReleases, RP!DownloadReleases, Registry!TombstoneExpires,
      RP!TombstoneExpires, Registry!Restart, RP!Restart, Registry!StreamNext, RP!StreamNext,
      Registry!WorkerNext, RP!WorkerNext, Registry!DownloadNext, RP!DownloadNext,
      Registry!Next, RP!Next, Registry!Spec, RP!Spec

\* A step of a stream is a step of the registry or leaves it alone.
LEMMA StreamFollows ==
  ASSUME NEW s \in Streams, StreamNext(s)
  PROVE  [Registry!Next]_(Registry!vars)
BY DEF StreamNext, StreamStep, BeginStream, RefuseStream, AcquireSlot, AbandonSlot, ReleaseSlot,
       EndStream, StreamFails, CreateSession, CreateSessionFails, JoinSession, OpenPart,
       WriteChunk, WriteFails, RecordChunk, LeaveTransfer, lifecycleAll,
       Registry!Next, Registry!StreamNext, Registry!vars

\* A step of a finalizer is a step of the registry or leaves it alone.
LEMMA WorkerFollows ==
  ASSUME NEW w \in Workers, WorkerNext(w)
  PROVE  [Registry!Next]_(Registry!vars)
BY DEF WorkerNext, FinalizerStep, StartCommit, StartCancel, CallCancel, Lock, WaitPasses,
       WaitParks, WaitWakes, GetLock, Unlock, ForgetLock, FinalizerFails, CommitCheck, CommitStat,
       CommitRename, CommitSync, CommitDelete, CancelSession, CancelWithoutSession, CancelDerived,
       Moves, lifecycleAll, Workers, Registry!Workers, Registry!Next, Registry!WorkerNext,
       Registry!vars

\* So is every other step.
LEMMA RegistryStep == [Next]_vars => [Registry!Next]_(Registry!vars)
<1>1. ASSUME NEW d \in Downloads, DownloadNext(d) PROVE Registry!Next
  BY <1>1 DEF DownloadNext, Registry!Next
<1>2. ASSUME NEW u \in Uploads, TombstoneExpires(u) PROVE Registry!Next
  BY <1>2 DEF TombstoneExpires, Registry!Next
<1>3. Restart => Registry!Next
  BY DEF Restart, Registry!Next
<1>4. UNCHANGED vars => UNCHANGED Registry!vars
  BY DEF vars, lifecycleAll, Registry!vars
<1> QED BY <1>1, <1>2, <1>3, <1>4, StreamFollows, WorkerFollows DEF Next

\* With streams that write and finalizers that rename, the registry behaves as
\* UploadLifecycle says.
THEOREM RegistryCorrect == Spec => RegistrySpec
<1>1. Init => Registry!Init
  BY DEF Init
<1> QED BY <1>1, RegistryStep, PTL DEF Spec, RegistrySpec, Registry!Spec

\* What the proofs below use of the registry: types, who has named an upload,
\* and that the counter a finalizer waits for counts the streams.
Known ==
  /\ pc \in [Streams -> {"idle", "slot", "http", "release", "end"}]
  /\ up \in [Streams -> Uploads \cup {NoUpload}]
  /\ wpc \in [Workers -> {"idle", "waiting", "parked", "passed"}]
  /\ wup \in [Workers -> Uploads \cup {NoUpload}]
  /\ uploadLifecycles \in [Uploads -> Registry!Lifecycle]
  /\ \A s \in Streams : pc[s] # "idle" => up[s] \in Uploads
  /\ \A w \in Workers : wpc[w] # "idle" => wup[w] \in Uploads
  /\ \A u \in Uploads : uploadLifecycles[u].active = 0 => Registry!Registered(u) = {}
  /\ \A w \in Cancels : wpc[w] = "passed" => Registry!Registered(wup[w]) = {}

\* Both instances take finite sets and their sizes from FiniteSets.
LEMMA SameSets ==
  ASSUME NEW S
  PROVE  /\ RP!IsFiniteSet(S) <=> IsFiniteSet(S)
         /\ RP!Cardinality(S) = Cardinality(S)
<1>1. RP!IsFiniteSet(S) <=> IsFiniteSet(S)
  BY DEF RP!IsFiniteSet, IsFiniteSet
<1>2. RP!Cardinality(S) = Cardinality(S)
  BY DEF RP!Cardinality, Cardinality
<1> QED BY <1>1, <1>2

\* What UploadLifecycle assumes of its constants.
LEMMA RegistryAssumed ==
  /\ RP!IsFiniteSet(Streams) /\ RP!IsFiniteSet(Downloads)
  /\ RP!IsFiniteSet(Uploads) /\ RP!IsFiniteSet(RP!Workers)
  /\ Commits \cap Cancels = {}
  /\ NoChan \notin Channels /\ NoStream \notin Streams /\ NoUpload \notin Uploads
  /\ TransferOf \in [Streams -> Transfers]
  /\ MaxSlots \in Nat \ {0}
  /\ \E C \in SUBSET Channels :
       RP!Cardinality(C) > RP!Cardinality(Uploads) + RP!Cardinality(RP!Workers)
BY RegistryAssumptions, SameSets DEF Workers, RP!Workers

\* What is proved of UploadLifecycle is all of it.
LEMMA KnownCorrect == Spec => []Known
<1>1. RP!Init => RP!TypedSlots
  BY RegistryAssumed, RP!TypedSlotsInit
<1>2. RP!TypedSlots /\ [RP!Next]_(RP!vars) => RP!TypedSlots'
  BY RegistryAssumed, RP!TypedSlotsStep
<1>3. RP!Spec => []RP!RegistryInv
  BY RegistryAssumed, RP!RegistryCorrect, PTL
<1>4. RP!Spec => []RP!CancelQuiesces
  BY RegistryAssumed, RP!CancelQuiescent, PTL
<1>5. RP!TypedSlots /\ RP!RegistryInv /\ RP!CancelQuiesces => Known
  <2> SUFFICES ASSUME RP!TypedSlots, RP!RegistryInv, RP!CancelQuiesces PROVE Known
    OBVIOUS
  <2>1. ASSUME NEW u \in Uploads, uploadLifecycles[u].active = 0 PROVE RP!Registered(u) = {}
    BY <2>1, RegistryAssumed, RP!InactiveEmpty
  <2>2. ASSUME NEW u PROVE RP!Registered(u) = Registry!Registered(u)
    BY DEF Registry!Registered, RP!Registered
  <2>3. \A w \in Cancels : wpc[w] = "passed" => Registry!Registered(wup[w]) = {}
    BY <2>2 DEF RP!CancelQuiesces
  <2>4. /\ pc \in [Streams -> {"idle", "slot", "http", "release", "end"}]
        /\ up \in [Streams -> Uploads \cup {NoUpload}]
        /\ wpc \in [Workers -> {"idle", "waiting", "parked", "passed"}]
        /\ wup \in [Workers -> Uploads \cup {NoUpload}]
        /\ uploadLifecycles \in [Uploads -> Registry!Lifecycle]
    BY DEF RP!TypedSlots, RP!TypeOK, RP!Workers, Workers, Registry!Lifecycle, RP!Lifecycle
  <2>5. /\ \A s \in Streams : pc[s] # "idle" => up[s] \in Uploads
        /\ \A w \in Workers : wpc[w] # "idle" => wup[w] \in Uploads
    BY DEF RP!TypedSlots, RP!Named, RP!Workers, Workers
  <2> QED BY <2>1, <2>2, <2>3, <2>4, <2>5 DEF Known
<1> QED
  BY <1>1, <1>2, <1>3, <1>4, <1>5, RegistryCorrect, SameRegistry, PTL DEF RegistrySpec, RP!Spec

(***************************************************************************)
(* The inductive invariant, in three layers.                               *)
(***************************************************************************)

\* A stream past its first phase holds a slot and knows its part file, and every
\* stream knows what it was asked to write.
Serving ==
  \A s \in Streams :
    /\ pc[s] # "idle" => req[s] \in Request
    /\ step[s] # "request" => pc[s] = "http" /\ partPath[s] \in Paths

\* A session knows its part file.
Sessions == \A u \in Uploads : Exists(u) => uploadChunks[u].temp \in Paths

\* A finalizer works once it has waited, and has a mutex from its first step on; only a
\* commit comes near a rename, and only a cancel without a session follows the path of
\* its request.
Finishing ==
  \A w \in Workers :
    /\ fin[w] # "none" => wpc[w] = "passed"
    /\ fin[w] \notin {"none", "getlock"} => lock[w] \in Locks
    /\ fin[w] \in {"stat", "rename", "sync", "delete"} =>
         w \in Commits /\ partPath[w] \in Paths /\ fpath[w] \in Paths
    /\ fin[w] = "derive" => w \in Cancels /\ fpath[w] \in Paths /\ ~Exists(wup[w])

\* The first layer holds of every controller.
Shape == TypeOK /\ Serving /\ Sessions /\ Finishing

\* No stream runs while a finalizer that has waited is at work.
Alone == \A w \in Workers : wpc[w] = "passed" => Registry!Registered(wup[w]) = {}

\* A descriptor is open only during the write, and then on the part file.
Descriptors == \A s \in Streams : fd[s] = IF step[s] = "write" THEN "part" ELSE "none"

\* A session outlives the streams that joined it and keeps its part file.
Joined ==
  /\ \A s \in Streams : step[s] # "request" =>
       Exists(up[s]) /\ partPath[s] = uploadChunks[up[s]].temp
  /\ \A u \in Uploads : Exists(u) => uploadChunks[u].temp = uploadChunks[u].path

\* A commit renames to the target its session stages for.
SameTarget == \A w \in Workers : fin[w] \in {"stat", "rename"} => partPath[w] = fpath[w]

\* The second layer needs a controller that sends no stream of an upload it commits.
Exclusive == Alone /\ Descriptors /\ Joined /\ SameTarget

\* The chunks a session counts are in its part file, until the commit that renamed
\* the file deletes the session.
StagedOf(u) ==
  Exists(u) =>
    LET k == PartKey(u, uploadChunks[u].temp)
    IN \/ k \in partFiles /\ uploadChunks[u].parts \subseteq partData[k]
       \/ /\ k \notin partFiles
          /\ \E w \in Workers : fin[w] \in {"sync", "delete"} /\ wup[w] = u

Staged == \A u \in Uploads : StagedOf(u)

\* A chunk about to be counted is in the part file.
Recorded ==
  \A s \in Streams : step[s] = "record" =>
    req[s].chunk \in partData[PartKey(up[s], partPath[s])]

\* A part file that reached the checks before the rename is whole.
Whole ==
  \A w \in Workers :
    /\ (fin[w] = "stat" /\ ~DirSyncMayFail /\ PartOf(w) \in partFiles)
         => partData[PartOf(w)] = Chunks
    /\ (fin[w] = "rename" /\ PartOf(w) \in partFiles) => partData[PartOf(w)] = Chunks

\* The third layer needs directory syncs that succeed or uploads of one chunk.
Complete == (~DirSyncMayFail => Staged) /\ Recorded /\ Whole /\ PublishedComplete

(***************************************************************************)
(* First layer: types, and who works on what.                              *)
(***************************************************************************)

\* Steps that touch nothing this module adds.
Untouching ==
  \/ \E s \in Streams :
       \/ AcquireSlot(s) \/ AbandonSlot(s) \/ ReleaseSlot(s)
       \/ \E u \in Uploads : RefuseStream(s, u)
  \/ \E w \in Workers :
       WaitParks(w) \/ WaitWakes(w) \/ \E s \in Streams : CallCancel(w, s)
  \/ \E d \in Downloads : DownloadNext(d)
  \/ \E u \in Uploads : TombstoneExpires(u)
  \/ UNCHANGED vars

\* They neither start nor end a stream and leave working finalizers alone.
LEMMA UntouchingKeeps ==
  ASSUME Known, Untouching
  PROVE  /\ UNCHANGED fileVars /\ UNCHANGED <<up, wup>>
         /\ \A s \in Streams : /\ pc'[s] # "idle" <=> pc[s] # "idle"
                               /\ pc[s] = "http" => pc'[s] = "http"
         /\ \A w \in Workers : /\ wpc[w] = "passed" <=> wpc'[w] = "passed"
                               /\ wpc[w] = "idle" <=> wpc'[w] = "idle"
<1> USE DEF Known
<1>1. ASSUME NEW s \in Streams, AcquireSlot(s) \/ AbandonSlot(s) \/ ReleaseSlot(s) PROVE
         /\ UNCHANGED fileVars /\ UNCHANGED <<up, wpc, wup>>
         /\ \A r \in Streams : /\ pc'[r] # "idle" <=> pc[r] # "idle"
                               /\ pc[r] = "http" => pc'[r] = "http"
  BY <1>1 DEF AcquireSlot, AbandonSlot, ReleaseSlot, Registry!AcquireSlot, Registry!AbandonSlot,
              Registry!ReleaseSlot, Registry!workerVars
<1>2. ASSUME NEW s \in Streams, NEW u \in Uploads, RefuseStream(s, u) PROVE
         UNCHANGED fileVars /\ UNCHANGED <<pc, up, wpc, wup>>
  BY <1>2 DEF RefuseStream, Registry!RefuseUploadStream, Registry!streamVars, Registry!workerVars
<1>3. ASSUME NEW w \in Workers, WaitParks(w) \/ WaitWakes(w) PROVE
         /\ UNCHANGED fileVars /\ UNCHANGED <<pc, up, wup>>
         /\ \A v \in Workers : /\ wpc[v] = "passed" <=> wpc'[v] = "passed"
                               /\ wpc[v] = "idle" <=> wpc'[v] = "idle"
  BY <1>3 DEF WaitParks, WaitWakes, Registry!WaitParks, Registry!WaitWakes, Registry!streamVars
<1>4. ASSUME NEW w \in Workers, NEW s \in Streams, CallCancel(w, s) PROVE
         UNCHANGED fileVars /\ UNCHANGED <<pc, up, wpc, wup>>
  BY <1>4 DEF CallCancel, Registry!CallCancel
<1>5. ASSUME NEW d \in Downloads, DownloadNext(d) PROVE
         UNCHANGED fileVars /\ UNCHANGED <<pc, up, wpc, wup>>
  BY <1>5 DEF DownloadNext, Registry!DownloadNext, Registry!StartDownload,
              Registry!DownloadAcquires, Registry!DownloadTimesOut, Registry!DownloadReleases,
              Registry!streamVars, Registry!workerVars
<1>6. ASSUME NEW u \in Uploads, TombstoneExpires(u) PROVE
         UNCHANGED fileVars /\ UNCHANGED <<pc, up, wpc, wup>>
  BY <1>6 DEF TombstoneExpires, Registry!TombstoneExpires, Registry!streamVars, Registry!workerVars
<1>7. ASSUME UNCHANGED vars PROVE
         UNCHANGED fileVars /\ UNCHANGED <<pc, up, wpc, wup>>
  BY <1>7 DEF vars, lifecycleAll
<1> QED BY <1>1, <1>2, <1>3, <1>4, <1>5, <1>6, <1>7 DEF Untouching

\* So they keep the first layer.
LEMMA UntouchingShape ==
  ASSUME Known, Shape, Untouching
  PROVE  Shape'
<1>0. UNCHANGED fileVars /\ UNCHANGED <<up, wup>>
  BY UntouchingKeeps
<1>1. TypeOK'
  BY <1>0 DEF Shape, TypeOK, fileVars
<1>2. Serving'
  BY <1>0, UntouchingKeeps DEF Shape, Serving, fileVars
<1>3. Sessions'
  BY <1>0 DEF Shape, Sessions, fileVars, Exists
<1>4. Finishing'
  BY <1>0, UntouchingKeeps DEF Shape, Finishing, fileVars, Exists
<1> QED BY <1>1, <1>2, <1>3, <1>4 DEF Shape

\* A stream that leaves its transfer: the registry and its locals.
LEMMA Leaves ==
  ASSUME Known, TypeOK, NEW s \in Streams, LeaveTransfer(s)
  PROVE  /\ pc[s] = "http" /\ pc' = [pc EXCEPT ![s] = "release"]
         /\ step' = [step EXCEPT ![s] = "request"]
         /\ fd' = [fd EXCEPT ![s] = "none"]
         /\ partPath' = [partPath EXCEPT ![s] = NoPath]
         /\ UNCHANGED <<up, wpc, wup, req, fin, fpath, lock, writeLocks, held>>
BY DEF LeaveTransfer, Registry!LeaveTransfer, Registry!workerVars, finalizerVars, lockVars

\* The part file of an upload for one of its targets.
LEMMA PartKeyTyped == ASSUME NEW u \in Uploads, NEW p \in Paths PROVE PartKey(u, p) \in PartKeys
BY DEF PartKey, PartKeys

\* The request of a new stream.
LEMMA BeginShape ==
  ASSUME Known, Shape, NEW s \in Streams, NEW u \in Uploads, BeginStream(s, u)
  PROVE  Shape'
<1>1. /\ pc[s] = "idle" /\ pc' = [pc EXCEPT ![s] = "slot"] /\ up' = [up EXCEPT ![s] = u]
      /\ UNCHANGED <<step, fd, partPath, uploadChunks, partFiles, partData, target, fin, fpath,
                     lock, writeLocks, held, wpc, wup>>
  BY DEF BeginStream, Registry!BeginUploadStream, Registry!workerVars, diskVars, finalizerVars,
         lockVars
<1>2. PICK r \in Request : req' = [req EXCEPT ![s] = r]
  BY DEF BeginStream
<1>3. TypeOK'
  BY <1>1, <1>2 DEF Shape, TypeOK
<1>4. Serving'
  BY <1>1, <1>2 DEF Known, Shape, TypeOK, Serving
<1>5. Sessions' /\ Finishing'
  BY <1>1 DEF Shape, Sessions, Finishing, Exists
<1> QED BY <1>3, <1>4, <1>5 DEF Shape

\* A stream is over.
LEMMA EndShape ==
  ASSUME Known, Shape, NEW s \in Streams, EndStream(s)
  PROVE  Shape'
<1>1. /\ pc[s] = "end" /\ pc' = [pc EXCEPT ![s] = "idle"] /\ up' = [up EXCEPT ![s] = NoUpload]
      /\ req' = [req EXCEPT ![s] = NoRequest]
      /\ UNCHANGED <<step, fd, partPath, uploadChunks, partFiles, partData, target, fin, fpath,
                     lock, writeLocks, held, wpc, wup>>
  BY DEF EndStream, Registry!EndUploadStream, diskVars, finalizerVars, lockVars
<1>3. TypeOK'
  BY <1>1 DEF Shape, TypeOK
<1>4. Serving'
  BY <1>1 DEF Known, Shape, TypeOK, Serving
<1>5. Sessions' /\ Finishing'
  BY <1>1 DEF Shape, Sessions, Finishing, Exists
<1> QED BY <1>3, <1>4, <1>5 DEF Shape

\* No stream of the upload of a cancel that follows a path is running.
LEMMA DerivesAlone ==
  ASSUME Known, Shape, NEW w \in Workers, fin[w] = "derive", NEW s \in Streams, pc[s] # "idle"
  PROVE  up[s] # wup[w]
<1>1. w \in Cancels /\ wpc[w] = "passed"
  BY DEF Shape, Finishing
<1> QED BY <1>1 DEF Known, Registry!Registered

\* A stream may change the part file of a session, and makes or deletes none.
SessionsStay(s) ==
  \A u \in Uploads :
    /\ uploadChunks'[u].path = uploadChunks[u].path
    /\ \/ uploadChunks'[u].temp = uploadChunks[u].temp
       \/ u = up[s] /\ uploadChunks'[u].temp \in Paths

\* A stream that leaves its transfer, whatever it leaves on the disk.
LEMMA LeavesShape ==
  ASSUME Known, Shape, NEW s \in Streams, LeaveTransfer(s), TypeOK',
         SessionsStay(s)
  PROVE  Shape'
<1>1. /\ pc[s] = "http" /\ pc' = [pc EXCEPT ![s] = "release"]
      /\ step' = [step EXCEPT ![s] = "request"]
      /\ partPath' = [partPath EXCEPT ![s] = NoPath]
      /\ UNCHANGED <<up, wpc, wup, req, fin, fpath, lock>>
  BY Leaves DEF Shape
<1>2. Serving'
  BY <1>1 DEF Known, Shape, TypeOK, Serving
<1>3. Sessions'
  BY DEF SessionsStay, Shape, Sessions, Exists
<1>4. Finishing'
  <2> SUFFICES ASSUME NEW w \in Workers PROVE
      /\ fin[w] # "none" => wpc[w] = "passed"
      /\ fin[w] \notin {"none", "getlock"} => lock[w] \in Locks
      /\ fin[w] \in {"stat", "rename", "sync", "delete"} =>
           w \in Commits /\ partPath'[w] \in Paths /\ fpath[w] \in Paths
      /\ fin[w] = "derive" =>
           w \in Cancels /\ fpath[w] \in Paths /\ uploadChunks'[wup[w]].path = NoPath
    BY <1>1 DEF Finishing, Exists
  <2>1. partPath'[w] = partPath[w]
    BY <1>1, GoroutinesApart DEF Shape, TypeOK
  <2>2. fin[w] # "none" => wup[w] \in Uploads
    BY DEF Known, Shape, Finishing
  <2> QED BY <2>1, <2>2 DEF SessionsStay, Shape, Finishing, Exists
<1> QED BY <1>2, <1>3, <1>4 DEF Shape

\* A stream fails: only its locals change.
LEMMA StreamFailsShape ==
  ASSUME Known, Shape, NEW s \in Streams, StreamFails(s)
  PROVE  Shape'
<1>1. UNCHANGED <<uploadChunks, partFiles, partData, target>> /\ LeaveTransfer(s)
  BY DEF StreamFails, diskVars
<1>2. TypeOK'
  BY <1>1, Leaves DEF Shape, TypeOK
<1> QED BY <1>1, <1>2, LeavesShape DEF SessionsStay

\* A stream whose session could not be made leaves an empty part file.
LEMMA CreateFailsShape ==
  ASSUME Known, Shape, NEW s \in Streams, CreateSessionFails(s)
  PROVE  Shape'
<1>1. UNCHANGED <<uploadChunks, target>> /\ LeaveTransfer(s)
  BY DEF CreateSessionFails
<1>2. up[s] \in Uploads /\ req[s].path \in Paths
  BY <1>1, Leaves DEF Known, Shape, Serving, Request
<1>3. partFiles' \subseteq PartKeys /\ partData' \in [PartKeys -> SUBSET Chunks]
  BY <1>2, PartKeyTyped DEF CreateSessionFails, Shape, TypeOK
<1>4. TypeOK'
  BY <1>1, <1>3, Leaves DEF Shape, TypeOK
<1> QED BY <1>1, <1>4, LeavesShape DEF SessionsStay

\* What lands changes one file's chunks.
LEMMA LandsTyped ==
  ASSUME Known, Shape, NEW s \in Streams, step[s] = "write", ChunkLands(s)
  PROVE  /\ pc[s] = "http" /\ up[s] \in Uploads /\ partPath[s] \in Paths
         /\ req[s].chunk \in Chunks
         /\ UNCHANGED partFiles
         /\ partData' \in [PartKeys -> SUBSET Chunks]
         /\ target' \in [Paths -> [from : Uploads \cup {NoUpload}, data : SUBSET Chunks]]
<1>1. pc[s] = "http" /\ up[s] \in Uploads /\ partPath[s] \in Paths /\ req[s].chunk \in Chunks
  BY DEF Known, Shape, Serving, Request
<1>2. partData' \in [PartKeys -> SUBSET Chunks]
  BY <1>1, PartKeyTyped DEF ChunkLands, Shape, TypeOK
<1>3. target' \in [Paths -> [from : Uploads \cup {NoUpload}, data : SUBSET Chunks]]
  BY <1>1 DEF ChunkLands, Shape, TypeOK
<1> QED BY <1>1, <1>2, <1>3 DEF ChunkLands

\* A stream that wrote but cannot close.
LEMMA WriteFailsShape ==
  ASSUME Known, Shape, NEW s \in Streams, WriteFails(s)
  PROVE  Shape'
<1>1. UNCHANGED uploadChunks /\ LeaveTransfer(s) /\ ChunkLands(s) /\ step[s] = "write"
  BY DEF WriteFails
<1>2. TypeOK'
  BY <1>1, LandsTyped, Leaves DEF Shape, TypeOK
<1> QED BY <1>1, <1>2, LeavesShape DEF SessionsStay

\* A stream counts its chunk.
LEMMA RecordShape ==
  ASSUME Known, Shape, NEW s \in Streams, RecordChunk(s)
  PROVE  Shape'
<1>1. UNCHANGED <<partFiles, partData, target>> /\ LeaveTransfer(s) /\ step[s] = "record"
  BY DEF RecordChunk, diskVars
<1>2. pc[s] = "http" /\ up[s] \in Uploads /\ partPath[s] \in Paths /\ req[s].chunk \in Chunks
  BY <1>1 DEF Known, Shape, Serving, Request
<1>3. CASE Exists(up[s])
  <2>1. uploadChunks' = [uploadChunks EXCEPT ![up[s]] =
          [path |-> uploadChunks[up[s]].path, temp |-> partPath[s],
           parts |-> uploadChunks[up[s]].parts \cup {req[s].chunk}]]
    BY <1>3 DEF RecordChunk
  <2>2. TypeOK'
    BY <1>1, <1>2, <2>1, Leaves DEF Shape, TypeOK
  <2> QED BY <1>1, <1>2, <1>3, <2>1, <2>2, LeavesShape DEF SessionsStay, Shape, TypeOK
<1>4. CASE ~Exists(up[s])
  <2>1. UNCHANGED uploadChunks
    BY <1>4 DEF RecordChunk
  <2>2. TypeOK'
    BY <1>1, <2>1, Leaves DEF Shape, TypeOK
  <2> QED BY <1>1, <2>1, <2>2, LeavesShape DEF SessionsStay
<1> QED BY <1>3, <1>4

\* A stream that goes on inside its transfer, for an upload that has a session after.
LEMMA GoesOnShape ==
  ASSUME Known, Shape, NEW s \in Streams, pc[s] = "http", TypeOK',
         UNCHANGED <<pc, up, wpc, wup, req, fin, fpath, lock>>,
         \A r \in Streams \ {s} : step'[r] = step[r] /\ partPath'[r] = partPath[r],
         partPath'[s] \in Paths,
         \A w \in Workers : partPath'[w] = partPath[w],
         \A u \in Uploads : u # up[s] => uploadChunks'[u] = uploadChunks[u],
         uploadChunks'[up[s]].temp \in Paths \/ UNCHANGED uploadChunks
  PROVE  Shape'
<1>1. Serving'
  BY DEF Shape, Serving
<1>2. Sessions'
  BY DEF SessionsStay, Shape, Sessions, Exists
<1>3. Finishing'
  <2> SUFFICES ASSUME NEW w \in Workers PROVE
      /\ fin[w] # "none" => wpc[w] = "passed"
      /\ fin[w] \notin {"none", "getlock"} => lock[w] \in Locks
      /\ fin[w] \in {"stat", "rename", "sync", "delete"} =>
           w \in Commits /\ partPath'[w] \in Paths /\ fpath[w] \in Paths
      /\ fin[w] = "derive" =>
           w \in Cancels /\ fpath[w] \in Paths /\ uploadChunks'[wup[w]].path = NoPath
    BY DEF Finishing, Exists
  <2>1. fin[w] = "derive" => up[s] # wup[w] /\ wup[w] \in Uploads
    BY DerivesAlone DEF Known, Shape, Finishing
  <2> QED BY <2>1 DEF Shape, Finishing, Exists
<1> QED BY <1>1, <1>2, <1>3 DEF Shape

\* A stream makes a session.
LEMMA CreateShape ==
  ASSUME Known, Shape, NEW s \in Streams, CreateSession(s)
  PROVE  Shape'
<1>1. /\ pc[s] = "http"
      /\ partFiles' = partFiles \cup {PartKey(up[s], req[s].path)}
      /\ partData' = [partData EXCEPT ![PartKey(up[s], req[s].path)] = {}]
      /\ uploadChunks' = [uploadChunks EXCEPT ![up[s]] = NewSession(req[s].path)]
      /\ partPath' = [partPath EXCEPT ![s] = req[s].path]
      /\ step' = [step EXCEPT ![s] = "open"]
      /\ UNCHANGED <<pc, up, wpc, wup, req, fd, target, fin, fpath, lock, writeLocks, held>>
  BY DEF CreateSession, lifecycleAll, finalizerVars, lockVars
<1>2. up[s] \in Uploads /\ req[s].path \in Paths
  BY <1>1 DEF Known, Shape, Serving, Request
<1>3. NewSession(req[s].path) \in [path : Paths \cup {NoPath}, temp : Paths \cup {NoPath},
                                   parts : SUBSET Chunks]
  BY <1>2 DEF NewSession
<1>4. TypeOK'
  BY <1>1, <1>2, <1>3, PartKeyTyped DEF Shape, TypeOK
<1>5. uploadChunks'[up[s]].temp \in Paths
  BY <1>1, <1>2 DEF NewSession, Shape, TypeOK
<1> QED BY <1>1, <1>2, <1>4, <1>5, GoroutinesApart, GoesOnShape DEF Shape, TypeOK

\* A stream joins a session.
LEMMA JoinShape ==
  ASSUME Known, Shape, NEW s \in Streams, JoinSession(s)
  PROVE  Shape'
<1>1. /\ pc[s] = "http" /\ Exists(up[s])
      /\ partPath' = [partPath EXCEPT ![s] = uploadChunks[up[s]].temp]
      /\ step' = [step EXCEPT ![s] = "open"]
      /\ UNCHANGED <<pc, up, wpc, wup, req, fd, uploadChunks, partFiles, partData, target, fin,
                     fpath, lock, writeLocks, held>>
  BY DEF JoinSession, lifecycleAll, diskVars, finalizerVars, lockVars
<1>2. up[s] \in Uploads /\ uploadChunks[up[s]].temp \in Paths
  BY <1>1 DEF Known, Shape, Sessions
<1>3. TypeOK'
  BY <1>1, <1>2 DEF Shape, TypeOK
<1> QED BY <1>1, <1>2, <1>3, GoroutinesApart, GoesOnShape DEF Shape, TypeOK

\* It opens the part file.
LEMMA OpenShape ==
  ASSUME Known, Shape, NEW s \in Streams, OpenPart(s)
  PROVE  Shape'
<1>1. /\ step[s] = "open"
      /\ partFiles' = partFiles \cup {PartKey(up[s], partPath[s])}
      /\ fd' = [fd EXCEPT ![s] = "part"]
      /\ step' = [step EXCEPT ![s] = "write"]
      /\ UNCHANGED <<pc, up, wpc, wup, req, partPath, uploadChunks, partData, target, fin,
                     fpath, lock, writeLocks, held>>
  BY DEF OpenPart, lifecycleAll, finalizerVars, lockVars
<1>2. pc[s] = "http" /\ up[s] \in Uploads /\ partPath[s] \in Paths
  BY <1>1 DEF Known, Shape, Serving
<1>3. TypeOK'
  BY <1>1, <1>2, PartKeyTyped DEF Shape, TypeOK
<1> QED BY <1>1, <1>2, <1>3, GoesOnShape DEF Shape, TypeOK

\* It writes its chunk.
LEMMA WriteShape ==
  ASSUME Known, Shape, NEW s \in Streams, WriteChunk(s)
  PROVE  Shape'
<1>1. /\ step[s] = "write" /\ ChunkLands(s)
      /\ fd' = [fd EXCEPT ![s] = "none"]
      /\ step' = [step EXCEPT ![s] = "record"]
      /\ UNCHANGED <<pc, up, wpc, wup, req, partPath, uploadChunks, fin, fpath, lock,
                     writeLocks, held>>
  BY DEF WriteChunk, lifecycleAll, finalizerVars, lockVars
<1>2. TypeOK'
  BY <1>1, LandsTyped DEF Shape, TypeOK
<1> QED BY <1>1, <1>2, LandsTyped, GoesOnShape DEF Shape, TypeOK

\* No step of a stream disturbs the first layer.
LEMMA StreamShape ==
  ASSUME Known, Shape, NEW s \in Streams, StreamNext(s)
  PROVE  Shape'
<1>1. CASE \E u \in Uploads : BeginStream(s, u)
  BY <1>1, BeginShape
<1>2. CASE EndStream(s)
  BY <1>2, EndShape
<1>3. CASE \/ AcquireSlot(s) \/ AbandonSlot(s) \/ ReleaseSlot(s)
           \/ \E u \in Uploads : RefuseStream(s, u)
  BY <1>3, UntouchingShape DEF Untouching
<1>4. CASE StreamFails(s) \/ CreateSessionFails(s) \/ WriteFails(s) \/ RecordChunk(s)
  BY <1>4, StreamFailsShape, CreateFailsShape, WriteFailsShape, RecordShape
<1>5. CASE CreateSession(s) \/ JoinSession(s) \/ OpenPart(s) \/ WriteChunk(s)
  BY <1>5, CreateShape, JoinShape, OpenShape, WriteShape
<1> QED BY <1>1, <1>2, <1>3, <1>4, <1>5 DEF StreamNext, StreamStep

\* A finalizer that moves on, for a registry that keeps its streams.
LEMMA MovesKeep ==
  ASSUME Known, Shape, NEW w \in Workers, NEW from, NEW to, Moves(w, from, to)
  PROVE  /\ fin[w] = from /\ fin' = [fin EXCEPT ![w] = to]
         /\ UNCHANGED <<pc, up, wpc, wup, fpath>>
BY DEF Moves, lifecycleAll

\* Requests of finalizers, the wait and the answer.
LEMMA RequestShape ==
  ASSUME Known, Shape, NEW w \in Workers,
         \/ \E u \in Uploads : StartCommit(w, u) \/ StartCancel(w, u)
         \/ WaitPasses(w)
         \/ ForgetLock(w)
  PROVE  Shape'
<1>1. UNCHANGED <<pc, up, req, step, fd, uploadChunks, partFiles, partData, target, held>>
  BY DEF StartCommit, StartCancel, WaitPasses, ForgetLock, streamFileVars, diskVars, lockVars,
         Registry!StartCommit, Registry!MarkCanceled, Registry!WaitPasses,
         Registry!FinalizerReturns, Registry!streamVars
<1>2. ASSUME NEW u \in Uploads, StartCommit(w, u) PROVE Shape'
  <2>1. PICK p \in Paths : fpath' = [fpath EXCEPT ![w] = p]
    BY <1>2 DEF StartCommit
  <2>2. /\ wpc[w] = "idle" /\ wpc' = [wpc EXCEPT ![w] = "waiting"]
        /\ wup' = [wup EXCEPT ![w] = u]
        /\ UNCHANGED <<partPath, fin, lock, writeLocks>>
    BY <1>2 DEF StartCommit, Registry!StartCommit, lockVars
  <2>3. TypeOK'
    BY <1>1, <2>1, <2>2 DEF Shape, TypeOK
  <2>4. Serving' /\ Sessions'
    BY <1>1, <2>2 DEF Shape, Serving, Sessions, Exists
  <2>5. Finishing'
    BY <1>1, <2>1, <2>2 DEF Known, Shape, TypeOK, Finishing, Exists
  <2> QED BY <2>3, <2>4, <2>5 DEF Shape
<1>3. ASSUME NEW u \in Uploads, StartCancel(w, u) PROVE Shape'
  <2>1. PICK p \in Paths \cup {NoPath} : fpath' = [fpath EXCEPT ![w] = p]
    BY <1>3 DEF StartCancel
  <2>2. /\ wpc[w] = "idle" /\ wpc' = [wpc EXCEPT ![w] = "waiting"]
        /\ wup' = [wup EXCEPT ![w] = u]
        /\ UNCHANGED <<partPath, fin, lock, writeLocks>>
    BY <1>3 DEF StartCancel, Registry!MarkCanceled, lockVars
  <2>3. TypeOK'
    BY <1>1, <2>1, <2>2 DEF Shape, TypeOK
  <2>4. Serving' /\ Sessions'
    BY <1>1, <2>2 DEF Shape, Serving, Sessions, Exists
  <2>5. Finishing'
    BY <1>1, <2>1, <2>2 DEF Known, Shape, TypeOK, Finishing, Exists
  <2> QED BY <2>3, <2>4, <2>5 DEF Shape
<1>4. ASSUME WaitPasses(w) PROVE Shape'
  <2>1. /\ wpc[w] = "waiting" /\ wpc' = [wpc EXCEPT ![w] = "passed"]
        /\ fin' = [fin EXCEPT ![w] = "getlock"]
        /\ UNCHANGED <<wup, partPath, fpath, lock, writeLocks>>
    BY <1>4 DEF WaitPasses, Registry!WaitPasses, lockVars
  <2>2. TypeOK'
    BY <1>1, <2>1 DEF Shape, TypeOK
  <2>3. Serving' /\ Sessions'
    BY <1>1, <2>1 DEF Shape, Serving, Sessions, Exists
  <2>4. Finishing'
    BY <1>1, <2>1 DEF Known, Shape, TypeOK, Finishing, Exists
  <2> QED BY <2>2, <2>3, <2>4 DEF Shape
<1>5. ASSUME ForgetLock(w) PROVE Shape'
  <2>1. /\ fin[w] = "forget" /\ fin' = [fin EXCEPT ![w] = "none"]
        /\ wpc[w] = "passed" /\ wpc' = [wpc EXCEPT ![w] = "idle"]
        /\ wup' = [wup EXCEPT ![w] = NoUpload]
        /\ fpath' = [fpath EXCEPT ![w] = NoPath]
        /\ lock' = [lock EXCEPT ![w] = NoLock]
        /\ partPath' = [partPath EXCEPT ![w] = NoPath]
        /\ writeLocks' = [writeLocks EXCEPT ![wup[w]] = NoLock]
    BY <1>5 DEF ForgetLock, Registry!FinalizerReturns
  <2>2. TypeOK'
    BY <1>1, <2>1 DEF Known, Shape, TypeOK
  <2>3. Serving' /\ Sessions'
    BY <1>1, <2>1, GoroutinesApart DEF Shape, TypeOK, Serving, Sessions, Exists
  <2>4. Finishing'
    BY <1>1, <2>1 DEF Known, Shape, TypeOK, Finishing, Exists
  <2> QED BY <2>2, <2>3, <2>4 DEF Shape
<1> QED BY <1>2, <1>3, <1>4, <1>5

\* The write lock, and an error after it.
LEMMA LockShape ==
  ASSUME Known, Shape, NEW w \in Workers, GetLock(w) \/ Lock(w) \/ Unlock(w) \/ FinalizerFails(w)
  PROVE  Shape'
<1>1. UNCHANGED <<pc, up, wpc, wup, fpath, req, step, fd, partPath, uploadChunks, partFiles,
                  partData, target>>
  BY DEF GetLock, Lock, Unlock, FinalizerFails, Moves, lifecycleAll, streamFileVars, diskVars
<1>2. /\ fin[w] # "none"
      /\ \E to \in {"lock", "locked", "unlock", "forget"} : fin' = [fin EXCEPT ![w] = to]
      /\ lock' \in [Workers -> Locks \cup {NoLock}]
      /\ \A v \in Workers \ {w} : lock'[v] = lock[v]
      /\ lock'[w] \in Locks
      /\ writeLocks' \in [Uploads -> Locks \cup {NoLock}]
      /\ held' \subseteq Locks
  <2>1. CASE GetLock(w)
    <3>1. PICK l \in Locks : lock' = [lock EXCEPT ![w] = l]
                             /\ writeLocks' = [writeLocks EXCEPT ![wup[w]] = l]
      BY <2>1 DEF GetLock
    <3> QED BY <2>1, <3>1 DEF GetLock, Moves, Shape, TypeOK
  <2>2. CASE Lock(w)
    BY <2>2 DEF Lock, Moves, Shape, TypeOK, Finishing
  <2>3. CASE Unlock(w)
    BY <2>3 DEF Unlock, Moves, Shape, TypeOK, Finishing
  <2>4. CASE FinalizerFails(w)
    BY <2>4 DEF FinalizerFails, Moves, lockVars, Shape, TypeOK, Finishing
  <2> QED BY <2>1, <2>2, <2>3, <2>4
<1>3. TypeOK'
  BY <1>1, <1>2 DEF Shape, TypeOK
<1>4. Serving' /\ Sessions'
  BY <1>1 DEF Shape, Serving, Sessions, Exists
<1>5. Finishing'
  BY <1>1, <1>2 DEF Shape, TypeOK, Finishing, Exists
<1> QED BY <1>3, <1>4, <1>5 DEF Shape

\* The checks of a commit.
LEMMA CheckShape ==
  ASSUME Known, Shape, NEW w \in Workers, CommitCheck(w)
  PROVE  Shape'
<1>1. /\ w \in Commits /\ Exists(wup[w]) /\ uploadChunks[wup[w]].path = fpath[w]
      /\ fin[w] = "locked" /\ fin' = [fin EXCEPT ![w] = "stat"]
      /\ partPath' = [partPath EXCEPT ![w] = uploadChunks[wup[w]].temp]
      /\ UNCHANGED <<pc, up, wpc, wup, fpath, req, step, fd, uploadChunks, partFiles, partData,
                     target, lock, writeLocks, held>>
  BY DEF CommitCheck, Committable, Moves, lifecycleAll, streamFileVars, diskVars, lockVars
<1>2. wup[w] \in Uploads /\ uploadChunks[wup[w]].temp \in Paths /\ fpath[w] \in Paths
  BY <1>1 DEF Known, Shape, TypeOK, Sessions, Finishing, Exists
<1>3. TypeOK'
  BY <1>1, <1>2 DEF Shape, TypeOK
<1>4. Serving' /\ Sessions'
  BY <1>1, GoroutinesApart DEF Shape, TypeOK, Serving, Sessions, Exists
<1>5. Finishing'
  BY <1>1, <1>2 DEF Shape, TypeOK, Finishing, Exists
<1> QED BY <1>3, <1>4, <1>5 DEF Shape

\* What follows the checks, up to the rename.
LEMMA StatShape ==
  ASSUME Known, Shape, NEW w \in Workers, CommitStat(w) \/ CommitSync(w)
  PROVE  Shape'
<1>1. /\ \/ fin[w] = "stat" /\ fin' = [fin EXCEPT ![w] = "rename"]
         \/ fin[w] = "sync" /\ fin' = [fin EXCEPT ![w] = "delete"]
      /\ UNCHANGED <<pc, up, wpc, wup, fpath, req, step, fd, partPath, uploadChunks, partFiles,
                     partData, target, lock, writeLocks, held>>
  BY DEF CommitStat, CommitSync, Moves, lifecycleAll, streamFileVars, diskVars, lockVars
<1>3. TypeOK'
  BY <1>1 DEF Shape, TypeOK
<1>4. Serving' /\ Sessions'
  BY <1>1 DEF Shape, Serving, Sessions, Exists
<1>5. Finishing'
  BY <1>1 DEF Shape, TypeOK, Finishing, Exists
<1> QED BY <1>3, <1>4, <1>5 DEF Shape

\* The rename.
LEMMA RenameShape ==
  ASSUME Known, Shape, NEW w \in Workers, CommitRename(w)
  PROVE  Shape'
<1>1. /\ fin[w] = "rename" /\ fin' = [fin EXCEPT ![w] = "sync"]
      /\ target' = [target EXCEPT ![fpath[w]] = [from |-> wup[w], data |-> partData[PartOf(w)]]]
      /\ partFiles' = partFiles \ {PartOf(w)}
      /\ partData' = [partData EXCEPT ![PartOf(w)] = {}]
      /\ fd' = [s \in Streams |-> Follow(s, PartOf(w), fpath[w])]
      /\ UNCHANGED <<pc, up, wpc, wup, fpath, req, step, partPath, uploadChunks, lock,
                     writeLocks, held>>
  BY DEF CommitRename, Moves, lifecycleAll, lockVars
<1>2. wup[w] \in Uploads /\ fpath[w] \in Paths /\ partPath[w] \in Paths
  BY <1>1 DEF Known, Shape, Finishing
<1>3. PartOf(w) \in PartKeys
  BY <1>2, PartKeyTyped DEF PartOf
<1>4. fd' \in [Streams -> {"none", "part", "target", "gone"}]
  BY <1>1 DEF Follow, Shape, TypeOK
<1>5. TypeOK'
  BY <1>1, <1>2, <1>3, <1>4 DEF Shape, TypeOK
<1>6. Serving' /\ Sessions'
  BY <1>1 DEF Shape, Serving, Sessions, Exists
<1>7. Finishing'
  BY <1>1 DEF Shape, TypeOK, Finishing, Exists
<1> QED BY <1>5, <1>6, <1>7 DEF Shape

\* The end of a commit: its session goes.
LEMMA DeleteShape ==
  ASSUME Known, Shape, NEW w \in Workers, CommitDelete(w)
  PROVE  Shape'
<1>1. /\ fin[w] = "delete" /\ fin' = [fin EXCEPT ![w] = "unlock"]
      /\ uploadChunks' = [uploadChunks EXCEPT ![wup[w]] = NoSession]
      /\ UNCHANGED <<pc, up, wpc, wup, fpath, req, step, fd, partPath, partFiles, partData,
                     target, lock, writeLocks, held>>
  BY DEF CommitDelete, Moves, lifecycleAll, streamFileVars, diskVars, lockVars
<1>2. TypeOK'
  BY <1>1 DEF Shape, TypeOK, NoSession
<1>3. Serving' /\ Sessions'
  BY <1>1 DEF Shape, TypeOK, Serving, Sessions, Exists, NoSession
<1>4. Finishing'
  BY <1>1 DEF Shape, TypeOK, Finishing, Exists, NoSession
<1> QED BY <1>2, <1>3, <1>4 DEF Shape

\* A cancel removes a session, its part file or both.
LEMMA CancelShape ==
  ASSUME Known, Shape, NEW w \in Workers,
         CancelSession(w) \/ CancelWithoutSession(w) \/ CancelDerived(w)
  PROVE  Shape'
<1>1. UNCHANGED <<pc, up, wpc, wup, fpath, req, step, partPath, target, lock, writeLocks, held>>
  BY DEF CancelSession, CancelWithoutSession, CancelDerived, Moves, RemovePart, lifecycleAll,
         streamFileVars, diskVars, lockVars
<1>2. /\ partFiles' \subseteq partFiles
      /\ \/ UNCHANGED partData
         \/ \E k : partData' = [partData EXCEPT ![k] = {}]
      /\ \/ UNCHANGED fd
         \/ \E k : fd' = [s \in Streams |->
                            IF fd[s] = "part" /\ PartKey(up[s], partPath[s]) = k THEN "gone"
                                                                                ELSE fd[s]]
  BY DEF CancelSession, CancelWithoutSession, CancelDerived, RemovePart, streamFileVars, diskVars
<1>3. \/ UNCHANGED uploadChunks
      \/ uploadChunks' = [uploadChunks EXCEPT ![wup[w]] = NoSession]
  BY DEF CancelSession, CancelWithoutSession, CancelDerived
<1>4. /\ fin[w] # "none" /\ fin[w] # "getlock"
      /\ \/ fin' = [fin EXCEPT ![w] = "unlock"]
         \/ /\ fin' = [fin EXCEPT ![w] = "derive"]
            /\ w \in Cancels /\ fpath[w] # NoPath /\ ~Exists(wup[w]) /\ UNCHANGED uploadChunks
  BY DEF CancelSession, CancelWithoutSession, CancelDerived, Moves
<1>5. TypeOK'
  <2>1. partData' \in [PartKeys -> SUBSET Chunks]
    BY <1>2 DEF Shape, TypeOK
  <2>2. fd' \in [Streams -> {"none", "part", "target", "gone"}]
    BY <1>2 DEF Shape, TypeOK
  <2>3. uploadChunks' \in [Uploads -> [path : Paths \cup {NoPath}, temp : Paths \cup {NoPath},
                                       parts : SUBSET Chunks]]
    BY <1>3 DEF Shape, TypeOK, NoSession
  <2> QED BY <1>1, <1>2, <1>4, <2>1, <2>2, <2>3 DEF Shape, TypeOK
<1>6. Serving' /\ Sessions'
  BY <1>1, <1>3 DEF Shape, TypeOK, Serving, Sessions, Exists, NoSession
<1>7. Finishing'
  <2>1. \A u \in Uploads : Exists(u)' => Exists(u)
    BY <1>3 DEF Shape, TypeOK, Exists, NoSession
  <2>2. \A v \in Workers : fin'[v] = "derive" =>
          v \in Cancels /\ fpath[v] \in Paths /\ ~Exists(wup[v])
    BY <1>4 DEF Shape, TypeOK, Finishing
  <2>3. \A v \in Workers : v # w => fin'[v] = fin[v]
    BY <1>4 DEF Shape, TypeOK
  <2>4. fin[w] # "none" /\ fin[w] # "getlock" /\ fin'[w] \in {"unlock", "derive"}
    BY <1>4 DEF Shape, TypeOK
  <2>5. \A v \in Workers : fin[v] # "none" => wup[v] \in Uploads
    BY DEF Known, Shape, Finishing
  <2>6. \A v \in Workers : fin'[v] = "derive" => ~Exists(wup[v])'
    BY <1>1, <2>1, <2>2, <2>3, <2>4, <2>5
  <2> QED BY <1>1, <2>2, <2>3, <2>4, <2>6 DEF Shape, Finishing
<1> QED BY <1>5, <1>6, <1>7 DEF Shape

\* No step of a finalizer disturbs the first layer.
LEMMA WorkerShape ==
  ASSUME Known, Shape, NEW w \in Workers, WorkerNext(w)
  PROVE  Shape'
<1>1. CASE WaitParks(w) \/ WaitWakes(w) \/ \E s \in Streams : CallCancel(w, s)
  BY <1>1, UntouchingShape DEF Untouching
<1> QED BY <1>1, RequestShape, LockShape, CheckShape, StatShape, RenameShape, DeleteShape,
           CancelShape DEF WorkerNext, FinalizerStep

\* After a restart there are no sessions, streams and finalizers.
LEMMA RestartShape ==
  ASSUME Known, Shape, Restart
  PROVE  Shape'
<1>1. /\ req' = [s \in Streams |-> NoRequest]
      /\ step' = [s \in Streams |-> "request"]
      /\ fd' = [s \in Streams |-> "none"]
      /\ partPath' = [g \in Streams \cup Workers |-> NoPath]
      /\ uploadChunks' = [u \in Uploads |-> NoSession]
      /\ fin' = [w \in Workers |-> "none"]
      /\ fpath' = [w \in Workers |-> NoPath]
      /\ lock' = [w \in Workers |-> NoLock]
      /\ writeLocks' = [u \in Uploads |-> NoLock]
      /\ held' = {}
      /\ UNCHANGED <<partFiles, partData, target>>
      /\ pc' = [s \in Streams |-> "idle"]
  BY DEF Restart, Registry!Restart, diskVars
<1>2. TypeOK'
  BY <1>1 DEF Shape, TypeOK, NoSession
<1>3. Serving' /\ Sessions' /\ Finishing'
  BY <1>1 DEF Serving, Sessions, Finishing, Exists, NoSession
<1> QED BY <1>2, <1>3 DEF Shape

\* The first layer holds at the start.
LEMMA ShapeInit == Init => Shape
<1> SUFFICES ASSUME Init PROVE Shape
  OBVIOUS
<1>1. TypeOK
  BY DEF Init, TypeOK, NoSession, Untouched
<1>2. Serving /\ Sessions /\ Finishing
  BY DEF Init, Registry!Init, Serving, Sessions, Finishing, Exists, NoSession
<1> QED BY <1>1, <1>2 DEF Shape

\* Every step keeps it.
LEMMA ShapeStep == Known /\ Shape /\ [Next]_vars => Shape'
<1> SUFFICES ASSUME Known, Shape, [Next]_vars PROVE Shape'
  OBVIOUS
<1>1. CASE \/ \E d \in Downloads : DownloadNext(d)
           \/ \E u \in Uploads : TombstoneExpires(u)
           \/ UNCHANGED vars
  BY <1>1, UntouchingShape DEF Untouching
<1> QED BY <1>1, StreamShape, WorkerShape, RestartShape DEF Next

\* The first layer holds of every controller.
LEMMA ShapeCorrect == Spec => []Shape
BY ShapeInit, ShapeStep, KnownCorrect, PTL DEF Spec

\* Every variable of the transfers keeps its type.
THEOREM TypeCorrect == Spec => []TypeOK
<1>1. Shape => TypeOK
  BY DEF Shape
<1> QED BY <1>1, ShapeCorrect, PTL

(***************************************************************************)
(* A cancelled upload: nothing of it comes back.                           *)
(***************************************************************************)

\* Streams of other uploads than u change nothing of u.
Elsewhere(u) ==
  /\ \A s \in Streams : pc'[s] # "idle" => up'[s] # u
  /\ \A p \in Paths : PartKey(u, p) \in partFiles' => PartKey(u, p) \in partFiles
  /\ uploadChunks'[u] \in {uploadChunks[u], NoSession}

\* A stream begins: of a cancelled upload only by making the tombstone go.
LEMMA BeginElsewhere ==
  ASSUME Known, Shape, NEW u \in Uploads, Registry!Canceled(u), Registry!Canceled(u)',
         Registry!Registered(u) = {}, NEW s \in Streams, NEW v \in Uploads, BeginStream(s, v)
  PROVE  Elsewhere(u)
<1>1. /\ pc' = [pc EXCEPT ![s] = "slot"] /\ up' = [up EXCEPT ![s] = v]
      /\ UNCHANGED <<partFiles, uploadChunks>>
      /\ Registry!Pruned[v].canceled = "no"
  BY DEF BeginStream, Registry!BeginUploadStream, diskVars
<1>2. PICK c \in Channels :
        uploadLifecycles' = [Registry!Pruned EXCEPT ![v] = Registry!Begun(Registry!Pruned[v], s, c)]
  BY DEF BeginStream, Registry!BeginUploadStream
<1>3. u # v
  <2> SUFFICES ASSUME u = v PROVE FALSE
    OBVIOUS
  <2>1. uploadLifecycles'[u] = Registry!Begun(Registry!Pruned[v], s, c)
    BY <1>2 DEF Registry!Pruned
  <2>2. uploadLifecycles'[u].canceled = "no"
    BY <1>1, <2>1 DEF Registry!Begun
  <2> QED BY <2>2 DEF Registry!Canceled
<1>4. \A r \in Streams : pc[r] # "idle" => up[r] # u
  BY DEF Registry!Registered
<1> QED BY <1>1, <1>3, <1>4 DEF Elsewhere, Known

\* Every other step of a stream is one of another upload.
LEMMA StreamElsewhere ==
  ASSUME Known, Shape, NEW u \in Uploads, Registry!Registered(u) = {}, NEW s \in Streams,
         StreamStep(s)
  PROVE  Elsewhere(u)
<1>1. pc[s] # "idle"
  BY DEF StreamStep, AbandonSlot, ReleaseSlot, EndStream, StreamFails, CreateSession,
         CreateSessionFails, JoinSession, OpenPart, WriteChunk, WriteFails, RecordChunk,
         LeaveTransfer, Registry!AbandonSlot, Registry!ReleaseSlot, Registry!EndUploadStream,
         Registry!LeaveTransfer, Shape, Serving
<1>2. up[s] # u /\ up[s] \in Uploads
  BY <1>1 DEF Registry!Registered, Known
<1>3. \A r \in Streams : pc[r] # "idle" => up[r] # u
  BY DEF Registry!Registered
<1>4. \A r \in Streams : pc'[r] # "idle" => up'[r] # u
  <2>1. CASE AbandonSlot(s) \/ ReleaseSlot(s)
    BY <1>1, <1>3, <2>1 DEF Known, AbandonSlot, ReleaseSlot, Registry!AbandonSlot,
       Registry!ReleaseSlot
  <2>2. CASE EndStream(s)
    BY <1>3, <2>2 DEF Known, EndStream, Registry!EndUploadStream
  <2>3. CASE StreamFails(s) \/ CreateSessionFails(s) \/ WriteFails(s) \/ RecordChunk(s)
    <3>1. LeaveTransfer(s)
      BY <2>3 DEF StreamFails, CreateSessionFails, WriteFails, RecordChunk
    <3> QED BY <1>3, <3>1, Leaves DEF Known, Shape
  <2>4. CASE CreateSession(s) \/ JoinSession(s) \/ OpenPart(s) \/ WriteChunk(s)
    BY <1>3, <2>4 DEF CreateSession, JoinSession, OpenPart, WriteChunk, lifecycleAll
  <2> QED BY <2>1, <2>2, <2>3, <2>4 DEF StreamStep
<1>5. \A p \in Paths : PartKey(u, p) \in partFiles' => PartKey(u, p) \in partFiles
  BY <1>2 DEF StreamStep, AbandonSlot, ReleaseSlot, EndStream, StreamFails, CreateSession,
     CreateSessionFails, JoinSession, OpenPart, WriteChunk, WriteFails, RecordChunk, ChunkLands,
     fileVars, diskVars, PartKey
<1>6. uploadChunks'[u] = uploadChunks[u]
  BY <1>2 DEF StreamStep, AbandonSlot, ReleaseSlot, EndStream, StreamFails, CreateSession,
     CreateSessionFails, JoinSession, OpenPart, WriteChunk, WriteFails, RecordChunk, fileVars,
     Shape, TypeOK
<1> QED BY <1>4, <1>5, <1>6 DEF Elsewhere

\* A finalizer makes no stream, part file or session.
LEMMA WorkerElsewhere ==
  ASSUME Known, Shape, NEW u \in Uploads, Registry!Registered(u) = {}, NEW w \in Workers,
         WorkerNext(w)
  PROVE  Elsewhere(u)
<1>1. UNCHANGED <<pc, up>>
  BY DEF WorkerNext, FinalizerStep, StartCommit, StartCancel, CallCancel, Lock, WaitPasses,
     WaitParks, WaitWakes, GetLock, Unlock, ForgetLock, FinalizerFails, CommitCheck, CommitStat,
     CommitRename, CommitSync, CommitDelete, CancelSession, CancelWithoutSession, CancelDerived,
     Moves, lifecycleAll, Registry!StartCommit, Registry!MarkCanceled, Registry!CallCancel,
     Registry!WaitPasses, Registry!WaitParks, Registry!WaitWakes, Registry!FinalizerReturns,
     Registry!streamVars
<1>2. partFiles' \subseteq partFiles
  BY DEF WorkerNext, FinalizerStep, StartCommit, StartCancel, CallCancel, Lock, WaitPasses,
     WaitParks, WaitWakes, GetLock, Unlock, ForgetLock, FinalizerFails, CommitCheck, CommitStat,
     CommitRename, CommitSync, CommitDelete, CancelSession, CancelWithoutSession, CancelDerived,
     RemovePart, fileVars, diskVars
<1>3. \/ UNCHANGED uploadChunks
      \/ uploadChunks' = [uploadChunks EXCEPT ![wup[w]] = NoSession]
  BY DEF WorkerNext, FinalizerStep, StartCommit, StartCancel, CallCancel, Lock, WaitPasses,
     WaitParks, WaitWakes, GetLock, Unlock, ForgetLock, FinalizerFails, CommitCheck, CommitStat,
     CommitRename, CommitSync, CommitDelete, CancelSession, CancelWithoutSession, CancelDerived,
     fileVars
<1> QED BY <1>1, <1>2, <1>3 DEF Elsewhere, Registry!Registered, Shape, TypeOK

\* No step of the program brings anything of a cancelled upload back.
LEMMA CanceledStep ==
  ASSUME Known, Shape, NEW u \in Uploads, Registry!Canceled(u), Registry!Canceled(u)',
         Registry!Registered(u) = {}, [Next]_vars
  PROVE  Elsewhere(u)
<1>1. \A r \in Streams : pc[r] # "idle" => up[r] # u
  BY DEF Registry!Registered
<1>2. CASE Untouching
  BY <1>1, <1>2, UntouchingKeeps DEF Elsewhere, fileVars
<1>3. CASE Restart
  BY <1>3 DEF Restart, Registry!Restart, diskVars, Elsewhere
<1>4. CASE \E s \in Streams : StreamNext(s)
  <2>1. ASSUME NEW s \in Streams, AcquireSlot(s) \/ \E v \in Uploads : RefuseStream(s, v)
        PROVE  Untouching
    BY <2>1 DEF Untouching
  <2> QED BY <1>2, <1>4, <2>1, BeginElsewhere, StreamElsewhere DEF StreamNext
<1>5. CASE \E w \in Workers : WorkerNext(w)
  BY <1>5, WorkerElsewhere
<1>6. CASE \/ \E d \in Downloads : DownloadNext(d)
           \/ \E v \in Uploads : TombstoneExpires(v)
           \/ UNCHANGED vars
  BY <1>2, <1>6 DEF Untouching
<1> QED BY <1>3, <1>4, <1>5, <1>6 DEF Next

\* While a tombstone stands and no stream of its upload is left, none begins, and
\* no part file, session or received chunk of the upload appears.
THEOREM CanceledCorrect == Spec => CanceledNeverRegrows
<1>1. Known /\ Shape /\ [Next]_vars =>
        [\A u \in Uploads :
           (/\ Registry!Canceled(u)
            /\ Registry!Canceled(u)'
            /\ Registry!Registered(u) = {})
           => /\ Registry!Registered(u)' = {}
              /\ \A p \in Paths : PartKey(u, p) \in partFiles' => PartKey(u, p) \in partFiles
              /\ uploadChunks'[u] \in {uploadChunks[u], NoSession}]_vars
  BY CanceledStep DEF Elsewhere, Registry!Registered
<1> QED BY <1>1, KnownCorrect, ShapeCorrect, PTL DEF Spec, CanceledNeverRegrows

(***************************************************************************)
(* Second layer: the controller sends no stream of an upload it commits.   *)
(***************************************************************************)

\* A stream that runs is not of an upload a finalizer works on.
LEMMA Apart ==
  ASSUME Alone, NEW w \in Workers, wpc[w] = "passed", NEW s \in Streams, pc[s] # "idle"
  PROVE  up[s] # wup[w]
BY DEF Alone, Registry!Registered

\* Steps that start no stream and let no finalizer pass leave the working ones alone.
LEMMA AloneKept ==
  ASSUME Alone,
         \A s \in Streams : pc'[s] # "idle" => pc[s] # "idle" /\ up'[s] = up[s],
         \A w \in Workers : wpc'[w] = "passed" => wpc[w] = "passed" /\ wup'[w] = wup[w]
  PROVE  Alone'
BY DEF Alone, Registry!Registered

\* Steps that touch nothing keep the second layer.
LEMMA UntouchingExclusive ==
  ASSUME Known, Exclusive, Untouching
  PROVE  Exclusive'
<1>1. Alone'
  BY UntouchingKeeps, AloneKept DEF Exclusive
<1>2. Descriptors' /\ Joined' /\ SameTarget'
  BY UntouchingKeeps DEF Exclusive, fileVars, Descriptors, Joined, SameTarget, Exists
<1> QED BY <1>1, <1>2 DEF Exclusive

\* No stream begins of an upload a commit or a cancel works on.
LEMMA BeginExclusive ==
  ASSUME ~OverlapCommit, Known, Known', Shape, Exclusive, NEW s \in Streams, NEW u \in Uploads,
         BeginStream(s, u)
  PROVE  Exclusive'
<1>1. /\ pc[s] = "idle" /\ pc' = [pc EXCEPT ![s] = "slot"] /\ up' = [up EXCEPT ![s] = u]
      /\ UNCHANGED <<step, fd, partPath, uploadChunks, fin, fpath, wpc, wup>>
      /\ Registry!BusyOn(u) \cap Commits = {}
  BY DEF BeginStream, MaySend, Registry!BeginUploadStream, Registry!workerVars, finalizerVars
<1>2. Alone'
  <2> SUFFICES ASSUME NEW w \in Workers, wpc'[w] = "passed" PROVE Registry!Registered(wup[w])' = {}
    BY <1>1 DEF Alone, Registry!Registered
  <2>1. CASE w \in Cancels
    BY <2>1 DEF Known
  <2>2. CASE w \in Commits
    <3>1. wup[w] # u /\ wpc[w] = "passed"
      BY <1>1, <2>2 DEF Registry!BusyOn, Registry!Workers
    <3> QED BY <1>1, <3>1 DEF Known, Exclusive, Alone, Registry!Registered
  <2> QED BY <2>1, <2>2 DEF Workers
<1>3. Descriptors' /\ Joined' /\ SameTarget'
  BY <1>1 DEF Known, Shape, Serving, Exclusive, Descriptors, Joined, SameTarget, Exists
<1> QED BY <1>2, <1>3 DEF Exclusive

\* The end of a stream leaves fewer.
LEMMA EndExclusive ==
  ASSUME Known, Shape, Exclusive, NEW s \in Streams, EndStream(s)
  PROVE  Exclusive'
<1>1. /\ pc[s] = "end" /\ pc' = [pc EXCEPT ![s] = "idle"] /\ up' = [up EXCEPT ![s] = NoUpload]
      /\ UNCHANGED <<step, fd, partPath, uploadChunks, fin, fpath, wpc, wup>>
  BY DEF EndStream, Registry!EndUploadStream, finalizerVars
<1>2. Alone'
  BY <1>1, AloneKept DEF Known, Exclusive
<1>3. Descriptors' /\ Joined' /\ SameTarget'
  BY <1>1 DEF Known, Shape, Serving, Exclusive, Descriptors, Joined, SameTarget, Exists
<1> QED BY <1>2, <1>3 DEF Exclusive

\* A stream that counts its chunk leaves path and part file of the session alone.
LEMMA RecordKeeps ==
  ASSUME Known, Shape, Exclusive, NEW s \in Streams, RecordChunk(s)
  PROVE  /\ Exists(up[s]) /\ up[s] \in Uploads
         /\ uploadChunks' = [uploadChunks EXCEPT ![up[s]] =
              [path |-> uploadChunks[up[s]].path, temp |-> uploadChunks[up[s]].temp,
               parts |-> uploadChunks[up[s]].parts \cup {req[s].chunk}]]
         /\ UNCHANGED <<partFiles, partData, target>>
<1>1. step[s] = "record" /\ UNCHANGED <<partFiles, partData, target>>
  BY DEF RecordChunk, diskVars
<1>2. up[s] \in Uploads /\ Exists(up[s]) /\ partPath[s] = uploadChunks[up[s]].temp
  BY <1>1 DEF Known, Shape, Serving, Exclusive, Joined
<1> QED BY <1>1, <1>2 DEF RecordChunk

\* A stream closes its file when it leaves; the sessions keep theirs.
LEMMA LeavesExclusive ==
  ASSUME Known, Shape, Exclusive, NEW s \in Streams, LeaveTransfer(s),
         \A u \in Uploads : /\ uploadChunks'[u].path = uploadChunks[u].path
                            /\ uploadChunks'[u].temp = uploadChunks[u].temp
  PROVE  Exclusive'
<1>1. /\ pc[s] = "http" /\ pc' = [pc EXCEPT ![s] = "release"]
      /\ step' = [step EXCEPT ![s] = "request"]
      /\ fd' = [fd EXCEPT ![s] = "none"]
      /\ partPath' = [partPath EXCEPT ![s] = NoPath]
      /\ UNCHANGED <<up, wpc, wup, fin, fpath>>
  BY Leaves DEF Shape
<1>2. Alone'
  BY <1>1, AloneKept DEF Known, Exclusive
<1>3. Descriptors'
  BY <1>1 DEF Shape, TypeOK, Exclusive, Descriptors
<1>4. Joined'
  BY <1>1 DEF Known, Shape, TypeOK, Serving, Exclusive, Joined, Exists
<1>5. SameTarget'
  BY <1>1, GoroutinesApart DEF Shape, TypeOK, Exclusive, SameTarget
<1> QED BY <1>2, <1>3, <1>4, <1>5 DEF Exclusive

\* Every way to leave keeps the second layer.
LEMMA LeaversExclusive ==
  ASSUME Known, Shape, Exclusive, NEW s \in Streams,
         StreamFails(s) \/ CreateSessionFails(s) \/ WriteFails(s) \/ RecordChunk(s)
  PROVE  Exclusive'
<1>1. LeaveTransfer(s)
  BY DEF StreamFails, CreateSessionFails, WriteFails, RecordChunk
<1>2. CASE StreamFails(s) \/ CreateSessionFails(s) \/ WriteFails(s)
  <2>1. UNCHANGED uploadChunks
    BY <1>2 DEF StreamFails, CreateSessionFails, WriteFails
  <2> QED BY <1>1, <2>1, LeavesExclusive
<1>3. CASE RecordChunk(s)
  <2>1. \A u \in Uploads : /\ uploadChunks'[u].path = uploadChunks[u].path
                           /\ uploadChunks'[u].temp = uploadChunks[u].temp
    <3> DEFINE old == uploadChunks[up[s]]
    <3>1. /\ up[s] \in Uploads
          /\ uploadChunks' = [uploadChunks EXCEPT ![up[s]] =
               [path |-> old.path, temp |-> old.temp, parts |-> old.parts \cup {req[s].chunk}]]
      BY <1>3, RecordKeeps
    <3> HIDE DEF old
    <3>2. uploadChunks'[up[s]].path = old.path /\ uploadChunks'[up[s]].temp = old.temp
      BY <3>1 DEF Shape, TypeOK
    <3>3. \A u \in Uploads : u # up[s] => uploadChunks'[u] = uploadChunks[u]
      BY <3>1 DEF Shape, TypeOK
    <3> QED BY <3>2, <3>3 DEF old
  <2> QED BY <1>1, <2>1, LeavesExclusive
<1> QED BY <1>2, <1>3

\* A stream inside its transfer.
LEMMA GoersExclusive ==
  ASSUME Known, Shape, Exclusive, NEW s \in Streams,
         CreateSession(s) \/ JoinSession(s) \/ OpenPart(s) \/ WriteChunk(s)
  PROVE  Exclusive'
<1>1. /\ pc[s] = "http" /\ up[s] \in Uploads /\ req[s].path \in Paths
      /\ UNCHANGED <<pc, up, wpc, wup, fin, fpath>>
  BY DEF CreateSession, JoinSession, OpenPart, WriteChunk, lifecycleAll, finalizerVars, Known,
     Shape, Serving, Request
<1>2. Alone'
  BY <1>1, AloneKept DEF Exclusive
<1>3. CASE CreateSession(s)
  <2>1. /\ ~Exists(up[s]) /\ step[s] = "request"
        /\ uploadChunks' = [uploadChunks EXCEPT ![up[s]] = NewSession(req[s].path)]
        /\ partPath' = [partPath EXCEPT ![s] = req[s].path]
        /\ step' = [step EXCEPT ![s] = "open"]
        /\ UNCHANGED fd
    BY <1>3 DEF CreateSession
  <2>2. Descriptors'
    BY <2>1 DEF Shape, TypeOK, Exclusive, Descriptors
  <2>3. \A u \in Uploads : u # up[s] => uploadChunks'[u] = uploadChunks[u]
    BY <2>1 DEF Shape, TypeOK
  <2>4. uploadChunks'[up[s]].path = req[s].path /\ uploadChunks'[up[s]].temp = req[s].path
    BY <1>1, <2>1 DEF Shape, TypeOK, NewSession
  <2>5. \A r \in Streams : r # s /\ step[r] # "request" => up[r] \in Uploads /\ up[r] # up[s]
    BY <2>1 DEF Known, Shape, Serving, Exclusive, Joined
  <2>6. \A r \in Streams : step'[r] # "request" =>
          Exists(up[r])' /\ partPath'[r] = uploadChunks'[up[r]].temp
    BY <1>1, <2>1, <2>3, <2>4, <2>5, FileSentinels
    DEF Shape, TypeOK, Exclusive, Joined, Exists
  <2>7. \A u \in Uploads : Exists(u)' => uploadChunks'[u].temp = uploadChunks'[u].path
    BY <1>1, <2>3, <2>4 DEF Exclusive, Joined, Exists
  <2>8. SameTarget'
    BY <1>1, <2>1, GoroutinesApart DEF Shape, TypeOK, Exclusive, SameTarget
  <2> QED BY <1>1, <1>2, <2>2, <2>6, <2>7, <2>8 DEF Exclusive, Joined
<1>4. CASE JoinSession(s)
  <2>1. /\ Exists(up[s]) /\ step[s] = "request"
        /\ partPath' = [partPath EXCEPT ![s] = uploadChunks[up[s]].temp]
        /\ step' = [step EXCEPT ![s] = "open"]
        /\ UNCHANGED <<fd, uploadChunks>>
    BY <1>4 DEF JoinSession
  <2>2. Descriptors'
    BY <2>1 DEF Shape, TypeOK, Exclusive, Descriptors
  <2>3. Joined'
    BY <1>1, <2>1 DEF Shape, TypeOK, Exclusive, Joined, Exists
  <2>4. SameTarget'
    BY <1>1, <2>1, GoroutinesApart DEF Shape, TypeOK, Exclusive, SameTarget
  <2> QED BY <1>2, <2>2, <2>3, <2>4 DEF Exclusive
<1>5. CASE OpenPart(s) \/ WriteChunk(s)
  <2>1. /\ UNCHANGED <<partPath, uploadChunks>> /\ step[s] # "request"
        /\ \/ /\ fd' = [fd EXCEPT ![s] = "part"]
              /\ step' = [step EXCEPT ![s] = "write"]
           \/ /\ fd' = [fd EXCEPT ![s] = "none"]
              /\ step' = [step EXCEPT ![s] = "record"]
    BY <1>5 DEF OpenPart, WriteChunk
  <2>2. Descriptors'
    BY <2>1 DEF Shape, TypeOK, Exclusive, Descriptors
  <2>3. Joined' /\ SameTarget'
    BY <1>1, <2>1 DEF Shape, TypeOK, Exclusive, Joined, Exists, SameTarget
  <2> QED BY <1>2, <2>2, <2>3 DEF Exclusive
<1> QED BY <1>3, <1>4, <1>5

\* Finalizers that touch no session, part file or target.
LEMMA RequestExclusive ==
  ASSUME Known, Shape, Exclusive, NEW w \in Workers,
         \/ \E u \in Uploads : StartCommit(w, u) \/ StartCancel(w, u)
         \/ WaitPasses(w)
         \/ ForgetLock(w)
  PROVE  Exclusive'
<1>1. UNCHANGED <<pc, up, step, fd, uploadChunks>>
  BY DEF StartCommit, StartCancel, WaitPasses, ForgetLock, streamFileVars,
         Registry!StartCommit, Registry!MarkCanceled, Registry!WaitPasses,
         Registry!FinalizerReturns, Registry!streamVars
<1>2. \A g \in Streams \cup Workers : g # w => partPath'[g] = partPath[g]
  BY DEF StartCommit, StartCancel, WaitPasses, ForgetLock, Shape, TypeOK
<1>3. \A v \in Workers : v # w => /\ fin'[v] = fin[v] /\ fpath'[v] = fpath[v]
                                  /\ wpc'[v] = wpc[v] /\ wup'[v] = wup[v]
  BY DEF StartCommit, StartCancel, WaitPasses, ForgetLock, Shape, TypeOK, Known,
         Registry!StartCommit, Registry!MarkCanceled, Registry!WaitPasses,
         Registry!FinalizerReturns
<1>4. fin'[w] \notin {"stat", "rename"}
  BY DEF StartCommit, StartCancel, WaitPasses, ForgetLock, Shape, TypeOK, Finishing,
         Registry!StartCommit, Registry!MarkCanceled
<1>5. wpc'[w] = "passed" => Registry!Registered(wup'[w]) = {}
  <2>1. CASE \E u \in Uploads : StartCommit(w, u) \/ StartCancel(w, u)
    BY <2>1 DEF StartCommit, StartCancel, Known, Registry!StartCommit, Registry!MarkCanceled
  <2>2. CASE WaitPasses(w)
    BY <2>2 DEF WaitPasses, Known, Registry!WaitPasses
  <2>3. CASE ForgetLock(w)
    BY <2>3 DEF ForgetLock, Known, Registry!FinalizerReturns
  <2> QED BY <2>1, <2>2, <2>3
<1>6. Alone'
  BY <1>1, <1>3, <1>5 DEF Exclusive, Alone, Registry!Registered
<1>7. Descriptors' /\ Joined'
  BY <1>1, <1>2, GoroutinesApart DEF Exclusive, Descriptors, Joined, Exists
<1>8. SameTarget'
  BY <1>2, <1>3, <1>4 DEF Exclusive, SameTarget
<1> QED BY <1>6, <1>7, <1>8 DEF Exclusive

\* A finalizer that moves on under the lock, before or after the rename.
LEMMA MovesExclusive ==
  ASSUME Known, Shape, Exclusive, NEW w \in Workers,
         \/ GetLock(w) \/ Lock(w) \/ Unlock(w) \/ FinalizerFails(w)
         \/ CommitCheck(w) \/ CommitStat(w) \/ CommitSync(w) \/ CancelWithoutSession(w)
  PROVE  Exclusive'
<1>1. UNCHANGED <<pc, up, wpc, wup, fpath, step, fd, uploadChunks>>
  BY DEF GetLock, Lock, Unlock, FinalizerFails, CommitCheck, CommitStat, CommitSync,
         CancelWithoutSession, Moves, lifecycleAll, streamFileVars
<1>2. \A v \in Workers : v # w => fin'[v] = fin[v]
  BY DEF GetLock, Lock, Unlock, FinalizerFails, CommitCheck, CommitStat, CommitSync,
         CancelWithoutSession, Moves, Shape, TypeOK
<1>3. Alone'
  BY <1>1, AloneKept DEF Exclusive
<1>4. \A g \in Streams \cup Workers : g # w => partPath'[g] = partPath[g]
  BY DEF GetLock, Lock, Unlock, FinalizerFails, CommitCheck, CommitStat, CommitSync,
         CancelWithoutSession, Shape, TypeOK
<1>5. Descriptors' /\ Joined'
  BY <1>1, <1>4, GoroutinesApart DEF Exclusive, Descriptors, Joined, Exists
<1>6. fin'[w] \in {"stat", "rename"} => partPath'[w] = fpath[w]
  <2>1. CASE CommitCheck(w)
    <3>1. /\ Exists(wup[w]) /\ uploadChunks[wup[w]].path = fpath[w] /\ wup[w] \in Uploads
          /\ partPath' = [partPath EXCEPT ![w] = uploadChunks[wup[w]].temp]
      BY <2>1 DEF CommitCheck, Committable, Moves, Known, Shape, Finishing
    <3> QED BY <3>1 DEF Exclusive, Joined, Shape, TypeOK
  <2>2. CASE CommitStat(w)
    BY <2>2 DEF CommitStat, Moves, Exclusive, SameTarget
  <2>3. CASE GetLock(w) \/ Lock(w) \/ Unlock(w) \/ FinalizerFails(w) \/ CommitSync(w)
             \/ CancelWithoutSession(w)
    BY <2>3 DEF GetLock, Lock, Unlock, FinalizerFails, CommitSync, CancelWithoutSession, Moves,
       Shape, TypeOK
  <2> QED BY <2>1, <2>2, <2>3
<1>7. SameTarget'
  BY <1>1, <1>2, <1>4, <1>6 DEF Exclusive, SameTarget
<1> QED BY <1>3, <1>5, <1>7 DEF Exclusive

\* A finalizer that removes or renames a part file, or deletes a session, of its upload.
LEMMA RemovesExclusive ==
  ASSUME Known, Shape, Exclusive, NEW w \in Workers,
         CommitRename(w) \/ CommitDelete(w) \/ CancelSession(w) \/ CancelDerived(w)
  PROVE  Exclusive'
<1>1. /\ wpc[w] = "passed" /\ wup[w] \in Uploads
      /\ UNCHANGED <<pc, up, wpc, wup, fpath, step, partPath>>
  BY DEF CommitRename, CommitDelete, CancelSession, CancelDerived, RemovePart, Moves,
         lifecycleAll, streamFileVars, Known, Shape, Finishing
<1>2. fin'[w] \notin {"stat", "rename"} /\ \A v \in Workers : v # w => fin'[v] = fin[v]
  BY DEF CommitRename, CommitDelete, CancelSession, CancelDerived, Moves, Shape, TypeOK
<1>3. \A u \in Uploads : u # wup[w] => uploadChunks'[u] = uploadChunks[u]
  BY DEF CommitRename, CommitDelete, CancelSession, CancelDerived, Shape, TypeOK
<1>4. uploadChunks'[wup[w]] \in {uploadChunks[wup[w]], NoSession}
  BY <1>1 DEF CommitRename, CommitDelete, CancelSession, CancelDerived, Shape, TypeOK
<1>5. \A s \in Streams : step[s] # "request" => up[s] \in Uploads /\ up[s] # wup[w]
  BY <1>1, Apart DEF Known, Shape, Serving, Exclusive
<1>6. \A s \in Streams : fd'[s] = fd[s]
  <2> SUFFICES ASSUME NEW s \in Streams PROVE fd'[s] = fd[s]
    OBVIOUS
  <2>1. fd[s] # "target" /\ (fd[s] = "part" => up[s] # wup[w])
    BY <1>5 DEF Exclusive, Descriptors
  <2> QED BY <2>1 DEF CommitRename, CommitDelete, CancelSession, CancelDerived, RemovePart,
                      streamFileVars, Follow, PartOf, PartKey
<1>7. Alone'
  BY <1>1, AloneKept DEF Exclusive
<1>8. Descriptors' /\ SameTarget'
  BY <1>1, <1>2, <1>6 DEF Exclusive, Descriptors, SameTarget
<1>9. Joined'
  BY <1>1, <1>3, <1>4, <1>5 DEF Exclusive, Joined, Exists, NoSession
<1> QED BY <1>7, <1>8, <1>9 DEF Exclusive

\* After a restart nobody works.
LEMMA RestartExclusive ==
  ASSUME Restart
  PROVE  Exclusive'
<1>1. /\ \A s \in Streams : step'[s] = "request" /\ fd'[s] = "none"
      /\ \A w \in Workers : fin'[w] = "none" /\ wpc'[w] = "idle"
      /\ \A u \in Uploads : uploadChunks'[u].path = NoPath
  BY DEF Restart, Registry!Restart, Registry!Workers, Workers, NoSession
<1> QED BY <1>1 DEF Exclusive, Alone, Descriptors, Joined, SameTarget, Exists

\* At the start nobody works.
LEMMA ExclusiveInit == Init => Exclusive
<1> SUFFICES ASSUME Init PROVE Exclusive
  OBVIOUS
<1>1. /\ \A s \in Streams : step[s] = "request" /\ fd[s] = "none"
      /\ \A w \in Workers : fin[w] = "none" /\ wpc[w] = "idle"
      /\ \A u \in Uploads : uploadChunks[u].path = NoPath
  BY DEF Init, Registry!Init, Registry!Workers, Workers, NoSession
<1> QED BY <1>1 DEF Exclusive, Alone, Descriptors, Joined, SameTarget, Exists

\* No step disturbs the second layer.
LEMMA ExclusiveStep ==
  ASSUME ~OverlapCommit, Known, Known', Shape, Exclusive, [Next]_vars
  PROVE  Exclusive'
<1>1. ASSUME NEW s \in Streams, StreamNext(s) PROVE Exclusive'
  <2>1. CASE \/ AcquireSlot(s) \/ AbandonSlot(s) \/ ReleaseSlot(s)
             \/ \E u \in Uploads : RefuseStream(s, u)
    BY <2>1, UntouchingExclusive DEF Untouching
  <2> QED BY <1>1, <2>1, BeginExclusive, EndExclusive, LeaversExclusive, GoersExclusive
          DEF StreamNext, StreamStep
<1>2. ASSUME NEW w \in Workers, WorkerNext(w) PROVE Exclusive'
  <2>1. CASE WaitParks(w) \/ WaitWakes(w) \/ \E s \in Streams : CallCancel(w, s)
    BY <2>1, UntouchingExclusive DEF Untouching
  <2> QED BY <1>2, <2>1, RequestExclusive, MovesExclusive, RemovesExclusive
          DEF WorkerNext, FinalizerStep
<1>3. CASE \/ \E d \in Downloads : DownloadNext(d)
           \/ \E u \in Uploads : TombstoneExpires(u)
           \/ UNCHANGED vars
  BY <1>3, UntouchingExclusive DEF Untouching
<1> QED BY <1>1, <1>2, <1>3, RestartExclusive DEF Next

\* The second layer holds when commits and streams do not overlap.
LEMMA ExclusiveCorrect == ASSUME ~OverlapCommit PROVE Spec => []Exclusive
<1>1. Known /\ Known' /\ Shape /\ Exclusive /\ [Next]_vars => Exclusive'
  BY ExclusiveStep
<1> QED BY <1>1, ExclusiveInit, KnownCorrect, ShapeCorrect, PTL DEF Spec

\* While the controller sends no stream of an upload it commits, no stream ever
\* holds a descriptor of a published file or of a file without a name.
THEOREM WriterCorrect == ASSUME ~OverlapCommit PROVE Spec => []NoWriterOnTarget
<1>1. Exclusive => NoWriterOnTarget
  BY DEF Exclusive, Descriptors, NoWriterOnTarget
<1> QED BY <1>1, ExclusiveCorrect, PTL

(***************************************************************************)
(* Third layer: no chunk that is counted is lost.                          *)
(***************************************************************************)

\* The part files of the other uploads are as they were.
DiskElsewhere(u) ==
  \A v \in Uploads, p \in Paths : v # u =>
    /\ PartKey(v, p) \in partFiles' <=> PartKey(v, p) \in partFiles
    /\ partData'[PartKey(v, p)] = partData[PartKey(v, p)]

\* The part file of a commit near the rename is one of its upload.
LEMMA PartOfTyped ==
  ASSUME Known, Shape, NEW w \in Workers, fin[w] \in {"stat", "rename"}
  PROVE  /\ wpc[w] = "passed" /\ wup[w] \in Uploads /\ partPath[w] \in Paths
         /\ PartOf(w) = PartKey(wup[w], partPath[w])
BY DEF Known, Shape, Finishing, PartOf

\* A step inside the transfer of stream s, for upload u.
StreamOf(s, u) ==
  /\ pc[s] # "idle" /\ up[s] = u
  /\ UNCHANGED <<up, fin, wup, target, req>>
  /\ \A w \in Workers : partPath'[w] = partPath[w]
  /\ \A r \in Streams : r # s => step'[r] = step[r] /\ partPath'[r] = partPath[r]
  /\ \A v \in Uploads : v # u => uploadChunks'[v] = uploadChunks[v]
  /\ DiskElsewhere(u)

\* It leaves the commits alone, and the sessions of other uploads.
LEMMA StreamComplete ==
  ASSUME Known, Shape, Exclusive, Complete, NEW s \in Streams, NEW u \in Uploads, StreamOf(s, u),
         ~DirSyncMayFail => StagedOf(u)', Recorded'
  PROVE  Complete'
<1>1. Whole'
  <2> SUFFICES ASSUME NEW w \in Workers, fin[w] \in {"stat", "rename"}
               PROVE  /\ PartOf(w)' = PartOf(w)
                      /\ PartOf(w) \in partFiles' <=> PartOf(w) \in partFiles
                      /\ partData'[PartOf(w)] = partData[PartOf(w)]
    BY DEF StreamOf, Complete, Whole
  <2>1. wup[w] # u
    BY PartOfTyped, Apart DEF StreamOf, Exclusive
  <2> QED BY <2>1, PartOfTyped DEF StreamOf, DiskElsewhere, PartOf
<1>2. ASSUME ~DirSyncMayFail PROVE Staged'
  <2> SUFFICES ASSUME NEW v \in Uploads, v # u, Exists(v)' PROVE StagedOf(v)'
    BY <1>2 DEF Staged, StagedOf
  <2>1. uploadChunks'[v] = uploadChunks[v] /\ Exists(v)
    BY DEF StreamOf, Exists
  <2>2. uploadChunks[v].temp \in Paths /\ StagedOf(v)
    BY <1>2, <2>1 DEF Shape, Sessions, Complete, Staged
  <2> QED BY <2>1, <2>2 DEF StagedOf, StreamOf, DiskElsewhere
<1>3. PublishedComplete'
  BY DEF StreamOf, Complete, PublishedComplete
<1> QED BY <1>1, <1>2, <1>3 DEF Complete

\* No commit of the upload of a stream that runs is after its rename.
LEMMA StagedNow ==
  ASSUME Known, Shape, Exclusive, NEW s \in Streams, pc[s] # "idle",
         NEW u \in Uploads, up[s] = u, Exists(u), StagedOf(u)
  PROVE  LET k == PartKey(u, uploadChunks[u].temp)
         IN  k \in partFiles /\ uploadChunks[u].parts \subseteq partData[k]
<1>1. \A w \in Workers : fin[w] # "none" => wup[w] # u
  BY Apart DEF Shape, Finishing, Exclusive
<1> QED BY <1>1 DEF StagedOf

\* Streams that leave the disk and the sessions alone.
LEMMA QuietStreamComplete ==
  ASSUME Known, Shape, Exclusive, Complete, NEW s \in Streams,
         \/ \E u \in Uploads : BeginStream(s, u)
         \/ EndStream(s) \/ StreamFails(s) \/ JoinSession(s)
  PROVE  Complete'
<1>1. /\ UNCHANGED <<uploadChunks, partFiles, partData, target, fin, wup>>
      /\ \A w \in Workers : partPath'[w] = partPath[w]
      /\ \A r \in Streams : r # s =>
           step'[r] = step[r] /\ partPath'[r] = partPath[r] /\ up'[r] = up[r] /\ req'[r] = req[r]
      /\ step'[s] # "record"
  <2>1. ASSUME NEW u \in Uploads, BeginStream(s, u)
        PROVE  /\ UNCHANGED <<step, partPath, uploadChunks, partFiles, partData, target, fin, wup>>
               /\ \A r \in Streams : r # s => up'[r] = up[r] /\ req'[r] = req[r]
               /\ step'[s] # "record"
    BY <2>1 DEF BeginStream, Registry!BeginUploadStream, Registry!workerVars, diskVars,
       finalizerVars, Known, Shape, TypeOK, Serving
  <2>2. ASSUME EndStream(s)
        PROVE  /\ UNCHANGED <<step, partPath, uploadChunks, partFiles, partData, target, fin, wup>>
               /\ \A r \in Streams : r # s => up'[r] = up[r] /\ req'[r] = req[r]
               /\ step'[s] # "record"
    BY <2>2 DEF EndStream, Registry!EndUploadStream, diskVars, finalizerVars, Known, Shape,
       TypeOK, Serving
  <2>3. ASSUME StreamFails(s)
        PROVE  /\ UNCHANGED <<uploadChunks, partFiles, partData, target, fin, wup, up, req>>
               /\ partPath' = [partPath EXCEPT ![s] = NoPath]
               /\ step' = [step EXCEPT ![s] = "request"]
    BY <2>3, Leaves DEF StreamFails, diskVars, Shape
  <2>4. ASSUME JoinSession(s)
        PROVE  /\ UNCHANGED <<uploadChunks, partFiles, partData, target, fin, wup, up, req>>
               /\ partPath' = [partPath EXCEPT ![s] = uploadChunks[up[s]].temp]
               /\ step' = [step EXCEPT ![s] = "open"]
    BY <2>4 DEF JoinSession, lifecycleAll, diskVars, finalizerVars
  <2> QED BY <2>1, <2>2, <2>3, <2>4, GoroutinesApart DEF Shape, TypeOK
<1>2. Recorded'
  BY <1>1 DEF Complete, Recorded
<1>3. Whole'
  BY <1>1 DEF Complete, Whole, PartOf
<1>4. ~DirSyncMayFail => Staged'
  BY <1>1 DEF Complete, Staged, StagedOf, Exists
<1>5. PublishedComplete'
  BY <1>1 DEF Complete, PublishedComplete
<1> QED BY <1>2, <1>3, <1>4, <1>5 DEF Complete

\* A stream that begins a session, or fails to: nobody counts on the file yet.
LEMMA CreateComplete ==
  ASSUME Known, Shape, Exclusive, Complete, NEW s \in Streams,
         NEW u \in Uploads, up[s] = u, CreateSession(s) \/ CreateSessionFails(s)
  PROVE  Complete'
<1> DEFINE p == req[s].path
           k == PartKey(u, p)
<1>1. pc[s] = "http" /\ step[s] = "request" /\ ~Exists(u)
  BY Leaves DEF CreateSession, CreateSessionFails, Shape
<1>2. u \in Uploads /\ p \in Paths /\ k \in PartKeys
  BY <1>1, PartKeyTyped DEF Known, Shape, Serving, Request
<1>3. /\ partFiles' = partFiles \cup {k} /\ partData' = [partData EXCEPT ![k] = {}]
      /\ UNCHANGED <<up, fin, wup, target, req>>
  BY Leaves DEF CreateSession, CreateSessionFails, lifecycleAll, finalizerVars, Shape
<1>4. /\ \A r \in Streams : r # s => step'[r] = step[r] /\ partPath'[r] = partPath[r]
      /\ \A w \in Workers : partPath'[w] = partPath[w]
      /\ step'[s] # "record"
  <2>1. CASE CreateSession(s)
    BY <2>1, GoroutinesApart DEF CreateSession, Shape, TypeOK
  <2>2. CASE CreateSessionFails(s)
    BY <2>2, Leaves, GoroutinesApart DEF CreateSessionFails, Shape, TypeOK
  <2> QED BY <2>1, <2>2
<1>5. uploadChunks' = uploadChunks \/ uploadChunks' = [uploadChunks EXCEPT ![u] = NewSession(p)]
  BY DEF CreateSession, CreateSessionFails
<1>6. DiskElsewhere(u)
  BY <1>2, <1>3 DEF DiskElsewhere, PartKey, Shape, TypeOK
<1>7. StreamOf(s, u)
  BY <1>1, <1>3, <1>4, <1>5, <1>6 DEF StreamOf, Shape, TypeOK
<1>8. Recorded'
  <2> SUFFICES ASSUME NEW r \in Streams, step'[r] = "record"
               PROVE  req[r].chunk \in partData'[PartKey(up[r], partPath'[r])]
    BY <1>3 DEF Recorded
  <2>1. r # s /\ step[r] = "record"
    BY <1>4
  <2>2. up[r] # u /\ up[r] \in Uploads /\ partPath[r] \in Paths
    BY <1>1, <2>1 DEF Known, Shape, Serving, Exclusive, Joined
  <2> QED BY <1>4, <1>6, <2>1, <2>2 DEF Complete, Recorded, DiskElsewhere
<1>9. StagedOf(u)'
  <2> SUFFICES ASSUME uploadChunks'[u].path # NoPath
               PROVE  LET j == PartKey(u, uploadChunks'[u].temp)
                      IN  j \in partFiles' /\ uploadChunks'[u].parts \subseteq partData'[j]
    BY <1>3 DEF StagedOf, Exists
  <2>1. uploadChunks'[u].temp = p /\ uploadChunks'[u].parts = {}
    BY <1>1, <1>2, <1>5 DEF NewSession, Exists, Shape, TypeOK
  <2> QED BY <1>3, <2>1
<1> QED BY <1>2, <1>7, <1>8, <1>9, StreamComplete

\* A stream that opens the part file finds it, or makes one nobody counts on.
LEMMA OpenComplete ==
  ASSUME Known, Shape, Exclusive, Complete, NEW s \in Streams, NEW u \in Uploads, up[s] = u,
         OpenPart(s)
  PROVE  Complete'
<1> DEFINE k == PartKey(u, partPath[s])
<1>1. /\ step[s] = "open" /\ partFiles' = partFiles \cup {k}
      /\ step' = [step EXCEPT ![s] = "write"]
      /\ UNCHANGED <<up, fin, wup, target, req, partPath, uploadChunks, partData>>
  BY DEF OpenPart, lifecycleAll, finalizerVars
<1>2. pc[s] = "http" /\ u \in Uploads /\ partPath[s] \in Paths /\ Exists(u)
      /\ partPath[s] = uploadChunks[u].temp
  BY <1>1 DEF Known, Shape, Serving, Exclusive, Joined
<1>3. StreamOf(s, u)
  BY <1>1, <1>2 DEF StreamOf, DiskElsewhere, PartKey, Shape, TypeOK
<1>4. Recorded'
  BY <1>1 DEF Complete, Recorded, Shape, TypeOK
<1>5. ~DirSyncMayFail => StagedOf(u)'
  BY <1>1, <1>2, StagedNow DEF Complete, Staged, StagedOf, Exists
<1> QED BY <1>2, <1>3, <1>4, <1>5, StreamComplete

\* A chunk lands in the part file of the session.
LEMMA WriteComplete ==
  ASSUME Known, Shape, Exclusive, Complete, NEW s \in Streams, NEW u \in Uploads, up[s] = u,
         WriteChunk(s) \/ WriteFails(s)
  PROVE  Complete'
<1> DEFINE k == PartKey(u, partPath[s])
<1>1. step[s] = "write" /\ ChunkLands(s) /\ UNCHANGED uploadChunks
  BY DEF WriteChunk, WriteFails
<1>2. pc[s] = "http" /\ u \in Uploads /\ partPath[s] \in Paths /\ Exists(u) /\ k \in PartKeys
      /\ partPath[s] = uploadChunks[u].temp /\ fd[s] = "part"
  BY <1>1, PartKeyTyped DEF Known, Shape, Serving, Exclusive, Joined, Descriptors
<1>3. /\ partData' = [partData EXCEPT ![k] = @ \cup {req[s].chunk}]
      /\ UNCHANGED <<partFiles, target>>
  BY <1>1, <1>2 DEF ChunkLands
<1>4. /\ UNCHANGED <<up, fin, wup, req>>
      /\ \A r \in Streams : r # s => step'[r] = step[r] /\ partPath'[r] = partPath[r]
      /\ \A w \in Workers : partPath'[w] = partPath[w]
      /\ step'[s] = "record" => partPath'[s] = partPath[s]
  <2>1. CASE WriteChunk(s)
    BY <2>1 DEF WriteChunk, lifecycleAll, finalizerVars, Shape, TypeOK
  <2>2. CASE WriteFails(s)
    BY <2>2, Leaves, GoroutinesApart DEF WriteFails, Shape, TypeOK
  <2> QED BY <2>1, <2>2
<1>5. StreamOf(s, u)
  BY <1>1, <1>2, <1>3, <1>4 DEF StreamOf, DiskElsewhere, PartKey, Shape, TypeOK
<1>6. /\ req[s].chunk \in partData'[k]
      /\ \A v \in Uploads, p \in Paths : partData[PartKey(v, p)] \subseteq partData'[PartKey(v, p)]
  BY <1>2, <1>3, PartKeyTyped DEF Shape, TypeOK
<1>7. Recorded'
  <2> SUFFICES ASSUME NEW r \in Streams, step'[r] = "record"
               PROVE  req[r].chunk \in partData'[PartKey(up[r], partPath'[r])]
    BY <1>4 DEF Recorded
  <2>1. CASE r = s
    BY <1>4, <1>6, <2>1
  <2>2. CASE r # s
    <3>1. step[r] = "record" /\ partPath'[r] = partPath[r]
      BY <1>4, <2>2
    <3>2. up[r] \in Uploads /\ partPath[r] \in Paths
      BY <3>1 DEF Known, Shape, Serving
    <3> QED BY <1>6, <3>1, <3>2 DEF Complete, Recorded
  <2> QED BY <2>1, <2>2
<1>8. ~DirSyncMayFail => StagedOf(u)'
  <2> SUFFICES ASSUME ~DirSyncMayFail
               PROVE  k \in partFiles /\ uploadChunks[u].parts \subseteq partData'[k]
    BY <1>1, <1>2, <1>3 DEF StagedOf, Exists
  <2> QED BY <1>2, <1>6, StagedNow DEF Complete, Staged
<1> QED BY <1>2, <1>5, <1>7, <1>8, StreamComplete

\* A chunk is counted that is in the part file.
LEMMA RecordComplete ==
  ASSUME Known, Shape, Exclusive, Complete, NEW s \in Streams, NEW u \in Uploads, up[s] = u,
         RecordChunk(s)
  PROVE  Complete'
<1> DEFINE k == PartKey(u, partPath[s])
           old == uploadChunks[u]
<1>1. /\ step[s] = "record" /\ LeaveTransfer(s)
      /\ Exists(u) /\ u \in Uploads
      /\ uploadChunks' = [uploadChunks EXCEPT ![u] =
           [path |-> old.path, temp |-> old.temp, parts |-> old.parts \cup {req[s].chunk}]]
      /\ UNCHANGED <<partFiles, partData, target>>
  BY RecordKeeps DEF RecordChunk
<1>2. pc[s] = "http" /\ partPath[s] = old.temp /\ req[s].chunk \in partData[k]
  BY <1>1 DEF Shape, Serving, Exclusive, Joined, Complete, Recorded
<1>3. /\ UNCHANGED <<up, fin, wup, req>>
      /\ \A r \in Streams : r # s => step'[r] = step[r] /\ partPath'[r] = partPath[r]
      /\ \A w \in Workers : partPath'[w] = partPath[w]
      /\ step'[s] # "record"
  BY <1>1, Leaves, GoroutinesApart DEF Shape, TypeOK
<1>4. StreamOf(s, u)
  BY <1>1, <1>2, <1>3 DEF StreamOf, DiskElsewhere, Shape, TypeOK
<1>5. Recorded'
  BY <1>1, <1>3 DEF Complete, Recorded
<1>6. uploadChunks'[u].temp = old.temp /\ uploadChunks'[u].parts = old.parts \cup {req[s].chunk}
  <2> HIDE DEF old
  <2> QED BY <1>1 DEF Shape, TypeOK
<1>7. ~DirSyncMayFail => StagedOf(u)'
  <2> SUFFICES ASSUME ~DirSyncMayFail
               PROVE  k \in partFiles /\ old.parts \cup {req[s].chunk} \subseteq partData[k]
    BY <1>1, <1>2, <1>3, <1>6 DEF StagedOf, Exists
  <2> QED BY <1>1, <1>2, StagedNow DEF Complete, Staged
<1> QED BY <1>1, <1>4, <1>5, <1>7, StreamComplete

\* A set of chunks as large as all of them is all of them.
LEMMA AllChunks ==
  ASSUME NEW S \in SUBSET Chunks, Cardinality(S) = ChunkCount
  PROVE  S = Chunks
<1>1. IsFiniteSet(Chunks) /\ Cardinality(Chunks) = ChunkCount
  BY ChunkCountPositive, FS_Interval DEF Chunks
<1> QED BY <1>1, FS_Subset

\* Steps that leave the disk and the sessions alone, for a finalizer that does not
\* come to the rename and does not give up after it.
LEMMA QuietComplete ==
  ASSUME Known, Shape, Complete, NEW w \in Workers,
         UNCHANGED <<up, req, step, uploadChunks, partFiles, partData, target>>,
         \A s \in Streams : partPath'[s] = partPath[s],
         \A v \in Workers : v # w =>
           fin'[v] = fin[v] /\ wup'[v] = wup[v] /\ partPath'[v] = partPath[v],
         fin'[w] \notin {"stat", "rename"},
         ~DirSyncMayFail /\ fin[w] \in {"sync", "delete"} =>
           fin'[w] \in {"sync", "delete"} /\ wup'[w] = wup[w]
  PROVE  Complete'
<1>1. ASSUME ~DirSyncMayFail PROVE Staged'
  <2> SUFFICES ASSUME NEW u \in Uploads, Exists(u) PROVE StagedOf(u)'
    BY DEF Staged, StagedOf, Exists
  <2>1. StagedOf(u)
    BY <1>1 DEF Complete, Staged
  <2>2. \A v \in Workers : fin[v] \in {"sync", "delete"} =>
          fin'[v] \in {"sync", "delete"} /\ wup'[v] = wup[v]
    BY <1>1
  <2> QED BY <2>1, <2>2 DEF StagedOf, Exists
<1>2. Recorded'
  BY DEF Complete, Recorded
<1>3. Whole'
  BY DEF Complete, Whole, PartOf
<1>4. PublishedComplete'
  BY DEF Complete, PublishedComplete
<1> QED BY <1>1, <1>2, <1>3, <1>4 DEF Complete

\* Finalizers that only move on keep the third layer.
LEMMA RequestComplete ==
  ASSUME Known, Shape, Complete, NEW w \in Workers,
         \/ \E u \in Uploads : StartCommit(w, u) \/ StartCancel(w, u)
         \/ WaitPasses(w) \/ ForgetLock(w)
         \/ GetLock(w) \/ Lock(w) \/ Unlock(w) \/ FinalizerFails(w) \/ CancelWithoutSession(w)
         \/ CommitSync(w)
  PROVE  Complete'
<1>1. UNCHANGED <<up, req, step, uploadChunks, partFiles, partData, target>>
  BY DEF StartCommit, StartCancel, WaitPasses, ForgetLock, GetLock, Lock, Unlock, FinalizerFails,
         CancelWithoutSession, CommitSync, Moves, lifecycleAll, streamFileVars, diskVars,
         Registry!StartCommit, Registry!MarkCanceled, Registry!WaitPasses,
         Registry!FinalizerReturns, Registry!streamVars
<1>2. \A s \in Streams : partPath'[s] = partPath[s]
  BY GoroutinesApart
  DEF StartCommit, StartCancel, WaitPasses, ForgetLock, GetLock, Lock, Unlock, FinalizerFails,
      CancelWithoutSession, CommitSync, Shape, TypeOK
<1>3. \A v \in Workers : v # w =>
        fin'[v] = fin[v] /\ wup'[v] = wup[v] /\ partPath'[v] = partPath[v]
  BY DEF StartCommit, StartCancel, WaitPasses, ForgetLock, GetLock, Lock, Unlock, FinalizerFails,
         CancelWithoutSession, CommitSync, Moves, lifecycleAll, Known, Shape, TypeOK,
         Registry!StartCommit, Registry!MarkCanceled, Registry!WaitPasses,
         Registry!FinalizerReturns
<1>4. /\ fin'[w] \notin {"stat", "rename"}
      /\ ~DirSyncMayFail /\ fin[w] \in {"sync", "delete"} =>
           fin'[w] \in {"sync", "delete"} /\ wup'[w] = wup[w]
  <2>1. CASE \E u \in Uploads : StartCommit(w, u) \/ StartCancel(w, u)
    BY <2>1 DEF StartCommit, StartCancel, Registry!StartCommit, Registry!MarkCanceled, Shape,
       Finishing
  <2>2. CASE WaitPasses(w) \/ ForgetLock(w)
    BY <2>2 DEF WaitPasses, ForgetLock, Registry!WaitPasses, Shape, TypeOK, Finishing
  <2>3. CASE GetLock(w) \/ Lock(w) \/ Unlock(w) \/ CancelWithoutSession(w) \/ CommitSync(w)
    BY <2>3 DEF GetLock, Lock, Unlock, CancelWithoutSession, CommitSync, Moves, lifecycleAll,
       Shape, TypeOK
  <2>4. CASE FinalizerFails(w)
    BY <2>4 DEF FinalizerFails, Moves, Shape, TypeOK
  <2> QED BY <2>1, <2>2, <2>3, <2>4
<1> QED BY <1>1, <1>2, <1>3, <1>4, QuietComplete

\* The checks of a commit: every chunk is counted, so every chunk is there.
LEMMA CheckComplete ==
  ASSUME Known, Shape, Complete, NEW w \in Workers, CommitCheck(w)
  PROVE  Complete'
<1> DEFINE u == wup[w]
           k == PartKey(u, uploadChunks[u].temp)
<1>1. /\ Exists(u) /\ Cardinality(uploadChunks[u].parts) = ChunkCount
      /\ fin[w] = "locked" /\ fin' = [fin EXCEPT ![w] = "stat"]
      /\ partPath' = [partPath EXCEPT ![w] = uploadChunks[u].temp]
      /\ UNCHANGED <<up, wup, req, step, uploadChunks, partFiles, partData, target>>
  BY DEF CommitCheck, Committable, Moves, lifecycleAll, streamFileVars, diskVars
<1>2. u \in Uploads /\ uploadChunks[u].temp \in Paths /\ k \in PartKeys
  BY <1>1, PartKeyTyped DEF Known, Shape, Finishing, Sessions
<1>3. uploadChunks[u].parts = Chunks
  BY <1>1, <1>2, AllChunks DEF Shape, TypeOK
<1>4. ~DirSyncMayFail /\ k \in partFiles => partData[k] = Chunks
  <2> SUFFICES ASSUME ~DirSyncMayFail, k \in partFiles PROVE partData[k] = Chunks
    OBVIOUS
  <2>1. uploadChunks[u].parts \subseteq partData[k]
    BY <1>1, <1>2 DEF Complete, Staged, StagedOf
  <2>2. partData[k] \subseteq Chunks
    BY <1>2 DEF Shape, TypeOK
  <2> QED BY <1>3, <2>1, <2>2
<1>5. Whole'
  <2>1. PartOf(w)' = k
    BY <1>1 DEF PartOf, Shape, TypeOK
  <2>2. ASSUME NEW v \in Workers, v # w PROVE fin'[v] = fin[v] /\ PartOf(v)' = PartOf(v)
    BY <1>1, <2>2 DEF PartOf, Shape, TypeOK
  <2>3. fin'[w] = "stat"
    BY <1>1 DEF Shape, TypeOK
  <2> SUFFICES ASSUME NEW v \in Workers
               PROVE /\ (fin'[v] = "stat" /\ ~DirSyncMayFail /\ PartOf(v)' \in partFiles)
                          => partData[PartOf(v)'] = Chunks
                     /\ (fin'[v] = "rename" /\ PartOf(v)' \in partFiles)
                          => partData[PartOf(v)'] = Chunks
    BY <1>1 DEF Whole
  <2>4. CASE v = w
    BY <1>4, <2>1, <2>3, <2>4
  <2>5. CASE v # w
    BY <2>2, <2>5 DEF Complete, Whole
  <2> QED BY <2>4, <2>5
<1>6. ~DirSyncMayFail => Staged'
  <2>1. \A v \in Workers : fin[v] \in {"sync", "delete"} => fin'[v] = fin[v]
    BY <1>1 DEF Shape, TypeOK
  <2> QED BY <1>1, <2>1 DEF Complete, Staged, StagedOf, Exists
<1>7. Recorded'
  BY <1>1, GoroutinesApart DEF Complete, Recorded, Shape, TypeOK
<1>8. PublishedComplete'
  BY <1>1 DEF Complete, PublishedComplete
<1> QED BY <1>5, <1>6, <1>7, <1>8 DEF Complete

\* A part file of full size is whole, as counted or because it has one chunk only.
LEMMA StatComplete ==
  ASSUME DirSyncMayFail => ChunkCount = 1, Known, Shape, Complete, NEW w \in Workers, CommitStat(w)
  PROVE  Complete'
<1>1. /\ fin[w] = "stat" /\ fin' = [fin EXCEPT ![w] = "rename"]
      /\ PartOf(w) \in partFiles /\ ChunkCount \in partData[PartOf(w)]
      /\ UNCHANGED <<up, wup, req, step, partPath, uploadChunks, partFiles, partData, target>>
  BY DEF CommitStat, Moves, lifecycleAll, streamFileVars, diskVars
<1>2. PartOf(w) \in PartKeys
  BY <1>1 DEF Shape, TypeOK
<1>3. partData[PartOf(w)] = Chunks
  <2>1. CASE DirSyncMayFail
    <3>1. Chunks = {ChunkCount}
      BY <2>1 DEF Chunks
    <3> QED BY <1>1, <1>2, <3>1 DEF Shape, TypeOK
  <2>2. CASE ~DirSyncMayFail
    BY <1>1, <2>2 DEF Complete, Whole
  <2> QED BY <2>1, <2>2
<1>4. Whole'
  BY <1>1, <1>3 DEF Complete, Whole, PartOf, Shape, TypeOK
<1>5. ~DirSyncMayFail => Staged'
  <2>1. \A v \in Workers : fin[v] \in {"sync", "delete"} => fin'[v] = fin[v]
    BY <1>1 DEF Shape, TypeOK
  <2> QED BY <1>1, <2>1 DEF Complete, Staged, StagedOf, Exists
<1>6. Recorded' /\ PublishedComplete'
  BY <1>1 DEF Complete, Recorded, PublishedComplete
<1> QED BY <1>4, <1>5, <1>6 DEF Complete

\* A file goes away that no stream and no other upload counts on.
LEMMA RemovesComplete ==
  ASSUME Known, Shape, Exclusive, Complete, NEW w \in Workers, NEW u \in Uploads, wup[w] = u,
         wpc[w] = "passed", fin'[w] \notin {"stat", "rename"},
         UNCHANGED <<up, wup, req, step, partPath>>,
         \A v \in Workers : v # w => fin'[v] = fin[v],
         \A v \in Uploads : v # u => uploadChunks'[v] = uploadChunks[v],
         DiskElsewhere(u),
         \A p \in Paths : PartKey(u, p) \in partFiles' =>
           PartKey(u, p) \in partFiles /\ partData'[PartKey(u, p)] = partData[PartKey(u, p)],
         ~DirSyncMayFail => StagedOf(u)', PublishedComplete'
  PROVE  Complete'
<1>1. Recorded'
  <2> SUFFICES ASSUME NEW s \in Streams, step[s] = "record"
               PROVE  req[s].chunk \in partData'[PartKey(up[s], partPath[s])]
    BY DEF Recorded
  <2>1. up[s] \in Uploads /\ up[s] # u /\ partPath[s] \in Paths
    BY Apart DEF Known, Shape, Serving, Exclusive
  <2> QED BY <2>1 DEF DiskElsewhere, Complete, Recorded
<1>2. Whole'
  <2> SUFFICES ASSUME NEW v \in Workers, v # w, fin[v] \in {"stat", "rename"},
                      PartOf(v) \in partFiles'
               PROVE  PartOf(v) \in partFiles /\ partData'[PartOf(v)] = partData[PartOf(v)]
    BY DEF Complete, Whole, PartOf
  <2>1. CASE wup[v] = u
    BY <2>1, PartOfTyped
  <2>2. CASE wup[v] # u
    BY <2>2, PartOfTyped DEF DiskElsewhere
  <2> QED BY <2>1, <2>2
<1>3. ASSUME ~DirSyncMayFail PROVE Staged'
  <2> SUFFICES ASSUME NEW v \in Uploads, v # u, Exists(v)' PROVE StagedOf(v)'
    BY <1>3 DEF Staged, StagedOf
  <2>1. uploadChunks'[v] = uploadChunks[v] /\ Exists(v)
    BY DEF Exists
  <2>2. uploadChunks[v].temp \in Paths /\ StagedOf(v)
    BY <1>3, <2>1 DEF Shape, Sessions, Complete, Staged
  <2>3. \A x \in Workers : wup[x] = v => fin'[x] = fin[x]
    OBVIOUS
  <2> QED BY <2>1, <2>2, <2>3 DEF StagedOf, DiskElsewhere
<1> QED BY <1>1, <1>2, <1>3 DEF Complete

\* The rename publishes a whole file, and its session waits to be deleted.
LEMMA RenameComplete ==
  ASSUME Known, Shape, Exclusive, Complete, NEW w \in Workers, NEW u \in Uploads, wup[w] = u,
         CommitRename(w)
  PROVE  Complete'
<1> DEFINE k == PartOf(w)
<1>1. /\ fin[w] = "rename" /\ fin' = [fin EXCEPT ![w] = "sync"]
      /\ k \in partFiles
      /\ target' = [target EXCEPT ![fpath[w]] = [from |-> u, data |-> partData[k]]]
      /\ partFiles' = partFiles \ {k}
      /\ partData' = [partData EXCEPT ![k] = {}]
      /\ UNCHANGED <<up, wup, req, step, partPath, uploadChunks>>
  BY DEF CommitRename, Moves, lifecycleAll
<1>2. /\ wpc[w] = "passed" /\ fpath[w] \in Paths /\ partPath[w] \in Paths
      /\ k = PartKey(u, partPath[w]) /\ partData[k] = Chunks
  BY <1>1 DEF Shape, Finishing, Complete, Whole, PartOf
<1>3. PublishedComplete'
  BY <1>1, <1>2 DEF Complete, PublishedComplete, Shape, TypeOK
<1>4. DiskElsewhere(u)
  BY <1>1, <1>2 DEF DiskElsewhere, PartKey, Shape, TypeOK
<1>5. \A p \in Paths : PartKey(u, p) \in partFiles' =>
        PartKey(u, p) \in partFiles /\ partData'[PartKey(u, p)] = partData[PartKey(u, p)]
  BY <1>1, PartKeyTyped DEF Shape, TypeOK
<1>6. fin'[w] = "sync" /\ \A v \in Workers : v # w => fin'[v] = fin[v]
  BY <1>1 DEF Shape, TypeOK
<1>7. ASSUME ~DirSyncMayFail PROVE StagedOf(u)'
  <2> SUFFICES ASSUME Exists(u) PROVE StagedOf(u)'
    BY <1>1 DEF StagedOf, Exists
  <2> DEFINE j == PartKey(u, uploadChunks[u].temp)
  <2>1. uploadChunks[u].temp \in Paths /\ StagedOf(u)
    BY <1>7 DEF Shape, Sessions, Complete, Staged
  <2>2. \/ j \in partFiles' /\ uploadChunks[u].parts \subseteq partData'[j]
        \/ j \notin partFiles'
    BY <1>1, <1>5, <2>1 DEF StagedOf
  <2> QED BY <1>1, <1>6, <2>2 DEF StagedOf, Exists
<1> QED BY <1>1, <1>2, <1>3, <1>4, <1>5, <1>6, <1>7, RemovesComplete

\* A session goes, with its part file or after it.
LEMMA DropComplete ==
  ASSUME Known, Shape, Exclusive, Complete, NEW w \in Workers, NEW u \in Uploads, wup[w] = u,
         CommitDelete(w) \/ CancelSession(w) \/ CancelDerived(w)
  PROVE  Complete'
<1>1. /\ fin[w] # "none" /\ fin' = [fin EXCEPT ![w] = "unlock"]
      /\ UNCHANGED <<up, wup, req, step, partPath, target>>
  BY DEF CommitDelete, CancelSession, CancelDerived, RemovePart, Moves, lifecycleAll,
         streamFileVars, diskVars
<1>2. \/ UNCHANGED <<partFiles, partData>>
      \/ \E p \in Paths : /\ partFiles' = partFiles \ {PartKey(u, p)}
                          /\ partData' = [partData EXCEPT ![PartKey(u, p)] = {}]
  <2>1. CASE CommitDelete(w)
    BY <2>1 DEF CommitDelete, diskVars
  <2>2. CASE CancelSession(w)
    <3>1. uploadChunks[u].temp \in Paths
      BY <2>2 DEF CancelSession, Shape, Sessions
    <3> QED BY <2>2, <3>1 DEF CancelSession, RemovePart
  <2>3. CASE CancelDerived(w)
    <3>1. fpath[w] \in Paths
      BY <2>3 DEF CancelDerived, Moves, Shape, Finishing
    <3> QED BY <2>3, <3>1 DEF CancelDerived, RemovePart
  <2> QED BY <2>1, <2>2, <2>3
<1>3. ~Exists(u)' /\ \A v \in Uploads : v # u => uploadChunks'[v] = uploadChunks[v]
  <2>1. CASE CommitDelete(w) \/ CancelSession(w)
    BY <2>1 DEF CommitDelete, CancelSession, Shape, TypeOK, Exists, NoSession
  <2>2. CASE CancelDerived(w)
    BY <2>2 DEF CancelDerived, Moves, Shape, Finishing, Exists
  <2> QED BY <2>1, <2>2
<1>4. DiskElsewhere(u)
  <2>1. CASE UNCHANGED <<partFiles, partData>>
    BY <2>1 DEF DiskElsewhere
  <2>2. ASSUME NEW q \in Paths, partFiles' = partFiles \ {PartKey(u, q)},
               partData' = [partData EXCEPT ![PartKey(u, q)] = {}]
        PROVE  DiskElsewhere(u)
    <3>1. \A v \in Uploads, p \in Paths : v # u => PartKey(v, p) # PartKey(u, q)
      BY DEF PartKey
    <3> QED BY <2>2, <3>1, PartKeyTyped DEF DiskElsewhere, Shape, TypeOK
  <2> QED BY <1>2, <2>1, <2>2
<1>5. \A p \in Paths : PartKey(u, p) \in partFiles' =>
        PartKey(u, p) \in partFiles /\ partData'[PartKey(u, p)] = partData[PartKey(u, p)]
  BY <1>2, PartKeyTyped DEF Shape, TypeOK
<1>6. fin'[w] = "unlock" /\ \A v \in Workers : v # w => fin'[v] = fin[v]
  BY <1>1 DEF Shape, TypeOK
<1>7. wpc[w] = "passed"
  BY <1>1 DEF Shape, Finishing
<1>8. StagedOf(u)' /\ PublishedComplete'
  BY <1>1, <1>3 DEF StagedOf, Complete, PublishedComplete
<1> QED BY <1>1, <1>3, <1>4, <1>5, <1>6, <1>7, <1>8, RemovesComplete

\* Steps that touch nothing keep the third layer.
LEMMA UntouchingComplete ==
  ASSUME Known, Complete, Untouching
  PROVE  Complete'
BY UntouchingKeeps DEF fileVars, Complete, Staged, StagedOf, Recorded, Whole, PartOf, Exists,
   PublishedComplete

\* A restart forgets the sessions; the targets stay.
LEMMA RestartComplete ==
  ASSUME Complete, Restart
  PROVE  Complete'
<1>1. /\ \A s \in Streams : step'[s] = "request"
      /\ \A w \in Workers : fin'[w] = "none"
      /\ \A u \in Uploads : uploadChunks'[u].path = NoPath
      /\ target' = target
  BY DEF Restart, NoSession, diskVars
<1> QED BY <1>1 DEF Complete, Staged, StagedOf, Recorded, Whole, Exists, PublishedComplete

\* At the start no upload has replaced a target.
LEMMA CompleteInit == Init => Complete
<1> SUFFICES ASSUME Init PROVE Complete
  OBVIOUS
<1>1. /\ \A s \in Streams : step[s] = "request"
      /\ \A w \in Workers : fin[w] = "none"
      /\ \A u \in Uploads : uploadChunks[u].path = NoPath
      /\ \A p \in Paths : target[p] = Untouched
  BY DEF Init, NoSession
<1> QED BY <1>1 DEF Complete, Staged, StagedOf, Recorded, Whole, Exists, PublishedComplete

\* No step disturbs the third layer.
LEMMA CompleteStep ==
  ASSUME DirSyncMayFail => ChunkCount = 1, Known, Shape, Exclusive, Complete, [Next]_vars
  PROVE  Complete'
<1>1. ASSUME NEW s \in Streams, StreamNext(s) PROVE Complete'
  <2>1. CASE \/ AcquireSlot(s) \/ AbandonSlot(s) \/ ReleaseSlot(s)
             \/ \E u \in Uploads : RefuseStream(s, u)
    BY <2>1, UntouchingComplete DEF Untouching
  <2>2. CASE \/ \E u \in Uploads : BeginStream(s, u)
             \/ EndStream(s) \/ StreamFails(s) \/ JoinSession(s)
    BY <2>2, QuietStreamComplete
  <2>3. CASE \/ CreateSession(s) \/ CreateSessionFails(s) \/ OpenPart(s)
             \/ WriteChunk(s) \/ WriteFails(s) \/ RecordChunk(s)
    <3>1. pc[s] # "idle"
      BY <2>3, Leaves DEF CreateSession, CreateSessionFails, OpenPart, WriteChunk, WriteFails,
         RecordChunk, Shape, Serving
    <3>2. PICK u \in Uploads : up[s] = u
      BY <3>1 DEF Known
    <3> QED BY <2>3, <3>2, CreateComplete, OpenComplete, WriteComplete, RecordComplete
  <2> QED BY <1>1, <2>1, <2>2, <2>3 DEF StreamNext, StreamStep
<1>2. ASSUME NEW w \in Workers, WorkerNext(w) PROVE Complete'
  <2>1. CASE WaitParks(w) \/ WaitWakes(w) \/ \E s \in Streams : CallCancel(w, s)
    BY <2>1, UntouchingComplete DEF Untouching
  <2>2. CASE CommitRename(w) \/ CommitDelete(w) \/ CancelSession(w) \/ CancelDerived(w)
    <3>1. fin[w] # "none"
      BY <2>2 DEF CommitRename, CommitDelete, CancelSession, CancelDerived, Moves
    <3>2. PICK u \in Uploads : wup[w] = u
      BY <3>1 DEF Known, Shape, Finishing
    <3> QED BY <2>2, <3>2, RenameComplete, DropComplete
  <2>3. CASE \/ \E u \in Uploads : StartCommit(w, u) \/ StartCancel(w, u)
             \/ WaitPasses(w) \/ ForgetLock(w)
             \/ GetLock(w) \/ Lock(w) \/ Unlock(w) \/ FinalizerFails(w) \/ CancelWithoutSession(w)
             \/ CommitSync(w)
    BY <2>3, RequestComplete
  <2>4. CASE CommitCheck(w) \/ CommitStat(w)
    BY <2>4, CheckComplete, StatComplete
  <2> QED BY <1>2, <2>1, <2>2, <2>3, <2>4 DEF WorkerNext, FinalizerStep
<1>3. CASE \/ \E d \in Downloads : DownloadNext(d)
           \/ \E u \in Uploads : TombstoneExpires(u)
           \/ UNCHANGED vars
  BY <1>3, UntouchingComplete DEF Untouching
<1> QED BY <1>1, <1>2, <1>3, RestartComplete DEF Next

\* The third layer holds under the conditions of both.
LEMMA CompleteCorrect ==
  ASSUME ~OverlapCommit, DirSyncMayFail => ChunkCount = 1
  PROVE  Spec => []Complete
<1>1. Known /\ Shape /\ Exclusive /\ Complete /\ [Next]_vars => Complete'
  BY CompleteStep
<1> QED BY <1>1, CompleteInit, KnownCorrect, ShapeCorrect, ExclusiveCorrect, PTL DEF Spec

\* While the controller sends no stream of an upload it commits, and directory
\* syncs succeed or uploads have one chunk, a target an upload replaced is whole, in
\* every order of streams, retries, commits, cancels and restarts.
THEOREM PublishedCorrect ==
  ASSUME ~OverlapCommit, DirSyncMayFail => ChunkCount = 1
  PROVE  Spec => []PublishedComplete
<1>1. Complete => PublishedComplete
  BY DEF Complete
<1> QED BY <1>1, CompleteCorrect, PTL

(***************************************************************************)
(* The abstract specification.                                             *)
(***************************************************************************)

\* What AtomicPublish sees of the targets.
Shown ==
  [p \in Paths |-> IF target[p] = Untouched \/ target[p].data = Chunks
                   THEN target[p].from ELSE NoPath]

\* A step that leaves part files and targets alone shows nothing.
LEMMA StutterStep ==
  ASSUME UNCHANGED <<partData, target>>
  PROVE  UNCHANGED Atomic!vars
BY DEF Atomic!vars

\* Steps of streams throw staged chunks away, stage one or show nothing.
LEMMA StreamAtomic ==
  ASSUME Known, Shape, Exclusive, NEW s \in Streams, StreamNext(s)
  PROVE  [Atomic!Next]_(Atomic!vars)
<1>1. CASE \/ AcquireSlot(s) \/ AbandonSlot(s) \/ ReleaseSlot(s) \/ EndStream(s)
           \/ StreamFails(s) \/ JoinSession(s) \/ OpenPart(s) \/ RecordChunk(s)
           \/ \E u \in Uploads : BeginStream(s, u) \/ RefuseStream(s, u)
  BY <1>1, StutterStep DEF AcquireSlot, AbandonSlot, ReleaseSlot, EndStream, StreamFails,
     JoinSession, OpenPart, RecordChunk, BeginStream, RefuseStream, fileVars, diskVars
<1>2. CASE CreateSession(s) \/ CreateSessionFails(s)
  <2> DEFINE k == PartKey(up[s], req[s].path)
  <2>1. /\ pc[s] = "http" /\ UNCHANGED target
        /\ partData' = [partData EXCEPT ![k] = {}]
    BY <1>2, Leaves DEF CreateSession, CreateSessionFails, Shape
  <2>2. k \in Uploads \X Paths
    BY <2>1 DEF Known, Shape, Serving, Request, PartKey
  <2>3. Atomic!Discard(k)
    BY <2>1 DEF Atomic!Discard
  <2> QED BY <2>2, <2>3 DEF Atomic!Next
<1>3. CASE WriteChunk(s) \/ WriteFails(s)
  <2> DEFINE k == PartKey(up[s], partPath[s])
             c == req[s].chunk
  <2>1. step[s] = "write" /\ ChunkLands(s)
    BY <1>3 DEF WriteChunk, WriteFails
  <2>2. UNCHANGED target /\ partData' = [partData EXCEPT ![k] = @ \cup {c}]
    BY <2>1 DEF ChunkLands, Exclusive, Descriptors
  <2>3. k \in Uploads \X Paths /\ c \in Chunks
    BY <2>1 DEF Known, Shape, Serving, Request, PartKey
  <2>4. Atomic!Stage(k, c)
    BY <2>2 DEF Atomic!Stage
  <2> QED BY <2>3, <2>4 DEF Atomic!Next
<1> QED BY <1>1, <1>2, <1>3 DEF StreamNext, StreamStep

\* A rename publishes.
LEMMA RenameAtomic ==
  ASSUME Known, Shape, Exclusive, Complete, NEW w \in Workers, CommitRename(w),
         NEW u \in Uploads, wup[w] = u, NEW p \in Paths, fpath[w] = p
  PROVE  Atomic!Publish(u, p)
<1>1. /\ fin[w] = "rename" /\ PartOf(w) \in partFiles
      /\ target' = [target EXCEPT ![p] = [from |-> u, data |-> partData[PartOf(w)]]]
      /\ partData' = [partData EXCEPT ![PartOf(w)] = {}]
  BY DEF CommitRename, Moves
<1>2. PartOf(w) = <<u, p>>
  BY <1>1 DEF Exclusive, SameTarget, PartOf, PartKey
<1>3. partData[PartOf(w)] = Chunks
  BY <1>1 DEF Complete, Whole
<1>4. target' = [target EXCEPT ![p] = [from |-> u, data |-> Chunks]]
  BY <1>1, <1>3
<1>5. target'[p].from = u /\ target'[p].data = Chunks
      /\ \A q \in Paths : q # p => target'[q] = target[q]
  BY <1>4 DEF Shape, TypeOK
<1>6. Shown' = [Shown EXCEPT ![p] = u]
  BY <1>5 DEF Shown
<1> QED BY <1>1, <1>2, <1>3, <1>6 DEF Atomic!Publish, Shown

\* A rename publishes, a removal discards, and no other step of a finalizer shows.
LEMMA WorkerAtomic ==
  ASSUME Known, Shape, Exclusive, Complete, NEW w \in Workers, WorkerNext(w)
  PROVE  [Atomic!Next]_(Atomic!vars)
<1>1. CASE CommitRename(w)
  <2>1. wup[w] \in Uploads /\ fpath[w] \in Paths
    BY <1>1 DEF CommitRename, Moves, Known, Shape, Finishing
  <2>2. PICK u \in Uploads, p \in Paths : wup[w] = u /\ fpath[w] = p
    BY <2>1
  <2>3. Atomic!Publish(u, p)
    BY <1>1, <2>2, RenameAtomic
  <2> QED BY <2>3 DEF Atomic!Next
<1>2. CASE CancelSession(w) \/ CancelDerived(w)
  <2>1. PICK k \in Uploads \X Paths : partData' = [partData EXCEPT ![k] = {}] /\ UNCHANGED target
    <3>1. wup[w] \in Uploads
      BY <1>2 DEF CancelSession, CancelDerived, Moves, Known, Shape, Finishing
    <3>2. CASE CancelSession(w)
      BY <3>1, <3>2 DEF CancelSession, RemovePart, PartKey, Shape, Sessions
    <3>3. CASE CancelDerived(w)
      BY <3>1, <3>3 DEF CancelDerived, RemovePart, Moves, PartKey, Shape, Finishing
    <3> QED BY <1>2, <3>2, <3>3
  <2>2. Atomic!Discard(k)
    BY <2>1 DEF Atomic!Discard
  <2> QED BY <2>1, <2>2 DEF Atomic!Next
<1>3. CASE \/ \E u \in Uploads : StartCommit(w, u) \/ StartCancel(w, u)
           \/ WaitPasses(w) \/ ForgetLock(w) \/ WaitParks(w) \/ WaitWakes(w)
           \/ \E s \in Streams : CallCancel(w, s)
           \/ GetLock(w) \/ Lock(w) \/ Unlock(w) \/ FinalizerFails(w) \/ CancelWithoutSession(w)
           \/ CommitCheck(w) \/ CommitStat(w) \/ CommitSync(w) \/ CommitDelete(w)
  BY <1>3, StutterStep DEF StartCommit, StartCancel, WaitPasses, ForgetLock, WaitParks, WaitWakes,
     CallCancel, GetLock, Lock, Unlock, FinalizerFails, CancelWithoutSession, CommitCheck,
     CommitStat, CommitSync, CommitDelete, fileVars, diskVars
<1> QED BY <1>1, <1>2, <1>3 DEF WorkerNext, FinalizerStep

\* Every step of the program is one of AtomicPublish, or shows nothing.
LEMMA AtomicStep ==
  ASSUME Known, Shape, Exclusive, Complete, [Next]_vars
  PROVE  [Atomic!Next]_(Atomic!vars)
<1>1. CASE \/ \E d \in Downloads : DownloadNext(d)
           \/ \E u \in Uploads : TombstoneExpires(u)
           \/ Restart
           \/ UNCHANGED vars
  BY <1>1, StutterStep DEF DownloadNext, TombstoneExpires, Restart, vars, fileVars, diskVars
<1> QED BY <1>1, StreamAtomic, WorkerAtomic DEF Next

\* Under the same conditions the handlers implement AtomicPublish: a target goes
\* over to an upload in one step, with every chunk of it.
THEOREM AtomicCorrect ==
  ASSUME ~OverlapCommit, DirSyncMayFail => ChunkCount = 1
  PROVE  Spec => AtomicSpec
<1>1. Init => Atomic!Init
  BY DEF Init, Atomic!Init, Untouched, PartKeys
<1>2. Known /\ Shape /\ Exclusive /\ Complete /\ [Next]_vars => [Atomic!Next]_(Atomic!vars)
  BY AtomicStep
<1> QED
  BY <1>1, <1>2, KnownCorrect, ShapeCorrect, ExclusiveCorrect, CompleteCorrect, PTL
  DEF Spec, AtomicSpec, Atomic!Spec
=============================================================================
