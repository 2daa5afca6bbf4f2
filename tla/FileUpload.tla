----------------------------- MODULE FileUpload -----------------------------
(***************************************************************************)
(* Resumable uploads: server/file_stream.go and the finalizers of          *)
(* server/files.go, over the registry UploadLifecycle describes.           *)
(*                                                                         *)
(* Streams write the chunks of an upload into a private part file at       *)
(* independent offsets; a session remembers which chunks are in.           *)
(* upload_commit checks the session and renames the part file over the     *)
(* target; upload_cancel removes both.  The registry, the sessions         *)
(* (uploadChunksMu) and the write locks (uploadWriteLocksMu and one mutex  *)
(* per upload) are locked separately, and the part file is written with no *)
(* lock held, so a step is one critical section or one system call.        *)
(*                                                                         *)
(* A file is the set of chunks it holds.  Chunks are written front to      *)
(* back, so a file is as long as the upload exactly when it holds the last *)
(* one; chunks missing before it are holes that read as zeros.             *)
(***************************************************************************)
EXTENDS Integers, FiniteSets

CONSTANTS
  Uploads, Streams, Commits, Cancels, Downloads, Transfers, TransferOf,
  Channels, MaxSlots, NoChan, NoStream, NoUpload,
  Paths,          \* target paths
  ChunkCount,     \* chunk_count of every upload
  Locks,          \* identities of write locks
  NoPath, NoLock,
  OverlapCommit,  \* may the controller start a stream of an upload it is committing?
  DirSyncMayFail  \* may syncUploadDirectory report an error?

Workers == Commits \cup Cancels
Chunks == 1..ChunkCount
PartKeys == Uploads \X Paths

\* uploadPartPathFor: a name of its own for every upload id and target path.
PartKey(u, p) == <<u, p>>

\* What UploadLifecycle assumes of the constants it shares with this module.
ASSUME RegistryAssumptions ==
  /\ IsFiniteSet(Streams) /\ IsFiniteSet(Downloads)
  /\ IsFiniteSet(Uploads) /\ IsFiniteSet(Workers)
  /\ Commits \cap Cancels = {}
  /\ NoChan \notin Channels /\ NoStream \notin Streams /\ NoUpload \notin Uploads
  /\ TransferOf \in [Streams -> Transfers]
  /\ MaxSlots \in Nat \ {0}
  /\ \E C \in SUBSET Channels : Cardinality(C) > Cardinality(Uploads) + Cardinality(Workers)
ASSUME ChunkCountPositive == ChunkCount \in Nat \ {0}
ASSUME FileSentinels == NoPath \notin Paths /\ NoLock \notin Locks
\* partPath holds the locals of streams and of finalizers, which are not the same goroutines.
ASSUME GoroutinesApart == Streams \cap Workers = {}
ASSUME FaultSwitches == OverlapCommit \in BOOLEAN /\ DirSyncMayFail \in BOOLEAN
\* &sync.Mutex{} never fails: an unreferenced identity is always left.
ASSUME EnoughLocks ==
  \E L \in SUBSET Locks : Cardinality(L) > Cardinality(Uploads) + Cardinality(Workers)

VARIABLES
  uploadLifecycles, open, slots, pc, up, ctxDone, wpc, wup, wch, pending, dpc

VARIABLES
  req,          \* the metadata of the request a stream serves
  step,         \* where a stream that holds a slot is
  fd,           \* the file a stream has open: a rename or removal moves it
  partPath,     \* the local partPath of streams and commits, by its target path
  uploadChunks, \* upload -> uploadChunkState, NoSession when the key is absent
  partFiles,    \* the part files that exist
  partData,     \* the chunks each part file holds
  target,       \* what is at each target path
  fin,          \* where a finalizer that has waited is
  fpath,        \* the path a finalizer's request names
  lock,         \* the mutex a finalizer got from uploadWriteLock
  writeLocks,   \* uploadWriteLocks
  held          \* the mutexes that are locked

lifecycleAll == <<uploadLifecycles, open, slots, pc, up, ctxDone, wpc, wup, wch, pending, dpc>>
streamFileVars == <<req, step, fd>>
finalizerVars == <<fin, fpath>>
lockVars == <<lock, writeLocks, held>>
diskVars == <<partFiles, partData, target>>
fileVars == <<req, step, fd, partPath, uploadChunks, partFiles, partData, target,
              fin, fpath, lock, writeLocks, held>>
vars == <<lifecycleAll, fileVars>>

Registry == INSTANCE UploadLifecycle

NoRequest == [path |-> NoPath, chunk |-> 0, first |-> FALSE]
\* What parseUploadStreamSpec lets through, chunks numbered from 1.
Request == [path : Paths, chunk : Chunks, first : BOOLEAN]

\* A session that exists has the target path of the request that made it.
NoSession == [path |-> NoPath, temp |-> NoPath, parts |-> {}]
Exists(u) == uploadChunks[u].path # NoPath

\* The bytes before any upload of this program replaced them.
Untouched == [from |-> NoUpload, data |-> {}]

Init ==
  /\ Registry!Init
  /\ req = [s \in Streams |-> NoRequest]
  /\ step = [s \in Streams |-> "request"]
  /\ fd = [s \in Streams |-> "none"]
  /\ partPath = [g \in Streams \cup Workers |-> NoPath]
  /\ uploadChunks = [u \in Uploads |-> NoSession]
  /\ partFiles = {}
  /\ partData = [k \in PartKeys |-> {}]
  /\ target = [p \in Paths |-> Untouched]
  /\ fin = [w \in Workers |-> "none"]
  /\ fpath = [w \in Workers |-> NoPath]
  /\ lock = [w \in Workers |-> NoLock]
  /\ writeLocks = [u \in Uploads |-> NoLock]
  /\ held = {}

(***************************************************************************)
(* Streams: writeUploadStreamChunk inside receiveUploadStream.             *)
(***************************************************************************)

\* What the controller may send: chunks in any order, retries, and a "first"
\* flag on any of them.
MaySend(u) == OverlapCommit \/ Registry!BusyOn(u) \cap Commits = {}

BeginStream(s, u) ==
  /\ MaySend(u)
  /\ Registry!BeginUploadStream(s, u)
  /\ \E r \in Request : req' = [req EXCEPT ![s] = r]
  /\ UNCHANGED <<step, fd, partPath, uploadChunks, diskVars, finalizerVars, lockVars>>

RefuseStream(s, u) == Registry!RefuseUploadStream(s, u) /\ UNCHANGED fileVars
AcquireSlot(s) == Registry!AcquireSlot(s) /\ UNCHANGED fileVars
AbandonSlot(s) == Registry!AbandonSlot(s) /\ UNCHANGED fileVars
ReleaseSlot(s) == Registry!ReleaseSlot(s) /\ UNCHANGED fileVars

\* Mutant: an error return that skips the deferred release.
LeaveTransferLeaks(s) ==
  /\ pc[s] = "http"
  /\ pc' = [pc EXCEPT ![s] = "end"]
  /\ step' = [step EXCEPT ![s] = "request"]
  /\ fd' = [fd EXCEPT ![s] = "none"]
  /\ partPath' = [partPath EXCEPT ![s] = NoPath]
  /\ UNCHANGED <<uploadLifecycles, open, slots, up, ctxDone, wpc, wup, wch, pending, dpc>>
  /\ UNCHANGED <<req, finalizerVars, lockVars>>

\* The stream leaves the transfer: its file is closed, its locals are gone.
LeaveTransfer(s) ==
  /\ Registry!LeaveTransfer(s)
  /\ step' = [step EXCEPT ![s] = "request"]
  /\ fd' = [fd EXCEPT ![s] = "none"]
  /\ partPath' = [partPath EXCEPT ![s] = NoPath]
  /\ UNCHANGED <<req, finalizerVars, lockVars>>

\* An error return: the exchange, contradicting metadata, an unknown session,
\* open, copy, a body that ends early, sync or close.
StreamFails(s) ==
  /\ LeaveTransfer(s)
  /\ UNCHANGED <<uploadChunks, diskVars>>

\* The session the "first" request of an unknown upload makes.
NewSession(p) == [path |-> p, temp |-> p, parts |-> {}]

\* First phase under uploadChunksMu, unknown upload: the part file is created
\* or truncated, then the session is made.
CreateSession(s) ==
  LET u == up[s]
      p == req[s].path
  IN /\ pc[s] = "http" /\ step[s] = "request"
     /\ ~Exists(u) /\ req[s].first
     /\ partFiles' = partFiles \cup {PartKey(u, p)}
     /\ partData' = [partData EXCEPT ![PartKey(u, p)] = {}]
     /\ uploadChunks' = [uploadChunks EXCEPT ![u] = NewSession(p)]
     /\ partPath' = [partPath EXCEPT ![s] = p]
     /\ step' = [step EXCEPT ![s] = "open"]
     /\ UNCHANGED <<lifecycleAll, req, fd, target, finalizerVars, lockVars>>

\* The same, when closing the new part file fails: the file stays, no session.
CreateSessionFails(s) ==
  LET k == PartKey(up[s], req[s].path)
  IN /\ LeaveTransfer(s) /\ step[s] = "request"
     /\ ~Exists(up[s]) /\ req[s].first
     /\ partFiles' = partFiles \cup {k}
     /\ partData' = [partData EXCEPT ![k] = {}]
     /\ UNCHANGED <<uploadChunks, target>>

\* Mutant: a "first" request truncates the part file of a known upload.
JoinTruncates(s) ==
  LET u == up[s]
  IN /\ pc[s] = "http" /\ step[s] = "request"
     /\ Exists(u) /\ uploadChunks[u].path = req[s].path
     /\ partPath' = [partPath EXCEPT ![s] = uploadChunks[u].temp]
     /\ partData' = IF req[s].first
                    THEN [partData EXCEPT ![PartKey(u, uploadChunks[u].temp)] = {}] ELSE partData
     /\ step' = [step EXCEPT ![s] = "open"]
     /\ UNCHANGED <<lifecycleAll, req, fd, uploadChunks, partFiles, target, finalizerVars, lockVars>>

\* First phase, known upload and matching target: "first" changes nothing.
JoinSession(s) ==
  LET u == up[s]
  IN /\ pc[s] = "http" /\ step[s] = "request"
     /\ Exists(u) /\ uploadChunks[u].path = req[s].path
     /\ partPath' = [partPath EXCEPT ![s] = uploadChunks[u].temp]
     /\ step' = [step EXCEPT ![s] = "open"]
     /\ UNCHANGED <<lifecycleAll, req, fd, uploadChunks, diskVars, finalizerVars, lockVars>>

\* os.OpenFile(partPath, O_WRONLY|O_CREATE), with no lock held.
OpenPart(s) ==
  /\ step[s] = "open"
  /\ partFiles' = partFiles \cup {PartKey(up[s], partPath[s])}
  /\ fd' = [fd EXCEPT ![s] = "part"]
  /\ step' = [step EXCEPT ![s] = "write"]
  /\ UNCHANGED <<lifecycleAll, req, partPath, uploadChunks, partData, target,
                 finalizerVars, lockVars>>

\* The chunk reaches the file the descriptor refers to, wherever that file is now.
ChunkLands(s) ==
  LET p == partPath[s]
      c == req[s].chunk
  IN /\ partData' = IF fd[s] = "part"
                    THEN [partData EXCEPT ![PartKey(up[s], p)] = @ \cup {c}] ELSE partData
     /\ target' = IF fd[s] = "target"
                  THEN [target EXCEPT ![p] = [from |-> @.from, data |-> @.data \cup {c}]]
                  ELSE target
     /\ UNCHANGED partFiles

\* Copy, sync and close succeed.
WriteChunk(s) ==
  /\ step[s] = "write"
  /\ ChunkLands(s)
  /\ fd' = [fd EXCEPT ![s] = "none"]
  /\ step' = [step EXCEPT ![s] = "record"]
  /\ UNCHANGED <<lifecycleAll, req, partPath, uploadChunks, finalizerVars, lockVars>>

\* The bytes are there, but sync or close reports an error.
WriteFails(s) ==
  /\ step[s] = "write"
  /\ ChunkLands(s)
  /\ LeaveTransfer(s)
  /\ UNCHANGED uploadChunks

\* Second phase under uploadChunksMu: the chunk counts, unless the session is gone.
RecordChunk(s) ==
  LET u == up[s]
  IN /\ step[s] = "record"
     /\ uploadChunks' =
          IF Exists(u)
          THEN [uploadChunks EXCEPT ![u] = [path  |-> @.path,
                                            temp  |-> partPath[s],
                                            parts |-> @.parts \cup {req[s].chunk}]]
          ELSE uploadChunks
     /\ LeaveTransfer(s)
     /\ UNCHANGED diskVars

EndStream(s) ==
  /\ Registry!EndUploadStream(s)
  /\ req' = [req EXCEPT ![s] = NoRequest]
  /\ UNCHANGED <<step, fd, partPath, uploadChunks, diskVars, finalizerVars, lockVars>>

(***************************************************************************)
(* Finalizers: the wait, the write lock.                                   *)
(***************************************************************************)

\* Mutant: a commit that does not wait for the streams.
StartCommitWithoutWait(w, u) ==
  /\ w \in Commits
  /\ wpc[w] = "idle"
  /\ wpc' = [wpc EXCEPT ![w] = "passed"]
  /\ wup' = [wup EXCEPT ![w] = u]
  /\ fin' = [fin EXCEPT ![w] = "getlock"]
  /\ \E p \in Paths : fpath' = [fpath EXCEPT ![w] = p]
  /\ UNCHANGED <<uploadLifecycles, open, slots, pc, up, ctxDone, wch, pending, dpc>>
  /\ UNCHANGED <<streamFileVars, partPath, uploadChunks, diskVars, lockVars>>

\* commitFileUpload starts to wait; the request may name any path.
StartCommit(w, u) ==
  /\ Registry!StartCommit(w, u)
  /\ \E p \in Paths : fpath' = [fpath EXCEPT ![w] = p]
  /\ UNCHANGED <<streamFileVars, partPath, uploadChunks, diskVars, fin, lockVars>>

\* The path of an upload_cancel is optional.
StartCancel(w, u) ==
  /\ Registry!MarkCanceled(w, u)
  /\ \E p \in Paths \cup {NoPath} : fpath' = [fpath EXCEPT ![w] = p]
  /\ UNCHANGED <<streamFileVars, partPath, uploadChunks, diskVars, fin, lockVars>>

CallCancel(w, s) == Registry!CallCancel(w, s) /\ UNCHANGED fileVars
WaitParks(w) == Registry!WaitParks(w) /\ UNCHANGED fileVars
WaitWakes(w) == Registry!WaitWakes(w) /\ UNCHANGED fileVars

WaitPasses(w) ==
  /\ Registry!WaitPasses(w)
  /\ fin' = [fin EXCEPT ![w] = "getlock"]
  /\ UNCHANGED <<streamFileVars, partPath, uploadChunks, diskVars, fpath, lockVars>>

\* A finalizer that has waited moves on without touching the registry.
Moves(w, from, to) ==
  /\ fin[w] = from
  /\ fin' = [fin EXCEPT ![w] = to]
  /\ UNCHANGED <<lifecycleAll, fpath>>

\* A mutex nobody refers to, as &sync.Mutex{} makes one.
UnusedLock(l) ==
  /\ \A u \in Uploads : writeLocks[u] # l
  /\ \A w \in Workers : lock[w] # l

\* uploadWriteLock: the mutex of the upload, a new one when it has none.
GetLock(w) ==
  /\ Moves(w, "getlock", "lock")
  /\ \E l \in Locks :
       /\ IF writeLocks[wup[w]] # NoLock
          THEN l = writeLocks[wup[w]]
          ELSE UnusedLock(l) /\ l = CHOOSE m \in Locks : UnusedLock(m)
       /\ lock' = [lock EXCEPT ![w] = l]
       /\ writeLocks' = [writeLocks EXCEPT ![wup[w]] = l]
  /\ UNCHANGED <<streamFileVars, partPath, uploadChunks, diskVars, held>>

Lock(w) ==
  /\ Moves(w, "lock", "locked")
  /\ lock[w] \notin held
  /\ held' = held \cup {lock[w]}
  /\ UNCHANGED <<streamFileVars, partPath, uploadChunks, diskVars, lock, writeLocks>>

\* Mutant: an early return without the deferred unlock.
UnlockForgotten(w) ==
  /\ Moves(w, "unlock", "forget")
  /\ UNCHANGED <<streamFileVars, partPath, uploadChunks, diskVars, lockVars>>

Unlock(w) ==
  /\ Moves(w, "unlock", "forget")
  /\ held' = held \ {lock[w]}
  /\ UNCHANGED <<streamFileVars, partPath, uploadChunks, diskVars, lock, writeLocks>>

\* forgetUploadWriteLock, although another finalizer may wait for that mutex.
ForgetLock(w) ==
  /\ fin[w] = "forget"
  /\ Registry!FinalizerReturns(w)
  /\ fin' = [fin EXCEPT ![w] = "none"]
  /\ fpath' = [fpath EXCEPT ![w] = NoPath]
  /\ lock' = [lock EXCEPT ![w] = NoLock]
  /\ partPath' = [partPath EXCEPT ![w] = NoPath]
  /\ writeLocks' = [writeLocks EXCEPT ![wup[w]] = NoLock]
  /\ UNCHANGED <<streamFileVars, uploadChunks, diskVars, held>>

\* An error return after the lock: contradicting metadata, an incomplete or
\* missing session, or a failing system call.
FinalizerFails(w) ==
  /\ \/ \E at \in {"locked", "stat", "rename", "derive"} : Moves(w, at, "unlock")
     \/ DirSyncMayFail /\ Moves(w, "sync", "unlock")
  /\ UNCHANGED <<streamFileVars, partPath, uploadChunks, diskVars, lockVars>>

(***************************************************************************)
(* upload_commit.                                                          *)
(***************************************************************************)

\* Mutant: the received chunks are not counted.
CommittableBySize(u, p) == Exists(u) /\ uploadChunks[u].path = p

\* The checks under uploadChunksMu that let a commit through.
Committable(u, p) ==
  /\ Exists(u)
  /\ uploadChunks[u].path = p
  /\ Cardinality(uploadChunks[u].parts) = ChunkCount

CommitCheck(w) ==
  /\ w \in Commits
  /\ Moves(w, "locked", "stat")
  /\ Committable(wup[w], fpath[w])
  /\ partPath' = [partPath EXCEPT ![w] = uploadChunks[wup[w]].temp]
  /\ UNCHANGED <<streamFileVars, uploadChunks, diskVars, lockVars>>

PartOf(w) == PartKey(wup[w], partPath[w])

\* os.Stat finds a part file of the full size; chmod.
CommitStat(w) ==
  /\ Moves(w, "stat", "rename")
  /\ PartOf(w) \in partFiles
  /\ ChunkCount \in partData[PartOf(w)]
  /\ UNCHANGED <<streamFileVars, partPath, uploadChunks, diskVars, lockVars>>

\* Descriptors follow their file: to the target, or to a file without a name.
Follow(s, k, p) ==
  IF fd[s] = "part" /\ PartKey(up[s], partPath[s]) = k THEN
    IF partPath[s] = p THEN "target" ELSE "gone"
  ELSE IF fd[s] = "target" /\ partPath[s] = p THEN "gone"
  ELSE fd[s]

\* replaceFile: one rename.
CommitRename(w) ==
  LET k == PartOf(w)
  IN /\ Moves(w, "rename", "sync")
     /\ k \in partFiles
     /\ target' = [target EXCEPT ![fpath[w]] = [from |-> wup[w], data |-> partData[k]]]
     /\ partFiles' = partFiles \ {k}
     /\ partData' = [partData EXCEPT ![k] = {}]
     /\ fd' = [s \in Streams |-> Follow(s, k, fpath[w])]
     /\ UNCHANGED <<req, step, partPath, uploadChunks, lockVars>>

CommitSync(w) ==
  /\ Moves(w, "sync", "delete")
  /\ UNCHANGED <<streamFileVars, partPath, uploadChunks, diskVars, lockVars>>

CommitDelete(w) ==
  /\ Moves(w, "delete", "unlock")
  /\ uploadChunks' = [uploadChunks EXCEPT ![wup[w]] = NoSession]
  /\ UNCHANGED <<streamFileVars, partPath, diskVars, lockVars>>

(***************************************************************************)
(* upload_cancel.                                                          *)
(***************************************************************************)

\* os.Remove of a part file, which may be gone already.
RemovePart(k) ==
  /\ partFiles' = partFiles \ {k}
  /\ partData' = [partData EXCEPT ![k] = {}]
  /\ fd' = [s \in Streams |->
              IF fd[s] = "part" /\ PartKey(up[s], partPath[s]) = k THEN "gone" ELSE fd[s]]
  /\ UNCHANGED <<req, step, partPath, target>>

\* removeUploadFileLocked on a session the request does not contradict.
CancelSession(w) ==
  LET u == wup[w]
  IN /\ w \in Cancels
     /\ Moves(w, "locked", "unlock")
     /\ Exists(u)
     /\ fpath[w] \in {NoPath, uploadChunks[u].path}
     /\ RemovePart(PartKey(u, uploadChunks[u].temp))
     /\ uploadChunks' = [uploadChunks EXCEPT ![u] = NoSession]
     /\ UNCHANGED lockVars

\* No session, as after a restart: only a path leads to the part file.
CancelWithoutSession(w) ==
  /\ w \in Cancels
  /\ fin[w] = "locked" /\ ~Exists(wup[w])
  /\ IF fpath[w] = NoPath THEN Moves(w, "locked", "unlock") ELSE Moves(w, "locked", "derive")
  /\ UNCHANGED <<streamFileVars, partPath, uploadChunks, diskVars, lockVars>>

CancelDerived(w) ==
  /\ Moves(w, "derive", "unlock")
  /\ RemovePart(PartKey(wup[w], fpath[w]))
  /\ UNCHANGED <<uploadChunks, lockVars>>

(***************************************************************************)
(* The rest.                                                               *)
(***************************************************************************)

\* Memory and descriptors are lost, files stay.
Restart ==
  /\ Registry!Restart
  /\ req' = [s \in Streams |-> NoRequest]
  /\ step' = [s \in Streams |-> "request"]
  /\ fd' = [s \in Streams |-> "none"]
  /\ partPath' = [g \in Streams \cup Workers |-> NoPath]
  /\ uploadChunks' = [u \in Uploads |-> NoSession]
  /\ fin' = [w \in Workers |-> "none"]
  /\ fpath' = [w \in Workers |-> NoPath]
  /\ lock' = [w \in Workers |-> NoLock]
  /\ writeLocks' = [u \in Uploads |-> NoLock]
  /\ held' = {}
  /\ UNCHANGED diskVars

DownloadNext(d) == Registry!DownloadNext(d) /\ UNCHANGED fileVars
TombstoneExpires(u) == Registry!TombstoneExpires(u) /\ UNCHANGED fileVars

\* What a stream does once it runs.
StreamStep(s) ==
  \/ AbandonSlot(s) \/ ReleaseSlot(s) \/ EndStream(s)
  \/ StreamFails(s) \/ CreateSession(s) \/ CreateSessionFails(s) \/ JoinSession(s)
  \/ OpenPart(s) \/ WriteChunk(s) \/ WriteFails(s) \/ RecordChunk(s)

StreamNext(s) ==
  \/ \E u \in Uploads : BeginStream(s, u) \/ RefuseStream(s, u)
  \/ AcquireSlot(s)
  \/ StreamStep(s)

\* What a finalizer does once its request is there; Lock is apart because it blocks.
FinalizerStep(w) ==
  \/ WaitPasses(w) \/ WaitParks(w) \/ WaitWakes(w)
  \/ GetLock(w) \/ Unlock(w) \/ ForgetLock(w) \/ FinalizerFails(w)
  \/ CommitCheck(w) \/ CommitStat(w) \/ CommitRename(w) \/ CommitSync(w) \/ CommitDelete(w)
  \/ CancelSession(w) \/ CancelWithoutSession(w) \/ CancelDerived(w)

WorkerNext(w) ==
  \/ \E u \in Uploads : StartCommit(w, u) \/ StartCancel(w, u)
  \/ \E s \in Streams : CallCancel(w, s)
  \/ Lock(w)
  \/ FinalizerStep(w)

Next ==
  \/ \E s \in Streams : StreamNext(s)
  \/ \E w \in Workers : WorkerNext(w)
  \/ \E d \in Downloads : DownloadNext(d)
  \/ \E u \in Uploads : TombstoneExpires(u)
  \/ Restart

\* As in UploadLifecycle; sync.Mutex hands itself over to a starving waiter.
Fairness ==
  /\ \A s \in Streams : WF_vars(StreamStep(s)) /\ SF_vars(AcquireSlot(s))
  /\ \A w \in Workers :
       /\ WF_vars(FinalizerStep(w))
       /\ SF_vars(Lock(w))
       /\ \A s \in Streams : WF_vars(CallCancel(w, s))
  /\ \A d \in Downloads : WF_vars(DownloadNext(d) /\ dpc[d] = "sending")

Spec == Init /\ [][Next]_vars
FairSpec == Spec /\ Fairness

(***************************************************************************)
(* Properties.                                                             *)
(***************************************************************************)

\* Every variable this module adds has the type the code gives it.
TypeOK ==
  /\ req \in [Streams -> Request \cup {NoRequest}]
  /\ step \in [Streams -> {"request", "open", "write", "record"}]
  /\ fd \in [Streams -> {"none", "part", "target", "gone"}]
  /\ partPath \in [Streams \cup Workers -> Paths \cup {NoPath}]
  /\ uploadChunks \in [Uploads -> [path : Paths \cup {NoPath}, temp : Paths \cup {NoPath},
                                   parts : SUBSET Chunks]]
  /\ partFiles \subseteq PartKeys
  /\ partData \in [PartKeys -> SUBSET Chunks]
  /\ target \in [Paths -> [from : Uploads \cup {NoUpload}, data : SUBSET Chunks]]
  /\ fin \in [Workers -> {"none", "getlock", "lock", "locked", "stat", "rename", "sync",
                          "delete", "derive", "unlock", "forget"}]
  /\ fpath \in [Workers -> Paths \cup {NoPath}]
  /\ lock \in [Workers -> Locks \cup {NoLock}]
  /\ writeLocks \in [Uploads -> Locks \cup {NoLock}]
  /\ held \subseteq Locks

\* What commitFileUpload promises: a path shows what was there before or every
\* chunk of the upload that replaced it, never a file with holes, at any moment
\* and in whatever order streams, retries, cancels, commits and restarts come.
PublishedComplete ==
  \A p \in Paths : target[p] # Untouched => target[p].data = Chunks

\* "Wait for every active stream before inspecting and renaming the part file"
\* (files.go).  The name of a published file is the only one its bytes have: no stream still
\* holds a descriptor through which it could change a target.
NoWriterOnTarget == \A s \in Streams : fd[s] \notin {"target", "gone"}

\* While a tombstone stands and the streams it interrupted are over, nothing of
\* the upload comes back: no stream, no part file, no session, no received chunk.
CanceledNeverRegrows ==
  [][\A u \in Uploads :
       (/\ Registry!Canceled(u)
        /\ Registry!Canceled(u)'
        /\ Registry!Registered(u) = {})
       => /\ Registry!Registered(u)' = {}
          /\ \A p \in Paths : PartKey(u, p) \in partFiles' => PartKey(u, p) \in partFiles
          /\ uploadChunks'[u] \in {uploadChunks[u], NoSession}]_vars

\* With streams and finalizers as above, the registry behaves as UploadLifecycle says.
RegistrySpec == Registry!Spec

\* The part files are the staged chunks and a target shows the upload that made
\* it, or nothing the abstract specification knows if it is not whole.
Atomic ==
  INSTANCE AtomicPublish WITH
    staged <- partData,
    published <- [p \in Paths |-> IF target[p] = Untouched \/ target[p].data = Chunks
                                  THEN target[p].from ELSE NoPath]

\* Every step of the handlers is a step of the promise, or changes nothing it shows.
AtomicSpec == Atomic!Spec

\* While the controller sends no stream of an upload it is committing, every
\* commit and cancel is answered: the streams they wait for finish or fail, and
\* the write locks, which each finalizer forgets and renews, leave none blocked.
FinalizersReturn == ~OverlapCommit => \A w \in Workers : wpc[w] # "idle" ~> wpc[w] = "idle"
=============================================================================
