SPECIFICATION FairSpec
CONSTANTS
  Uploads = {u1}
  Streams = {s1}
  Commits = {m1, m2}
  Cancels = {}
  Downloads = {}
  Transfers = {s1}
  TransferOf <- OwnTransfer
  Channels = {c1, c2, c3, c4}
  MaxSlots = 1
  NoChan = NoChan
  NoStream = NoStream
  NoUpload = NoUpload
  Paths = {p1, p2}
  ChunkCount = 1
  Locks = {l1, l2, l3, l4}
  NoPath = NoPath
  NoLock = NoLock
  OverlapCommit = FALSE
  DirSyncMayFail = TRUE
PROPERTIES
  FinalizersReturn
