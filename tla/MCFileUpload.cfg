SPECIFICATION Spec
CONSTANTS
  Uploads = {u1}
  Streams = {s1, s2}
  Commits = {m1}
  Cancels = {x1}
  Downloads = {}
  Transfers = {s1, s2}
  TransferOf <- OwnTransfer
  Channels = {c1, c2, c3, c4}
  MaxSlots = 2
  NoChan = NoChan
  NoStream = NoStream
  NoUpload = NoUpload
  Paths = {p1}
  ChunkCount = 2
  Locks = {l1, l2, l3, l4}
  NoPath = NoPath
  NoLock = NoLock
  OverlapCommit = FALSE
  DirSyncMayFail = FALSE
SYMMETRY Symmetry
INVARIANTS
  PublishedComplete
  NoWriterOnTarget
PROPERTIES
  CanceledNeverRegrows
  AtomicSpec
  RegistrySpec
