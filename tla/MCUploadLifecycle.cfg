SPECIFICATION FairSpec
CONSTANTS
  Uploads = {u1}
  Streams = {s1, s2, s3}
  Commits = {m1}
  Cancels = {x1}
  Downloads = {d1}
  Transfers = {s1, s2, s3}
  TransferOf <- OwnTransfer
  Channels = {c1, c2, c3, c4, c5}
  MaxSlots = 1
  NoChan = NoChan
  NoStream = NoStream
  NoUpload = NoUpload
INVARIANTS
  RegistryInv
  CancelReachesStreams
  CancelQuiesces
  SlotsMatchHolders
PROPERTIES
  HandlersReturn
