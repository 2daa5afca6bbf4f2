SPECIFICATION FairSpec
CONSTANTS
  Events = {e1}
  Malformed = {e1}
  Conns = {c1, c2}
  PullLoops = {l1}
  MaxRetries = 1
  SeenLimit = 1
  Report = Report
  NoConn = NoConn
  NoEvent = NoEvent
INVARIANTS
  OneConnection
PROPERTIES
  EventsAcknowledged
  LossNoticed
