SPECIFICATION Spec
CONSTANTS
  Events = {e1, e2}
  Malformed = {e2}
  Conns = {c1}
  PullLoops = {l1, l2}
  MaxRetries = 0
  SeenLimit = 1
  Report = Report
  NoConn = NoConn
  NoEvent = NoEvent
SYMMETRY Symmetry
INVARIANTS
  ExecutedOnce
  AckNotLost
PROPERTIES
  DeliverySpec
