SPECIFICATION Spec
CONSTANTS
  Conns = {c1, c2}
  Quitters = {c1, c2}
  Requests = {r1}
  NoConn = NoConn
  NoSession = NoSession
  NoRequest = NoRequest
CHECK_DEADLOCK FALSE
PROPERTIES
  TimerSparesReattached
