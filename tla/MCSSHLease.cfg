SPECIFICATION OrderedSpec
CONSTANTS
  root = root
  alice = alice
  t1 = t1
  t2 = t2
  t3 = t3
  Tickets = {t1, t2, t3}
  Users = {root, alice}
  Handlers = {1, 2, 3}
  DefaultUser = root
  ScanOrder <- RootAgent
  NamePrefix <- OwnNames
  Grants <- OneUserEach
  Expiries = {1, 2}
  Serial = TRUE
  MaxTime = 2
  MaxCrashes = 1
  NoUser = NoUser
  NoTimer = NoTimer
  NoTicket = NoTicket
CHECK_DEADLOCK FALSE
INVARIANTS
  LeaseGuarded
  RevokedIsGone
PROPERTIES
  LivesToExpiry
  ExpiredEnds
