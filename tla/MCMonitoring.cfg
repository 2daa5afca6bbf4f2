SPECIFICATION MonitoringSpec
CONSTANTS
  Nics = {n1}
  Lists = {{n1}, {n2}}
  MaxBytes = 2
  MaxStarts = 2
  LoadFails = FALSE
  SaveFails = TRUE
  NoFile = NoFile
  NoCounter = NoCounter
  Devices = {d1, d2, lo}
  Loopback = {lo}
  IncludeNics = {}
  ExcludeNics = {}
  MaxCount = 2
  NoSample = NoSample
  StaleAfter = 4
  RequestTimeout = 2
  MaxFails = 1
  WalkTTL = 2
  WalkTime = 2
  Askers = {a1, a2}
  DataPreserveDay = 31
  PageSize = 2
INVARIANTS
  NoOvercount
  NoStrayGoroutine
  RatesAreReal
  CachesFresh
  RulesAgree
PROPERTIES
  HistoryKept
