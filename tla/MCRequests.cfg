SPECIFICATION RequestsSpec
CONSTANTS
  Paths <- MCPaths
  Mounts <- MCMounts
  Contents = {"d1", "d2"}
  Wanted = {"x", "d2"}
  SearchLimit = 2
  Trees <- MCTrees
  Arguments <- MCArguments
  Tasks = {j1}
  Conns = {c1, c2}
  Latencies = {1, 2, 3, 4}
  High = 2
  Drop = 1
  Unix = TRUE
  NoConn = NoConn
CHECK_DEADLOCK FALSE
INVARIANTS
  
  
  DeliveryAccounted
  AnswerMatchesProcess
PROPERTIES
  MiningAnswered
