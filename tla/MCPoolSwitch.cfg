SPECIFICATION Spec
CONSTANTS
  p1 = p1
  p2 = p2
  p3 = p3
  w1 = w1
  Pool = {p1, p2, p3}
  NoPool = NoPool
  AtStart <- MCTwo
  StartStates = {"ENABLED"}
  MaxPools = 3
  Worker = {w1}
  Strategies = {"FAILOVER"}
  Commands = {"removepool", "addpool", "poolpriority", "switch", "enable"}
  MaxCount = 1
INVARIANTS
  TypeOK
  PriorityPermutation

  
CHECK_DEADLOCK FALSE
