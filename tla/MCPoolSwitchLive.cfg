SPECIFICATION FairSpec
CONSTANTS
  p1 = p1
  p2 = p2
  p3 = p3
  w1 = w1
  Pool = {p1, p2}
  NoPool = NoPool
  AtStart <- MCTwo
  StartStates = {"ENABLED"}
  MaxPools = 2
  Worker = {w1}
  Strategies = {"FAILOVER", "ROTATE", "ROUNDROBIN"}
  Commands = {"switchpool", "enablepool", "disablepool", "disable", "strategy"}
  MaxCount = 1
PROPERTIES
  FailsBack
  LeavesIdle
CHECK_DEADLOCK FALSE
