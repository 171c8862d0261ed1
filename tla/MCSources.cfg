SPECIFICATION MCSpec
CONSTANTS
  s1 = s1
  s2 = s2
  Stager <- MCStager
  Digger = {m1}
  Block = {b1, b2}
  Genesis = genesis
  Keep = 2
  NoWork = NoWork
  MaxNews = 2
  MaxStaged = 1
  Share = {a, b}
  Main = main
  Handle = {h1, h2}
  NoHandle = NoHandle
  CurlLimit = 2
  Site = {0, 1, 2}
  Start = 2
  Quota = {0, 4, 6}
  IntRange = 64
  LongRange = 4096
  MaxChanges = 3
  MaxOver = 3
  Line = {l1, l2}
  Parts = 2
  Newline = NL
  MaxLines = 2
  Job = {j1, j2}
  NoJob = NoJob
  MaxSession = 2
  MaxNonce = 2
INVARIANTS
  FreshSinceTest
  SleepersHaveAWaker
  PeriodIsFair
  
  WorkOfOneSession
  DistinctStratumWork
PROPERTIES
  StaleWorkLeft
  SharesSettle
  LinesReceived
CHECK_DEADLOCK FALSE
