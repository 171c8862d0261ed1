SPECIFICATION MCSpec
CONSTANTS
  p1 = p1
  p2 = p2
  i1 = i1
  i2 = i2
  m1 = m1
  m2 = m2
  Pool <- MCPool
  MaxPending = 1
  Item = {i1, i2}
  Source = {s1, s2}
  Miner = {m1, m2}
  Main = Main
  WorkPool = {getwork, gen}
  LocalGen = {gen}
  NoWork = NoWork
PROPERTIES
  MinersFed
  
CHECK_DEADLOCK FALSE
