SPECIFICATION Spec
CONSTANTS
  i1 = i1
  i2 = i2
  i3 = i3
  s1 = s1
  s2 = s2
  s3 = s3
  m1 = m1
  m2 = m2
  getwork = getwork
  stratum = stratum
  lp = lp
  Item = {i1, i2, i3}
  Source = {s1, s2}
  Miner = {m1, m2}
  Lp = {lp}
  Main = Main
  Pool = {getwork, stratum}
  LocalGen = {stratum}
  NoWork = NoWork
  OptQueue = 0
  MaxQueue = 1
  RollLimit = 2
  MaxRollable = 2
SYMMETRY Symmetry
INVARIANTS
  TypeOK
  PopFindsWork
  NoneSleepsOverWork
  NotAllAsleep
  DistinctWork
  NoWorkHasWaiter
