SPECIFICATION MCSpec
CONSTANTS
  t1 = t1
  t2 = t2
  t3 = t3
  Thread <- MCThread
  NoThread = NoThread
  Item = {i1, i2, i3}
  Pusher = {u1, u2}
  Popper = p
  NoItem = NoItem
  Nobody = Nobody
  Targets <- MCTargets
  Unowned = "nobody"
  LateLog = FALSE
INVARIANTS
  ModesCompatible
  NotAllBlocked
  NoUseAfterFree
PROPERTIES
  ReadersOnlyDrain
  RefinesAtomicLock
  WriterProceeds
  RefinesAtomicQueue
  ItemsDelivered
  ShutdownEnds
CHECK_DEADLOCK FALSE
