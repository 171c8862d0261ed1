SPECIFICATION Spec
CONSTANTS
  GpuOf <- MCOne
  NoThread = NoThread
  Events = {"autotune"}
  MaxPosts = 1
  MaxQueue = 1
INVARIANTS
  NoLostWakeup
CHECK_DEADLOCK FALSE
