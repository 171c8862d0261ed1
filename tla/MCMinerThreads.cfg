SPECIFICATION FairSpec
CONSTANTS
  GpuOf <- MCOne
  NoThread = NoThread
  Events = {"gpuenable", "gpudisable", "schedule", "restart", "intensity"}
  MaxPosts = 1
  MaxQueue = 1
INVARIANTS
  NoLostWakeup
PROPERTIES
  Stops
  Mines
CHECK_DEADLOCK FALSE
