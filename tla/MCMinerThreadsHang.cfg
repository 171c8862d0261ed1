SPECIFICATION HangSpec
CONSTANTS
  GpuOf <- MCOne
  NoThread = NoThread
  Events = {"gpudisable", "gpurestart", "menu", "autotune", "hang"}
  MaxPosts = 1
  MaxQueue = 1
PROPERTIES
  Noticed
CHECK_DEADLOCK FALSE
