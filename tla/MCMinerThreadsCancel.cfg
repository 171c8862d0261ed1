SPECIFICATION FairSpec
CONSTANTS
  GpuOf <- MCTwo
  NoThread = NoThread
  Events = {"gpurestart"}
  MaxPosts = 1
  MaxQueue = 1
PROPERTIES
  OthersGetWork
CHECK_DEADLOCK FALSE
