SPECIFICATION FairSpec
CONSTANTS
  a = a
  b = b
  Share = {a, b}
  NoShare = NoShare
  MaxTries = 1
  MaxSession = 2
  MaxLines = 1
  opt_lowmem = FALSE
INVARIANTS
  TypeOK
  OneOwner
  
  EveryShareCounted
PROPERTIES
  SenderDrains
CHECK_DEADLOCK FALSE
