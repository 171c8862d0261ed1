SPECIFICATION Spec
CONSTANTS
  a = a
  b = b
  Share = {a, b}
  NoShare = NoShare
  MaxTries = 1
  MaxSession = 2
  MaxLines = 1
  opt_lowmem = FALSE
PROPERTIES
  AuthAnswer
CHECK_DEADLOCK FALSE
