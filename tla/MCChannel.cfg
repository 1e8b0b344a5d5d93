SPECIFICATION FairSpec
CONSTANTS
  Kinds = {"ssh", "socket"}
  MaxTimeout = 1
  MaxSize = 2
  MaxPipe = 2
  MaxNoise = 1
  MaxBelow = 1
PROPERTIES TimesOutLate CallsEnd
CHECK_DEADLOCK FALSE
