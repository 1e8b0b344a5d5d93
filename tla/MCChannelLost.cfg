SPECIFICATION Spec
CONSTANTS
  Kinds = {"socket"}
  MaxTimeout = 1
  MaxSize = 1
  MaxPipe = 1
  MaxNoise = 0
  MaxBelow = 1
PROPERTY CancelNoticed
CHECK_DEADLOCK FALSE
