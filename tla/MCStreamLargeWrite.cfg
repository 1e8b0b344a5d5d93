SPECIFICATION TokenSpec
CONSTANTS
  BufferSize = 3
  FlagLength = 2
  PipeCapacity = 3
  WriteSizes = {1, 3}
  ReadSizes = {1, 3}
  Messages <- mcMessages
  MaxWritten = 6
  MaxSent = 0
  MaxDeleted = 1
INVARIANT OutFIFO
CHECK_DEADLOCK FALSE
