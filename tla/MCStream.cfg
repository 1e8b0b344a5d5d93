SPECIFICATION FairSpec
CONSTANTS
  BufferSize = 3
  FlagLength = 2
  PipeCapacity = 3
  WriteSizes = {1, 2}
  ReadSizes = {1, 3}
  Messages <- mcMessages
  MaxWritten = 3
  MaxSent = 4
  MaxDeleted = 1
INVARIANTS OutFIFO DeletionsRecorded FrameIntegrity
PROPERTIES FlushFreezesBuffer FlushCompletes OutboundChannel InboundChannel
CHECK_DEADLOCK FALSE
