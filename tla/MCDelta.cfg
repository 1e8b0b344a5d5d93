SPECIFICATION Spec
CONSTANTS
  BlockLength = 2
  PlainChunk = 3
  Modulus = 2
  OldFiles <- mcOldFiles
  NewFiles <- mcNewFiles
INVARIANTS AssertsHold EveryByteSentOnce RollingIsExact Reconstructs
CHECK_DEADLOCK FALSE
