SPECIFICATION FairSpec
CONSTANTS
  Operations <- mcOperations
  Connections <- mcConnections
  Itemized = {"remove", "mkdir"}
  Sizes <- mcSizes
  Lengths <- mcLengths
  MaxLines = 1
INVARIANTS ProtocolsAgree InStep SkippedIsExact LogicalIsExact
PROPERTIES Terminates
CHECK_DEADLOCK FALSE
