SPECIFICATION FairSpec
CONSTANTS
  Files = {1, 2}
  Queue <- mcQueue
  PreEpoch = {2}
  RequestLength = 2
  ReplyLength = 1
  PipeCapacity = 1
  Digests <- mcDigests
  AbortsAt = {"generate", "index", "header", "token", "digest"}
  CanFail <- mcCanFail
INVARIANTS NeverWritesIntoFlush UpdatedIsCurrent Accounted LeftoversAreStale LogicalBytesMatch
PROPERTIES LocalFileKept Terminates
CHECK_DEADLOCK FALSE
