SPECIFICATION Spec
CONSTANTS
  Slash = 2
  Paths <- mcPaths
  RemoteTrees <- mcRemoteTrees
  LocalTrees <- mcLocalTrees
  Invalid <- mcInvalid
  Unlisted <- mcUnlisted
  Internal <- mcInternal
  Selections <- mcSelections
INVARIANTS ListIsSorted QueueIsExact Mirror SizesAreExact
PROPERTIES RemovesOnlyMissing
CHECK_DEADLOCK FALSE
