SPECIFICATION EntriesSpec
CONSTANTS
  Protocols = {29, 30}
  EntryPaths <- mcPaths
  Sizes <- mcSizes
  Times <- mcTimes
  Modes = {1, 2}
  Links = {2}
  Targets <- mcTargets
  Indices <- mcIndices
  MaxByte = 2
  MaxUnderWay = 2
INVARIANTS ReadIsWritten EndsInStep
