SPECIFICATION FairSpec
CONSTANTS
  MaxThreads = 2
  MaxPicks = 4
  FdLimit = 4
  Environments <- AnyEnvironment
INVARIANTS
  Balanced
  SpareKept
  RawPointersLive
PROPERTIES
  BacklogDrains
  FdReturned
CHECK_DEADLOCK FALSE
