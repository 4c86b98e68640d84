SPECIFICATION FairSpec
CONSTANTS
  Environments <- AnyThread
  MaxMessages = 3
  MaxQueue = 2
  MaxDowns = 1
INVARIANTS
  StreamIntact
  RawFunctorsFindConnection
  WritingIffBuffered
  LifeInOrder
PROPERTIES
  ClosesFinish
\* The life of a connection ends.
CHECK_DEADLOCK FALSE
