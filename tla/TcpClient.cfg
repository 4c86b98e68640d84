SPECIFICATION FairSpec
CONSTANTS
  MaxSockets = 4
  MaxCalls = 5
  Environments <- MCEnvironments
INVARIANTS
  SocketsOwned
  
  StopEndsAttempt
PROPERTIES
  Reconnects
\* A program may end, and its clients may have nothing more to do.
CHECK_DEADLOCK FALSE
