SPECIFICATION Spec
CONSTANTS
  Environments <- ForceClosingThread
  MaxMessages = 0
  MaxQueue = 2
  MaxDowns = 1
INVARIANTS
  ForceCloseIsThreadSafe
\* The life of a connection ends.
CHECK_DEADLOCK FALSE
