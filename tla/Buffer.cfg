SPECIFICATION Spec
CONSTANTS
  kCheapprepend = 2
  kInitialSize = 2
  ExtraSize = 1
  Base = 2
  CR = 1
  LF = 0
  Widths <- MCWidths
  MaxContent = 4
  MaxLen = 2
INVARIANTS
  MemoryBounded
PROPERTIES
  HeadroomKept
  IsByteQueue
