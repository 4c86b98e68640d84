SPECIFICATION Spec
CONSTANTS
  Addresses = {a1, a2}
  Threads = {t1}
  Intervals = {1}
  MaxTime = 3
  MaxPending = 1
  MaxTimers = 2
INVARIANT
  AddTimerReadsItsTimer
