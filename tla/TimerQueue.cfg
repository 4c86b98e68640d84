SPECIFICATION FairSpec
CONSTANTS
  Addresses = {a1, a2}
  Threads = {t1}
  Intervals = {1}
  MaxTime = 3
  MaxPending = 2
  MaxTimers = 2
INVARIANTS
  OneOwner
  NoMissedTimer
  CancelIsFinal
  NothingLost
PROPERTY
  TimersFire
