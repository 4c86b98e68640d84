SPECIFICATION MCSpec
CONSTANTS
  Owner = t1
  Threads = {t1, t2, t3}
  MaxFunctors = 4
INVARIANTS
  WakeupReadSucceeds
  StartedLoopIsAlive
PROPERTIES
  ImplementsFunctorQueue
  EveryFunctorRuns
  QuitStopsLoop
  OwnerReturns
