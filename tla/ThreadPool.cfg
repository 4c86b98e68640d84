SPECIFICATION FairSpec
CONSTANTS
  Callers = {c1, c2}
  MaxThreads = 3
  MaxTasks = 3
  MaxStarts = 3
PROPERTIES
  StopDrains
  TasksInOrder
  PoolProgresses
\* The bounds are used up and everybody is done.
CHECK_DEADLOCK FALSE
