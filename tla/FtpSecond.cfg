SPECIFICATION Spec
CONSTANTS
  Files = {"f1"}
  Workers = 2
  MaxPasv = 1
  MaxConns = 2
  MaxXfers = 1
  Environments <- StrayEnvironments
INVARIANT
  SecondRefused
CHECK_DEADLOCK FALSE
