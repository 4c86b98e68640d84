SPECIFICATION FairSpec
CONSTANTS
  Files = {"f1", "f2"}
  Workers = 2
  MaxPasv = 2
  MaxConns = 2
  MaxXfers = 2
  Environments <- MCEnvironments
INVARIANTS
  StreamInOrder
  DescriptorsOwned
  TransfersApart
  OneFinalReply
  PortStaysOpen
PROPERTIES
  TransferEnds
  SessionEnds
CHECK_DEADLOCK FALSE
