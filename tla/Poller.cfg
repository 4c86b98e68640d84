SPECIFICATION PollerSpec
CONSTANTS
  Channels = {c1, c2, c3, c4}
  Fds = {f1, f2, f3}
  NoChannel = NoChannel
SYMMETRY PollerSymmetry
INVARIANTS
  NoDanglingChannel
  EpollCtlNeverRefused
