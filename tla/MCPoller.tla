------------------------------ MODULE MCPoller ------------------------------
(***************************************************************************)
(* Instance of Poller for TLC.  Channel addresses and descriptors are      *)
(* interchangeable.                                                        *)
(***************************************************************************)
EXTENDS Poller, TLC

PollerSymmetry == Permutations(Channels) \cup Permutations(Fds)
=============================================================================
