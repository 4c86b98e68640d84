---------------------------- MODULE MCTcpClient -----------------------------
(***************************************************************************)
(* Instances of TcpClient for TLC.                                         *)
(***************************************************************************)
EXTENDS TcpClient

MCEnvironments == [caller: {"loop", "thread"}, net: {"ok", "refusing"}, retry: BOOLEAN, burst: {1, 2}]
=============================================================================
