---------------------------- MODULE MCTcpServer -----------------------------
(***************************************************************************)
(* Every environment: other threads opening files or not, a server that is *)
(* destroyed or not.                                                       *)
(***************************************************************************)
EXTENDS TcpServer

AnyEnvironment == [others: BOOLEAN, destroys: BOOLEAN]
=============================================================================
