-------------------------- MODULE MCTcpConnection ---------------------------
(***************************************************************************)
(* Instances of TcpConnection for TLC: the environments of the runs.       *)
(***************************************************************************)
EXTENDS TcpConnection

Environment(sameLoop, calls, threadCalls, keepsRef, destroysServer, messages) ==
  [sameLoop |-> sameLoop, calls |-> calls, threadCalls |-> threadCalls,
   keepsRef |-> keepsRef, destroysServer |-> destroysServer,
   messages |-> messages]

(***************************************************************************)
(* Everything on the IO loop, and sends from another thread, with a server *)
(* that outlives the connection; and, on a single loop, one that does not. *)
(***************************************************************************)
SendingThread == {Environment(FALSE, CallNames, {"send"}, TRUE, FALSE, 3),
                  Environment(TRUE, CallNames, {"send"}, TRUE, FALSE, 3),
                  Environment(TRUE, {"send"}, {"send"}, TRUE, TRUE, 3)}

(***************************************************************************)
(* Another thread shuts down and closes too, and the server may end first. *)
(***************************************************************************)
ClosingThread == {Environment(FALSE, {"send", "shutdown"}, CallNames, TRUE, TRUE, 2)}

AnyThread == SendingThread \cup ClosingThread

ForceClosingThread == {Environment(FALSE, {}, {"forceClose"}, TRUE, FALSE, 0)}
=============================================================================
