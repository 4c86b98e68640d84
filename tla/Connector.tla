----------------------------- MODULE Connector ------------------------------
(***************************************************************************)
(* Muduo::Connector: one attempt at a time to connect to a server, from    *)
(* the loop.  A method is an operator from the state record t before the   *)
(* call to the one after; module TcpClient holds the record and runs the   *)
(* loop.  The fields used here are                                         *)
(*   connect_, state_, channel_ (the socket of the Channel, 0 for null),   *)
(*   sockets (what became of each socket), registered (sockets with a      *)
(*   Channel in the poller), q (pending functors), halt (how the program   *)
(*   ended, "" while it runs), established (the argument of the call of    *)
(*   newConnectionCallback_ that the loop's thread is about to make, 0 for *)
(*   no call), call (what a thread that is not the loop's still has to do  *)
(*   in start or stop, "" for nothing).                                    *)
(***************************************************************************)
EXTENDS Integers, Sequences, FiniteSets

CONSTANT MaxSockets   \* bound: attempts to connect

queueInLoop(t, f) == [t EXCEPT !.q = Append(@, f)]
close(t, sockfd) == [t EXCEPT !.sockets[sockfd] = "closed"]
FreeSockets(t) == { i \in 1..MaxSockets : t.sockets[i] = "unused" }

(***************************************************************************)
(* retry with connect_ set: shared_from_this throws bad_weak_ptr, because  *)
(* Connector inherits enable_shared_from_this privately and shared_ptr     *)
(* cannot set its weak pointer.  Nothing catches it; no timer is started   *)
(* and retryDelayMs_ keeps its value.                                      *)
(***************************************************************************)
retry(t, sockfd) ==
  LET u == [close(t, sockfd) EXCEPT !.state_ = "KDisconnected"]
  IN  IF t.connect_ THEN [u EXCEPT !.halt = "throw"] ELSE u

connecting(t, sockfd) ==
  IF t.channel_ # 0 THEN [t EXCEPT !.state_ = "Kconnecting", !.halt = "assert"]
  ELSE [t EXCEPT !.state_ = "Kconnecting", !.channel_ = sockfd, !.registered = @ \cup {sockfd}]

(***************************************************************************)
(* connect; ret: what connect(2) says, in the three groups of the switch.  *)
(***************************************************************************)
connect(t, ret) ==
  LET sockfd == CHOOSE i \in FreeSockets(t) : TRUE
      u == [t EXCEPT !.sockets[sockfd] = "open"]
  IN  CASE ret = "connecting" -> connecting(u, sockfd)
        [] ret = "retry" -> retry(u, sockfd)
        [] ret = "error" -> close(u, sockfd)

startInLoop(t, ret) ==
  IF t.state_ # "KDisconnected" THEN [t EXCEPT !.halt = "startInLoop"]
  ELSE IF t.connect_ THEN connect(t, ret) ELSE t

(***************************************************************************)
(* The Channel leaves the poller at once, and is deleted by a functor.     *)
(***************************************************************************)
removeAndResetChannel(t) ==
  queueInLoop([t EXCEPT !.registered = @ \ {t.channel_}], "resetChannel")

resetChannel(t) == [t EXCEPT !.channel_ = 0]

StopKeepsSocket(t) ==
  IF t.state_ # "Kconnecting" THEN t
  ELSE removeAndResetChannel([t EXCEPT !.state_ = "KDisconnected"])
stopInLoop(t) ==
  IF t.state_ # "Kconnecting" THEN t
  ELSE close(removeAndResetChannel([t EXCEPT !.state_ = "KDisconnected"]), t.channel_)

(***************************************************************************)
(* start and stop.  On the loop's thread runInLoop calls and they are one  *)
(* step.  On another thread the loop runs between the accesses to          *)
(* connect_, a plain bool, and the call of queueInLoop: offLoop is what    *)
(* that thread does next.                                                  *)
(***************************************************************************)
start(t, inLoop, ret) ==
  IF ~inLoop THEN [t EXCEPT !.call = "start"]
  ELSE IF t.connect_ THEN t ELSE startInLoop([t EXCEPT !.connect_ = TRUE], ret)

StopOnlyMarks(t, inLoop) == [t EXCEPT !.connect_ = FALSE]
stop(t, inLoop) ==
  LET u == [t EXCEPT !.connect_ = FALSE]
  IN  IF inLoop THEN stopInLoop(u) ELSE [u EXCEPT !.call = "stopInLoop"]

offLoop(t) ==
  CASE t.call = "start" -> [t EXCEPT !.call = IF t.connect_ THEN "" ELSE "set"]
    [] t.call = "set" -> [t EXCEPT !.connect_ = TRUE, !.call = "startInLoop"]
    [] t.call \in {"startInLoop", "stopInLoop"} -> queueInLoop([t EXCEPT !.call = ""], t.call)

restart(t, ret) == startInLoop([t EXCEPT !.state_ = "KDisconnected", !.connect_ = TRUE], ret)

(***************************************************************************)
(* The socket is writable; good: SO_ERROR is 0 and it is not connected to  *)
(* itself.  The handler up to the test of connect_ and the branch it takes *)
(* there: a stop of another thread can still come before the call of       *)
(* newConnectionCallback_, which is a step of its own.                     *)
(***************************************************************************)
handleWrite(t, good) ==
  LET u == removeAndResetChannel(t)
      v == [u EXCEPT !.state_ = "Kconnected"]
  IN  IF t.state_ # "Kconnecting"
      THEN IF t.state_ = "KDisconnected" THEN t ELSE [t EXCEPT !.halt = "assert"]
      ELSE IF ~good THEN retry(u, t.channel_)
      ELSE IF t.connect_ THEN [v EXCEPT !.established = t.channel_]
      ELSE close(v, t.channel_)

handleError(t) ==
  IF t.state_ # "Kconnecting" THEN [t EXCEPT !.halt = "assert"]
  ELSE retry(removeAndResetChannel(t), t.channel_)
=============================================================================
