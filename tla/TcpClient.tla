----------------------------- MODULE TcpClient ------------------------------
(***************************************************************************)
(* Muduo::TcpClient with its Connector, the TcpConnection it makes, the    *)
(* loop they live on, and the users of the client: callbacks on the loop,  *)
(* or another thread.  The state is one record c; methods are operators on *)
(* it, as in module Connector.  The loop runs in iterations: at most       *)
(* env.burst events of one poll, then the functors queued so far.          *)
(***************************************************************************)
EXTENDS Connector

CONSTANTS
  MaxCalls,      \* bound: calls of the client's methods
  Environments   \* who calls, how the network answers; chosen once

ASSUME TcpClientAssumption ==
  /\ MaxSockets \in Nat /\ MaxCalls \in Nat
  /\ Environments \subseteq [caller: {"loop", "thread"}, net: {"ok", "refusing"},
                             retry: BOOLEAN, burst: Nat]

VARIABLES c, env

vars == <<c, env>>

Rets == IF env.net = "ok" THEN {"connecting"} ELSE {"connecting", "retry", "error"}
Outcomes == IF env.net = "ok" THEN {TRUE} ELSE BOOLEAN
InLoop == env.caller = "loop"
Patient == InLoop /\ env.burst = 1

-----------------------------------------------------------------------------
(* The methods of TcpClient, and of TcpConnection as the client uses them. *)

newConnection(t) ==
  IF t.client = "destroyed" THEN [t EXCEPT !.halt = "dangling"]
  ELSE [t EXCEPT !.connection_ = t.established, !.established = 0,
                 !.conn = [fd |-> t.established, state |-> "KConnected", closeCallback |-> "client"]]

(***************************************************************************)
(* connnectDestroyed, called at once: this is the loop's thread.  The      *)
(* socket goes with the last pointer to the connection.                    *)
(***************************************************************************)
connectDestroyed(t) == [close(t, t.conn.fd) EXCEPT !.conn = [@ EXCEPT !.fd = 0, !.state = "KDisconnected"]]

(***************************************************************************)
(* removeConnection up to the test of retry_ and connect_.  A stop of      *)
(* another thread can come between the test and the call of restart.       *)
(***************************************************************************)
RemoveWithoutRestart(t) == connectDestroyed([t EXCEPT !.connection_ = 0])
removeConnection(t) ==
  IF t.client = "destroyed" THEN [t EXCEPT !.halt = "dangling"]
  ELSE [connectDestroyed([t EXCEPT !.connection_ = 0]) EXCEPT !.restarting = t.retry_ /\ t.clientConnect_]

handleClose(t) == IF t.conn.closeCallback = "client" THEN removeConnection(t) ELSE connectDestroyed(t)

freeConnector(t) ==
  [t EXCEPT !.connector_ = "freed", !.halt = IF t.channel_ # 0 THEN "assert" ELSE @]

(***************************************************************************)
(* ~TcpClient; unique: no one else has a pointer to the connection.  With  *)
(* a connection the Connector goes at once, without one a timer keeps it   *)
(* for another second.                                                     *)
(***************************************************************************)
DestroyKeepsCallback(t, inLoop, unique) ==
  LET u == [t EXCEPT !.client = "destroyed", !.connection_ = 0]
  IN  IF t.connection_ # 0 THEN freeConnector(u)
      ELSE [stop(u, inLoop) EXCEPT !.connector_ = "held"]
destroy(t, inLoop, unique) ==
  LET u == [t EXCEPT !.client = "destroyed", !.connection_ = 0]
      v == IF inLoop THEN [u EXCEPT !.conn.closeCallback = "none"] ELSE queueInLoop(u, "setCloseCallback")
      w == IF unique THEN queueInLoop([v EXCEPT !.conn.state = "KDisconnecting"], "forceClose") ELSE v
  IN  IF t.connection_ # 0 THEN freeConnector(w)
      ELSE [stop(u, inLoop) EXCEPT !.connector_ = "held"]

-----------------------------------------------------------------------------
(* The steps. *)

Init ==
  /\ env \in Environments
  /\ c = [connect_ |-> FALSE, state_ |-> "KDisconnected", channel_ |-> 0,
          sockets |-> [i \in 1..MaxSockets |-> "unused"], registered |-> {}, established |-> 0,
          client |-> "alive", connector_ |-> "owned", clientConnect_ |-> FALSE,
          retry_ |-> env.retry, connection_ |-> 0,
          conn |-> [fd |-> 0, state |-> "KDisconnected", closeCallback |-> "none"],
          q |-> <<>>, batch |-> <<>>, events |-> 0, calls |-> 0, halt |-> "",
          restarting |-> FALSE, call |-> "", stopped |-> FALSE]

Becomes(t) == c.halt = "" /\ c' = t /\ UNCHANGED env

(***************************************************************************)
(* The loop's thread is not inside handleWrite or removeConnection.        *)
(***************************************************************************)
Idle(t) == t.established = 0 /\ ~t.restarting

(***************************************************************************)
(* One event of the iteration.                                             *)
(***************************************************************************)
Event(t) ==
  /\ Idle(c) /\ c.batch = <<>> /\ c.events < env.burst
  /\ Becomes([t EXCEPT !.events = @ + 1])

(***************************************************************************)
(* A call of the user: from a callback of the loop, or from a thread that  *)
(* is not in another call.                                                 *)
(***************************************************************************)
Call(t) ==
  /\ c.client = "alive" /\ c.call = "" /\ c.calls < MaxCalls
  /\ LET u == [t EXCEPT !.calls = @ + 1] IN IF InLoop THEN Event(u) ELSE Becomes(u)

(***************************************************************************)
(* connect, disconnect and stop, at any time and in any order.  The field  *)
(* stopped records which of connect and stop was called last.              *)
(***************************************************************************)
Connect ==
  /\ FreeSockets(c) # {}
  /\ \E ret \in Rets :
       Call(start([c EXCEPT !.clientConnect_ = TRUE, !.stopped = FALSE], InLoop, ret))

Disconnect ==
  Call([c EXCEPT !.clientConnect_ = FALSE,
                 !.conn.state = IF c.connection_ # 0 /\ @ = "KConnected" THEN "KDisconnecting" ELSE @])

Stop == Call(stop([c EXCEPT !.clientConnect_ = FALSE, !.stopped = TRUE], InLoop))

ThreadStep == c.call # "" /\ Becomes(offLoop(c))

Destroy == \E unique \in BOOLEAN : Call(destroy(c, InLoop, unique))

(***************************************************************************)
(* Channel::handleEvent for the Connector's channel: writable, or an error *)
(* and then writable.                                                      *)
(***************************************************************************)
ConnectorWritable ==
  /\ c.registered # {}
  /\ \E good \in Outcomes : Event(handleWrite(c, good))

ConnectorError ==
  /\ c.registered # {} /\ env.net = "refusing"
  /\ Event(IF handleError(c).halt = "" THEN handleWrite(handleError(c), FALSE) ELSE handleError(c))

PeerCloses ==
  /\ c.conn.fd # 0 /\ (c.retry_ /\ c.clientConnect_ => FreeSockets(c) # {})
  /\ Event(handleClose(c))

(***************************************************************************)
(* What the loop's thread does after the test of connect_ in handleWrite   *)
(* and in removeConnection.                                                *)
(***************************************************************************)
NewConnection == c.established # 0 /\ Becomes(newConnection(c))

Restart ==
  /\ c.restarting /\ FreeSockets(c) # {}
  /\ \E ret \in Rets :
       Becomes(IF c.client = "destroyed" THEN [c EXCEPT !.halt = "dangling"]
               ELSE restart([c EXCEPT !.restarting = FALSE], ret))

(***************************************************************************)
(* The timer of the destructor; the functors queued a second ago have run. *)
(***************************************************************************)
ReleaseConnector == c.connector_ = "held" /\ c.call = "" /\ c.q = <<>> /\ Event(freeConnector(c))

doPendingFunctors ==
  /\ Idle(c) /\ c.batch = <<>> /\ (c.events > 0 \/ c.q # <<>>)
  /\ Becomes([c EXCEPT !.batch = c.q, !.q = <<>>, !.events = 0])

(***************************************************************************)
(* The Connector's functors hold a bare this; the connection's hold a      *)
(* pointer that keeps it alive.                                            *)
(***************************************************************************)
Bare == {"resetChannel", "startInLoop", "stopInLoop"}

Functor(f, t, ret) ==
  CASE f \in Bare /\ t.connector_ = "freed" -> [t EXCEPT !.halt = "dangling"]
    [] f = "resetChannel" /\ t.connector_ # "freed" -> resetChannel(t)
    [] f = "startInLoop" /\ t.connector_ # "freed" -> startInLoop(t, ret)
    [] f = "stopInLoop" /\ t.connector_ # "freed" -> stopInLoop(t)
    [] f = "setCloseCallback" -> [t EXCEPT !.conn.closeCallback = "none"]
    [] f = "forceClose" -> IF t.conn.fd # 0 THEN handleClose(t) ELSE t

RunFunctor ==
  /\ Idle(c) /\ c.batch # <<>>
  /\ Head(c.batch) = "startInLoop" => FreeSockets(c) # {}
  /\ \E ret \in Rets : Becomes(Functor(Head(c.batch), [c EXCEPT !.batch = Tail(@)], ret))

Next ==
  \/ Connect \/ Disconnect \/ Stop \/ Destroy \/ ThreadStep
  \/ ConnectorWritable \/ ConnectorError \/ PeerCloses \/ NewConnection \/ Restart
  \/ ReleaseConnector
  \/ doPendingFunctors \/ RunFunctor

Spec == Init /\ [][Next]_vars

(***************************************************************************)
(* The loop ends its handlers and runs its functors, and the network       *)
(* answers the attempt.                                                    *)
(***************************************************************************)
FairSpec ==
  Spec /\ WF_vars(NewConnection \/ Restart \/ doPendingFunctors \/ RunFunctor) /\ WF_vars(ConnectorWritable)

-----------------------------------------------------------------------------
(***************************************************************************)
(* Types.                                                                  *)
(***************************************************************************)
Functors == Bare \cup {"setCloseCallback", "forceClose"}

ClientRecord ==
  [connect_: BOOLEAN, state_: {"KDisconnected", "Kconnecting", "Kconnected"},
   channel_: 0..MaxSockets, sockets: [1..MaxSockets -> {"unused", "open", "closed"}],
   registered: SUBSET (1..MaxSockets), established: 0..MaxSockets,
   client: {"alive", "destroyed"}, connector_: {"owned", "held", "freed"},
   clientConnect_: BOOLEAN, retry_: BOOLEAN, connection_: 0..MaxSockets,
   conn: [fd: 0..MaxSockets, state: {"KDisconnected", "KConnected", "KDisconnecting"},
          closeCallback: {"none", "client"}],
   q: Seq(Functors), batch: Seq(Functors), events: Nat, calls: Nat,
   halt: {"", "throw", "startInLoop", "assert", "dangling"}, restarting: BOOLEAN,
   call: {"", "start", "set", "startInLoop", "stopInLoop"}, stopped: BOOLEAN]

TypeOK == c \in ClientRecord /\ env \in Environments /\ c.connection_ \in {0, c.conn.fd}

(***************************************************************************)
(* The socket of the attempt to connect, and what owns the open sockets.   *)
(***************************************************************************)
Attempt(t) == { i \in {t.channel_} : t.state_ = "Kconnecting" }
Owned(t) ==
  /\ { i \in 1..MaxSockets : t.sockets[i] = "open" } = Attempt(t) \cup ({t.established, t.conn.fd} \ {0})
  /\ t.registered = Attempt(t)

(***************************************************************************)
(* A functor that is still to run, and a stop() that is.                   *)
(***************************************************************************)
Has(s, f) == \E k \in 1..Len(s) : s[k] = f
Once(s, f) == \A j, k \in 1..Len(s) : s[j] = f /\ s[k] = f => j = k
Pending(t, f) == Has(t.batch, f) \/ Has(t.q, f)
StopPending(t) == t.call = "stopInLoop" \/ Pending(t, "stopInLoop")

(***************************************************************************)
(* Types; and whatever the calls and the network do, up to the moment the  *)
(* program ends, an open socket has exactly one owner, the Connector while *)
(* it is connecting, handleWrite while it hands it over or the connection, *)
(* and the poller knows the Connector's socket only while it is open.      *)
(***************************************************************************)
SocketsOwned == TypeOK /\ (c.halt \in {"", "throw"} => Owned(c))

(***************************************************************************)
(* With one call per iteration of the loop no functor or callback finds    *)
(* its object gone and one assertion alone can fail: startInLoop's, on a   *)
(* connect() for a Connector in Kconnected that stop() had told not to     *)
(* connect; never during an attempt, and never with a Channel left over.   *)
(***************************************************************************)
CallsAreSafe ==
  Patient => \/ c.halt \in {"", "throw"}
             \/ c.halt = "startInLoop" /\ c.state_ = "Kconnected" /\ c.channel_ = 0

(***************************************************************************)
(* stop() ends the attempt: once its functor has run, and until connect()  *)
(* is called again, the Connector is not connecting and no connection is   *)
(* being made, on whichever thread stop() was called and wherever it met   *)
(* the handlers of the loop, a restart that sets connect_ again included.  *)
(***************************************************************************)
StopEndsAttempt ==
  c.halt = "" /\ c.stopped /\ ~StopPending(c) => c.state_ # "Kconnecting" /\ Idle(c)

(***************************************************************************)
(* A client on its loop with enableRetry that has a connection or is       *)
(* connecting gets one again however often the peer closes it, while the   *)
(* network answers, unless the user calls disconnect or stop or destroys   *)
(* the client.                                                             *)
(***************************************************************************)
Wanted == Patient /\ env.net = "ok" /\ c.retry_ /\ c.clientConnect_ /\ c.client = "alive"
Reconnects ==
  [](Wanted /\ (c.connection_ # 0 \/ c.state_ = "Kconnecting") => []<>(c.connection_ # 0) \/ <>~Wanted)

-----------------------------------------------------------------------------
(* The inductive invariants behind the three of them.                      *)

(***************************************************************************)
(* The Connector has a Channel while it is connecting, and then until the  *)
(* one functor resetChannel that it has queued runs.                       *)
(***************************************************************************)
ChannelKept(t) ==
  /\ Pending(t, "resetChannel") <=> (t.channel_ # 0 /\ t.state_ # "Kconnecting")
  /\ t.state_ = "Kconnecting" => t.channel_ # 0
  /\ ~(Has(t.batch, "resetChannel") /\ Has(t.q, "resetChannel"))
  /\ Once(t.batch, "resetChannel") /\ Once(t.q, "resetChannel")

(***************************************************************************)
(* While the program runs, a connection is there or on its way only when   *)
(* the Connector is done; until the client is destroyed, they know each    *)
(* other.                                                                  *)
(***************************************************************************)
Running(t) ==
  /\ ChannelKept(t)
  /\ t.conn.fd # 0 \/ ~Idle(t) => t.state_ = "Kconnected"
  /\ t.conn.fd # 0 => Idle(t)
  /\ ~(t.established # 0 /\ t.restarting)
  /\ t.client = "alive" => /\ t.connection_ = t.conn.fd
                           /\ t.conn.fd # 0 => t.conn.closeCallback = "client"
                           /\ \A f \in {"forceClose", "setCloseCallback"} : ~Pending(t, f)
  /\ t.client = "destroyed" => t.connection_ = 0

Sound(t) ==
  /\ t \in ClientRecord /\ t.connection_ \in {0, t.conn.fd}
  /\ t.halt \in {"", "throw"} => Owned(t)
  /\ t.halt = "" => Running(t)

OwnedInv == env \in Environments /\ Sound(c)

(***************************************************************************)
(* With one call per iteration nothing is left behind that would need the  *)
(* Connector or the client when they are gone, and there is no functor     *)
(* left when a call or an event comes.                                     *)
(***************************************************************************)
Settled(t) ==
  /\ t.client = "destroyed" /\ t.conn.fd # 0 => t.conn.closeCallback = "none"
  /\ t.connector_ # "owned" => t.client = "destroyed"
  /\ t.connector_ = "freed" => t.channel_ = 0
  /\ t.call = "" /\ \A f \in {"startInLoop", "stopInLoop"} : ~Pending(t, f)

Quiet(t) ==
  /\ Settled(t)
  /\ t.state_ = "Kconnecting" => t.connect_
  /\ t.state_ = "Kconnecting" \/ ~Idle(t) => t.client = "alive"
  /\ t.restarting => t.channel_ = 0

SafeInv == CallsAreSafe /\ (Patient /\ c.halt = "" => Quiet(c) /\ (c.events = 0 => c.q = <<>>))

(***************************************************************************)
(* After stop() a startInLoop that is still queued is followed by a        *)
(* stopInLoop, and so is an attempt.                                       *)
(***************************************************************************)
StopLast(s) == \A k \in 1..Len(s) : s[k] = "startInLoop" => \E j \in k..Len(s) : s[j] = "stopInLoop"

Stopping(t) ==
  /\ StopLast(t.q) /\ (StopLast(t.batch) \/ Has(t.q, "stopInLoop"))
  /\ t.state_ = "Kconnecting" \/ ~Idle(t) => Pending(t, "stopInLoop")

StopInv ==
  /\ c.stopped => ~c.clientConnect_ /\ c.call \in {"", "stopInLoop"}
  /\ InLoop => c.call = "" /\ ~Pending(c, "startInLoop")
  /\ c.halt = "" /\ c.stopped /\ c.call = "" => Stopping(c)
=============================================================================
