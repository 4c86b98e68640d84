----------------------------- MODULE TcpServer ------------------------------
(***************************************************************************)
(* Muduo::TcpServer: the Acceptor on the base loop, the pool it takes IO   *)
(* loops from (module EventLoopThreadPool, whose variables are this        *)
(* module's too), and its connections with the functors that the base loop *)
(* and the IO loops queue for each other.  Module TcpConnection follows    *)
(* one connection in detail; here there are several, and descriptors that  *)
(* run out.  Descriptors are counted: FdLimit is the number the process    *)
(* may have besides those it never closes.                                 *)
(***************************************************************************)
EXTENDS EventLoopThreadPool, Sequences, FiniteSets

CONSTANTS
  FdLimit,
  Environments   \* what else happens in the process; chosen once

ASSUME TcpServerAssumption ==
  /\ FdLimit \in Nat \ {0}
  /\ Environments \subseteq [others: BOOLEAN, destroys: BOOLEAN]

VARIABLES
  env,         \* others: other threads open files; destroys: the server may end
  listening_,
  idlefd_,     \* whether the spare descriptor is open
  step,        \* the next system call of Acceptor::handleRead
  backlog,     \* connections the kernel holds for accept
  arrived,     \* history: clients so far, at most MaxPicks
  others,      \* descriptors of other threads
  conns,       \* per connection, what became of it
  loopOf,      \* its IO loop
  functors,    \* per loop, the pending functors
  server       \* "alive", "destroyed", or "broken": an object used after its end

acceptorVars == <<listening_, idlefd_, step, backlog, arrived>>
connVars == <<conns, loopOf, functors, server>>
serverVars == <<vars, env, acceptorVars, others, connVars>>

(***************************************************************************)
(* Connections in the order of nextConnId_.  newConnection creates one,    *)
(* its IO loop establishes and closes it, the base loop erases it from     *)
(* connections_, and its IO loop destroys it.                              *)
(***************************************************************************)
Conns == 1..MaxPicks
Statuses == {"unused", "created", "established", "closed", "erased", "destroyed"}
connections_ == { i \in Conns : conns[i] \in {"created", "established", "closed"} }
HoldsFd == connections_ \cup { i \in Conns : conns[i] = "erased" }
Used == Cardinality(HoldsFd) + others + IF idlefd_ THEN 1 ELSE 0

NewAcceptor == listening_ = FALSE /\ idlefd_ = TRUE /\ step = "poll"

ServerInit ==
  /\ Init
  /\ NewAcceptor
  /\ env \in Environments
  /\ backlog = 0 /\ arrived = 0
  /\ others = 0
  /\ conns = [i \in Conns |-> "unused"]
  /\ loopOf = [i \in Conns |-> BaseLoop]
  /\ functors = [l \in Loops |-> <<>>]
  /\ server = "alive"

Polling == server = "alive" /\ step = "poll"

Queued(q, l, f) == [q EXCEPT ![l] = Append(@, f)]

-----------------------------------------------------------------------------
(* The base loop. *)

ServerSetThreadNum(n) ==
  /\ Polling /\ SetThreadNum(n)
  /\ UNCHANGED <<env, acceptorVars, others, connVars>>

listen == listening_' = TRUE

(***************************************************************************)
(* TcpServer::start; a second call changes nothing.                        *)
(***************************************************************************)
ServerStart ==
  /\ Polling
  /\ IF started_ THEN UNCHANGED vars ELSE Start
  /\ listen
  /\ UNCHANGED <<env, idlefd_, step, backlog, arrived, others, connVars>>

(***************************************************************************)
(* TcpServer::newConnection on loop l: the connection is entered in        *)
(* connections_ and established, at once on the base loop.                 *)
(***************************************************************************)
NewConnectionUnmapped(i, l) ==
  /\ conns' = [conns EXCEPT ![i] = "destroyed"]
  /\ functors' = Queued(functors, l, <<"connectEstablished", i>>)
  /\ loopOf' = [loopOf EXCEPT ![i] = l]

newConnection(i, l) ==
  /\ conns' = [conns EXCEPT ![i] = IF l = BaseLoop THEN "established" ELSE "created"]
  /\ functors' = IF l = BaseLoop THEN functors
                 ELSE Queued(functors, l, <<"connectEstablished", i>>)
  /\ loopOf' = [loopOf EXCEPT ![i] = l]

(***************************************************************************)
(* Acceptor::handleRead, when accept returns a connection.  Its wrapper    *)
(* passes EMFILE on.  EAGAIN, for an empty queue, changes nothing, and the *)
(* errors that are not the process's own, like ENFILE, end the process.    *)
(***************************************************************************)
Acceptable == Polling /\ listening_ /\ backlog > 0
accept == IF Used < FdLimit THEN "connfd" ELSE "EMFILE"

HandleRead ==
  /\ Acceptable /\ accept = "connfd"
  /\ GetNextLoop
  /\ newConnection(picks + 1, IF loops_ = 0 THEN BaseLoop ELSE next_)
  /\ backlog' = backlog - 1
  /\ UNCHANGED <<env, listening_, idlefd_, step, arrived, others, server>>

(***************************************************************************)
(* handleRead, when accept reports EMFILE, in the system calls that other  *)
(* threads can come between: close the spare descriptor, accept, close     *)
(* what it returned, open the spare descriptor again.                      *)
(***************************************************************************)
CloseSpare ==
  /\ Acceptable /\ accept = "EMFILE"
  /\ idlefd_' = FALSE /\ step' = "accept"
  /\ UNCHANGED <<vars, env, listening_, backlog, arrived, others, connVars>>

SkipAccept ==
  /\ step = "accept" /\ step' = "open"
  /\ UNCHANGED <<vars, env, listening_, idlefd_, backlog, arrived, others, connVars>>

AcceptIntoSpare ==
  /\ step = "accept"
  /\ \/ /\ backlog > 0 /\ Used < FdLimit
        /\ backlog' = backlog - 1 /\ idlefd_' = TRUE
     \/ /\ ~(backlog > 0 /\ Used < FdLimit)
        /\ UNCHANGED <<backlog, idlefd_>>
  /\ step' = "close"
  /\ UNCHANGED <<vars, env, listening_, arrived, others, connVars>>

CloseAccepted ==
  /\ step = "close"
  /\ idlefd_' = FALSE /\ step' = "open"
  /\ UNCHANGED <<vars, env, listening_, backlog, arrived, others, connVars>>

SpareStaysClosed ==
  /\ step = "open" /\ step' = "poll"
  /\ UNCHANGED <<vars, env, idlefd_, listening_, backlog, arrived, others, connVars>>

OpenSpare ==
  /\ step = "open"
  /\ idlefd_' = (Used < FdLimit) /\ step' = "poll"
  /\ UNCHANGED <<vars, env, listening_, backlog, arrived, others, connVars>>

(***************************************************************************)
(* ~TcpServer: each connection is destroyed by its IO loop, at once on the *)
(* base loop; the Acceptor closes its descriptors.                         *)
(***************************************************************************)
Destroyals(l) ==
  LET ids == SelectSeq([i \in Conns |-> i], LAMBDA i : i \in connections_ /\ loopOf[i] = l)
  IN  [k \in 1..Len(ids) |-> <<"connnectDestroyed", ids[k]>>]

CloseAcceptor == listening_' = FALSE /\ idlefd_' = FALSE /\ backlog' = 0

Destroy ==
  /\ Polling /\ env.destroys
  /\ server' = "destroyed" /\ CloseAcceptor
  /\ conns' = [i \in Conns |-> IF i \in connections_ /\ loopOf[i] = BaseLoop
                               THEN "destroyed" ELSE conns[i]]
  /\ functors' = [l \in Loops |-> IF l \in 0..(loops_ - 1) THEN functors[l] \o Destroyals(l)
                                   ELSE functors[l]]
  /\ UNCHANGED <<vars, env, step, arrived, others, loopOf>>

-----------------------------------------------------------------------------
(* The functors and the IO loops. *)

(***************************************************************************)
(* TcpServer::removeConnectionInLoop; its this is a raw pointer, and it    *)
(* asserts that it erases one entry.                                       *)
(***************************************************************************)
EraseOnly(i, q) ==
  /\ conns' = [conns EXCEPT ![i] = "erased"]
  /\ functors' = q /\ UNCHANGED server

removeConnectionInLoop(i, q) ==
  IF server = "alive" /\ i \in connections_
  THEN /\ conns' = [conns EXCEPT ![i] = "erased"]
       /\ functors' = Queued(q, loopOf[i], <<"connnectDestroyed", i>>)
       /\ UNCHANGED server
  ELSE /\ server' = "broken" /\ functors' = q /\ UNCHANGED conns

(***************************************************************************)
(* A loop runs its next functor.  connectEstablished has the connection's  *)
(* raw pointer, connnectDestroyed owns the connection.  The base loop is   *)
(* in handleRead or in ~TcpServer, joining the IO threads, or runs.        *)
(***************************************************************************)
RunFunctor(l) ==
  /\ server # "broken" /\ functors[l] # <<>>
  /\ l = BaseLoop => /\ step = "poll"
                     /\ server = "destroyed" => \A k \in Loops \ {l} : functors[k] = <<>>
  /\ LET f == Head(functors[l])[1]
         i == Head(functors[l])[2]
         q == [functors EXCEPT ![l] = Tail(@)]
     IN  \/ /\ f = "connectEstablished"
            /\ conns' = [conns EXCEPT ![i] = IF @ = "created" THEN "established" ELSE @]
            /\ server' = IF conns[i] = "created" THEN server ELSE "broken"
            /\ functors' = q
         \/ /\ f = "removeConnectionInLoop"
            /\ removeConnectionInLoop(i, q)
         \/ /\ f = "connnectDestroyed"
            /\ conns' = [conns EXCEPT ![i] = "destroyed"]
            /\ functors' = q /\ UNCHANGED server
  /\ UNCHANGED <<vars, env, acceptorVars, others, loopOf>>

(***************************************************************************)
(* The IO loop of i handles its close: TcpConnection::handleClose calls    *)
(* TcpServer::removeConnection.                                            *)
(***************************************************************************)
HandleClose(i) ==
  /\ server # "broken" /\ conns[i] = "established"
  /\ loopOf[i] = BaseLoop => Polling
  /\ IF loopOf[i] = BaseLoop
     THEN removeConnectionInLoop(i, functors)
     ELSE /\ conns' = [conns EXCEPT ![i] = "closed"]
          /\ functors' = Queued(functors, BaseLoop, <<"removeConnectionInLoop", i>>)
          /\ UNCHANGED server
  /\ UNCHANGED <<vars, env, acceptorVars, others, loopOf>>

(***************************************************************************)
(* ~EventLoopThreadPool: an IO loop that quits drops its functors, and     *)
(* with them the last references to its connections.                       *)
(***************************************************************************)
IoLoopQuits(l) ==
  /\ server = "destroyed" /\ l # BaseLoop
  /\ functors[l] # <<>>
  /\ functors' = [functors EXCEPT ![l] = <<>>]
  /\ conns' = [i \in Conns |-> IF i \in HoldsFd /\ loopOf[i] = l THEN "destroyed" ELSE conns[i]]
  /\ UNCHANGED <<vars, env, acceptorVars, others, loopOf, server>>

-----------------------------------------------------------------------------
(* Clients and the other threads of the process. *)

ClientConnects ==
  /\ listening_ /\ arrived < MaxPicks
  /\ backlog' = backlog + 1 /\ arrived' = arrived + 1
  /\ UNCHANGED <<vars, env, listening_, idlefd_, step, others, connVars>>

ClientAborts ==
  /\ backlog > 0
  /\ backlog' = backlog - 1
  /\ UNCHANGED <<vars, env, listening_, idlefd_, step, arrived, others, connVars>>

OtherOpens ==
  /\ env.others /\ Used < FdLimit
  /\ others' = others + 1
  /\ UNCHANGED <<vars, env, acceptorVars, connVars>>

OtherCloses ==
  /\ others > 0
  /\ others' = others - 1
  /\ UNCHANGED <<vars, env, acceptorVars, connVars>>

HandleReads ==
  HandleRead \/ CloseSpare \/ AcceptIntoSpare \/ CloseAccepted \/ OpenSpare

ServerNext ==
  \/ \E n \in 0..MaxThreads : ServerSetThreadNum(n)
  \/ ServerStart \/ HandleReads \/ Destroy
  \/ \E l \in Loops : RunFunctor(l) \/ IoLoopQuits(l)
  \/ \E i \in Conns : HandleClose(i)
  \/ ClientConnects \/ ClientAborts \/ OtherOpens \/ OtherCloses

ServerSpec == ServerInit /\ [][ServerNext]_serverVars

(***************************************************************************)
(* Every loop keeps polling, and runs its functors in every iteration;     *)
(* those of the base loop wait while it is in handleRead, hence SF.        *)
(* Nothing is assumed of clients, of closes and of other threads.          *)
(***************************************************************************)
FairSpec ==
  /\ ServerSpec /\ WF_serverVars(HandleReads)
  /\ \A l \in Loops : SF_serverVars(RunFunctor(l))

-----------------------------------------------------------------------------
(***************************************************************************)
(* Types.                                                                  *)
(***************************************************************************)
ServerTypeOK ==
  /\ listening_ \in BOOLEAN /\ idlefd_ \in BOOLEAN
  /\ step \in {"poll", "accept", "close", "open"}
  /\ backlog \in 0..arrived /\ arrived \in 0..MaxPicks
  /\ picks + backlog <= arrived
  /\ Used <= FdLimit
  /\ conns \in [Conns -> Statuses]
  /\ loopOf \in [Conns -> Loops]
  /\ server \in {"alive", "destroyed", "broken"}

(***************************************************************************)
(* The spare descriptor is there whenever the Acceptor waits, so the next  *)
(* EMFILE finds it, as long as no other thread of the process opens files; *)
(* one that takes the slot between close and open leaves handleRead        *)
(* without it for good.                                                    *)
(***************************************************************************)
SpareKept == Polling /\ ~env.others => idlefd_

(***************************************************************************)
(* Types; and the raw pointers in connectEstablished's and                 *)
(* removeConnectionInLoop's functors find their objects, and assert(n ==   *)
(* 1) holds; the exception is a server with IO threads that is destroyed   *)
(* before its connections.                                                 *)
(***************************************************************************)
RawPointersLive ==
  /\ ServerTypeOK
  /\ server = "broken" => env.destroys /\ loops_ > 0

(***************************************************************************)
(* The server hands out loops as the pool's specification has it: started  *)
(* once however often start is called, and asked only afterwards.          *)
(***************************************************************************)
UsesPool == Spec

(***************************************************************************)
(* What idlefd_ is for: with no descriptor left, connections do not stay   *)
(* in the queue and keep the loop spinning; they are taken and closed.     *)
(***************************************************************************)
BacklogDrains == (backlog > 0 /\ ~env.others) ~> (backlog = 0)

(***************************************************************************)
(* A connection that is closed gives its descriptor back, while the server *)
(* lives.                                                                  *)
(***************************************************************************)
FdReturned ==
  \A i \in Conns : conns[i] \in {"closed", "erased"} ~> conns[i] = "destroyed" \/ server # "alive"

-----------------------------------------------------------------------------
(***************************************************************************)
(* What makes SpareKept inductive: descriptors in use other than the spare *)
(* one never fill the table while no other thread opens any.               *)
(***************************************************************************)
Taken == Cardinality(HoldsFd) + others

SpareInv ==
  /\ Taken + (IF idlefd_ THEN 1 ELSE 0) <= FdLimit
  /\ env \in Environments /\ others \in Nat
  /\ step = "open" => ~idlefd_
  /\ ~env.others => others = 0
  /\ ~env.others /\ server = "alive" => Taken < FdLimit /\ (step = "poll" => idlefd_)

(***************************************************************************)
(* What makes RawPointersLive inductive: the queues q fit the connections  *)
(* c.  A connection has one functor at most, and has the state in which    *)
(* that functor was queued.                                                *)
(***************************************************************************)
StateFor == [connectEstablished |-> "created", removeConnectionInLoop |-> "closed",
             connnectDestroyed |-> "erased"]

Fit(q, c) ==
  /\ q \in [Loops -> Seq((DOMAIN StateFor) \X Conns)]
  /\ \A l \in Loops : \A k \in 1..Len(q[l]) :
       /\ c[q[l][k][2]] = StateFor[q[l][k][1]]
       /\ \A m \in Loops : \A j \in 1..Len(q[m]) : q[l][k][2] = q[m][j][2] => l = m /\ k = j

FunctorInv ==
  /\ server = "alive" \/ loops_ = 0 => Fit(functors, conns)
  /\ loops_ = 0 => /\ \A l \in Loops : \A k \in 1..Len(functors[l]) :
                        functors[l][k][1] = "connnectDestroyed"
                   /\ \A i \in Conns : loopOf[i] = BaseLoop /\ conns[i] # "created"
  /\ server = "alive" => \A i \in Conns : i > picks => conns[i] = "unused"
  /\ server # "alive" => env.destroys
  /\ server = "broken" => loops_ > 0
=============================================================================
