-------------------------- MODULE TcpServer_proofs ---------------------------
(***************************************************************************)
(* Proofs about EventLoopThreadPool and TcpServer for any number of IO     *)
(* threads, connections and descriptors. The server implements its pool,   *)
(* so the pool's invariant and its theorem carry over. SpareInv counts the *)
(* descriptors without the spare one: they never fill the table, so the    *)
(* spare one can always be opened again. FunctorInv relates the queues of  *)
(* all loops to the connections: one functor at most for each connection,  *)
(* queued in the state that the functor expects.                           *)
(***************************************************************************)
EXTENDS TcpServer, FiniteSetTheorems, TLAPS

-----------------------------------------------------------------------------
(* The pool on its own: round robin over any number of loops.              *)

(***************************************************************************)
(* A call of getNextLoop keeps the loops before next_ one turn ahead.      *)
(***************************************************************************)
LEMMA PickKeepsRound ==
  ASSUME IInv, GetNextLoop
  PROVE  IInv'
<1> USE PoolAssumption DEF IInv, TypeOK, RoundInv, Loops, BaseLoop
<1>1. CASE loops_ = 0
  BY <1>1 DEF GetNextLoop
<1>2. CASE loops_ # 0
  <2>1. /\ next_ \in 0..(loops_ - 1)
        /\ served' = [served EXCEPT ![next_] = @ + 1]
        /\ next_' = IF next_ + 1 >= loops_ THEN 0 ELSE next_ + 1
        /\ picks' = picks + 1 /\ picks < MaxPicks
        /\ UNCHANGED <<numThread_, started_, loops_>>
    BY <1>2 DEF GetNextLoop, Wraps
  <2>2. TypeOK'
    BY <2>1
  <2>3. \A i \in Loops : served'[i] = IF i = next_ THEN served[i] + 1 ELSE served[i]
    BY <2>1
  <2>4. ASSUME NEW i \in 0..(loops_ - 1), NEW j \in 0..(loops_ - 1)
        PROVE  served'[i] = served'[j] + (IF i < next_' /\ j >= next_' THEN 1
                              ELSE IF i >= next_' /\ j < next_' THEN -1 ELSE 0)
    <3>1. i \in Loops /\ j \in Loops /\ served[i] \in Nat /\ served[j] \in Nat
      OBVIOUS
    <3>2. QED
      BY SMTT(30), <2>1, <2>3, <3>1
  <2>5. RoundInv'
    BY <1>2, <2>1, <2>3, <2>4 DEF GetNextLoop
  <2>6. QED
    BY Zenon, <2>2, <2>5
<1>3. QED
  BY Zenon, <1>1, <1>2

(***************************************************************************)
(* The invariant holds of every behaviour.                                 *)
(***************************************************************************)
LEMMA Inductive == Spec => []IInv
<1> USE PoolAssumption DEF IInv, TypeOK, RoundInv, Loops, BaseLoop
<1>1. Init => IInv
  <2> HIDE DEF Loops
  <2> SUFFICES ASSUME Init PROVE IInv
    OBVIOUS
  <2>1. TypeOK
    <3>1. started_ \in BOOLEAN
      BY Zenon DEF Init
    <3>2. QED
      BY <3>1 DEF Init
  <2>2. loops_ = 0 /\ next_ = 0 /\ \A i \in Loops : served[i] = 0
    BY DEF Init
  <2>3. RoundInv
    BY <2>2
  <2>4. QED
    BY <2>1, <2>3
<1>2. IInv /\ [Next]_vars => IInv'
  <2> SUFFICES ASSUME IInv, [Next]_vars PROVE IInv'
    BY SMTT(30)
  <2>1. CASE Start
    BY <2>1 DEF Start
  <2>2. CASE GetNextLoop
    BY Zenon, <2>2, PickKeepsRound
  <2>3. ASSUME NEW n \in 0..MaxThreads, SetThreadNum(n) PROVE IInv'
    BY <2>3 DEF SetThreadNum
  <2>4. CASE UNCHANGED vars
    BY <2>4 DEF vars
  <2>5. QED
    BY Zenon, <2>1, <2>2, <2>3, <2>4 DEF Next
<1>3. QED
  BY <1>1, <1>2, PTL DEF Spec

(***************************************************************************)
(* getNextLoop never indexes past the end of loops_.                       *)
(***************************************************************************)
THEOREM NextIsALoop == Spec => []TypeOK
<1>1. IInv => TypeOK
  BY DEF IInv
<1>2. QED
  BY Inductive, <1>1, PTL

(***************************************************************************)
(* getNextLoop is balanced for any number of loops and of connections.     *)
(***************************************************************************)
THEOREM RoundRobinIsBalanced == Spec => []Balanced
<1>1. IInv => Balanced
  BY SMTT(30), PoolAssumption DEF IInv, TypeOK, RoundInv, Balanced, Loops, BaseLoop
<1>2. QED
  BY Inductive, <1>1, PTL

-----------------------------------------------------------------------------
(* The server.                                                             *)

USE PoolAssumption, TcpServerAssumption

(***************************************************************************)
(* Every step of the server is a step of its pool or leaves it alone:      *)
(* TcpServer::start starts it at most once, and Acceptor::handleRead asks  *)
(* it for a loop.                                                          *)
(***************************************************************************)
LEMMA PoolStep == [ServerNext]_serverVars => [Next]_vars
<1> SUFFICES ASSUME [ServerNext]_serverVars PROVE [Next]_vars
  OBVIOUS
<1>1. ASSUME NEW n \in 0..MaxThreads, ServerSetThreadNum(n) PROVE [Next]_vars
  BY <1>1 DEF ServerSetThreadNum, Next
<1>2. CASE ServerStart
  BY <1>2 DEF ServerStart, Next
<1>3. CASE HandleReads
  BY <1>3 DEF HandleReads, HandleRead, CloseSpare, AcceptIntoSpare, CloseAccepted, OpenSpare, Next
<1>4. CASE Destroy
  BY <1>4 DEF Destroy
<1>5. ASSUME NEW l \in Loops, RunFunctor(l) \/ IoLoopQuits(l) PROVE [Next]_vars
  BY <1>5 DEF RunFunctor, IoLoopQuits
<1>6. ASSUME NEW i \in Conns, HandleClose(i) PROVE [Next]_vars
  BY <1>6 DEF HandleClose
<1>7. CASE ClientConnects \/ ClientAborts \/ OtherOpens \/ OtherCloses
  BY <1>7 DEF ClientConnects, ClientAborts, OtherOpens, OtherCloses
<1>8. CASE UNCHANGED serverVars
  BY <1>8 DEF serverVars
<1>9. QED
  BY <1>1, <1>2, <1>3, <1>4, <1>5, <1>6, <1>7, <1>8 DEF ServerNext

(***************************************************************************)
(* TcpServer uses EventLoopThreadPool as the pool's own specification has  *)
(* it: start is called once however often TcpServer::start is, and         *)
(* getNextLoop only after it. What is proved of the pool therefore holds   *)
(* in the server.                                                          *)
(***************************************************************************)
THEOREM ServerImplementsPool == ServerSpec => UsesPool
<1>1. ServerInit => Init
  BY DEF ServerInit
<1>2. QED
  BY <1>1, PoolStep, PTL DEF ServerSpec, Spec, UsesPool

(***************************************************************************)
(* The connections TcpServer::newConnection hands to IO loops are spread   *)
(* evenly: no loop is more than one ahead of another, for any number of    *)
(* threads and connections.                                                *)
(***************************************************************************)
THEOREM ServerIsBalanced == ServerSpec => []Balanced
BY ServerImplementsPool, RoundRobinIsBalanced, PTL DEF UsesPool

(***************************************************************************)
(* The pool's inductive invariant, carried over to the server.             *)
(***************************************************************************)
LEMMA PoolInv == ServerSpec => []IInv
BY ServerImplementsPool, Inductive, PTL DEF UsesPool

(***************************************************************************)
(* A step creates one connection at most, in handleRead; every other step  *)
(* keeps or shrinks the set of connections that hold a descriptor.         *)
(***************************************************************************)
LEMMA ConnsStep ==
  ASSUME ServerTypeOK, IInv, [ServerNext]_serverVars
  PROVE  /\ conns' \in [Conns -> Statuses] /\ loopOf' \in [Conns -> Loops]
         /\ HoldsFd' \subseteq HoldsFd \/ (HandleRead /\ HoldsFd' \subseteq HoldsFd \cup {picks + 1})
<1> DEFINE Goal == /\ conns' \in [Conns -> Statuses] /\ loopOf' \in [Conns -> Loops]
                   /\ HoldsFd' \subseteq HoldsFd
<1> USE DEF ServerTypeOK, HoldsFd, connections_, Statuses
<1>1. CASE HandleRead
  <2>1. PICK l : newConnection(picks + 1, l) /\ l = IF loops_ = 0 THEN BaseLoop ELSE next_
    BY <1>1 DEF HandleRead
  <2>2. l \in Loops
    BY <2>1 DEF IInv, TypeOK, Loops, BaseLoop
  <2>3. QED
    BY Zenon, <1>1, <2>1, <2>2 DEF newConnection
<1>2. CASE Destroy
  BY <1>2 DEF Destroy
<1>3. ASSUME NEW i, NEW q, removeConnectionInLoop(i, q), loopOf' = loopOf PROVE Goal
  BY <1>3 DEF removeConnectionInLoop
<1>4. ASSUME NEW l \in Loops, RunFunctor(l) PROVE Goal
  BY Zenon, <1>3, <1>4 DEF RunFunctor
<1>5. ASSUME NEW l \in Loops, IoLoopQuits(l) PROVE Goal
  BY <1>5 DEF IoLoopQuits
<1>6. ASSUME NEW i \in Conns, HandleClose(i) PROVE Goal
  BY <1>3, <1>6 DEF HandleClose
<1>7. CASE UNCHANGED connVars
  BY <1>7 DEF connVars
<1>8. QED
  BY <1>1, <1>2, <1>4, <1>5, <1>6, <1>7
     DEF ServerNext, HandleReads, ServerSetThreadNum, ServerStart, CloseSpare, AcceptIntoSpare,
         CloseAccepted, OpenSpare, ClientConnects, ClientAborts, OtherOpens, OtherCloses, serverVars

(***************************************************************************)
(* The connections that hold a descriptor can be counted.                  *)
(***************************************************************************)
LEMMA HoldsFdFinite == /\ IsFiniteSet(HoldsFd) /\ Cardinality(HoldsFd) \in Nat
<1>1. IsFiniteSet(Conns)
  BY FS_Interval DEF Conns
<1>2. HoldsFd \in SUBSET Conns
  BY DEF HoldsFd, connections_
<1>3. QED
  BY <1>1, <1>2, FS_Subset, FS_CardinalityType

(***************************************************************************)
(* In numbers: the count grows by one in handleRead and in no other step.  *)
(***************************************************************************)
LEMMA CardinalityStep ==
  ASSUME ServerTypeOK, IInv, [ServerNext]_serverVars
  PROVE  /\ Cardinality(HoldsFd') \in Nat
         /\ \/ Cardinality(HoldsFd') <= Cardinality(HoldsFd)
            \/ HandleRead /\ Cardinality(HoldsFd') <= Cardinality(HoldsFd) + 1
<1>1. IsFiniteSet(HoldsFd) /\ Cardinality(HoldsFd) \in Nat
  BY HoldsFdFinite
<1>2. CASE HoldsFd' \subseteq HoldsFd
  <2>1. HoldsFd' \in SUBSET HoldsFd
    BY <1>2
  <2>2. IsFiniteSet(HoldsFd') /\ Cardinality(HoldsFd') <= Cardinality(HoldsFd)
    BY ONLY <1>1, <2>1, FS_Subset
  <2>3. QED
    BY <2>2, FS_CardinalityType
<1>3. CASE HandleRead /\ HoldsFd' \subseteq HoldsFd \cup {picks + 1}
  <2>1. PICK S : S = HoldsFd \cup {picks + 1}
    BY Zenon
  <2>2. IsFiniteSet(S) /\ Cardinality(S) <= Cardinality(HoldsFd) + 1
    <3>1. /\ IsFiniteSet(HoldsFd \cup {picks + 1})
          /\ Cardinality(HoldsFd \cup {picks + 1})
               = IF picks + 1 \in HoldsFd THEN Cardinality(HoldsFd) ELSE Cardinality(HoldsFd) + 1
      BY ONLY <1>1, FS_AddElement
    <3>2. QED
      BY <1>1, <2>1, <3>1
  <2>3. HoldsFd' \in SUBSET S
    BY <1>3, <2>1
  <2>4. /\ IsFiniteSet(HoldsFd') /\ Cardinality(HoldsFd') <= Cardinality(S)
    BY ONLY <2>2, <2>3, FS_Subset
  <2>5. Cardinality(S) \in Nat /\ Cardinality(HoldsFd') \in Nat
    BY <2>2, <2>4, FS_CardinalityType
  <2>6. QED
    BY <1>1, <1>3, <2>2, <2>4, <2>5
<1>4. QED
  BY <1>2, <1>3, ConnsStep

(***************************************************************************)
(* Arithmetic that the steps below cite.                                   *)
(***************************************************************************)
LEMMA SumBound ==
  ASSUME NEW a \in Nat, NEW b \in Nat, NEW c \in Nat, a + b <= c
  PROVE  a <= c /\ b <= c
OBVIOUS

(***************************************************************************)
(* Types and the bookkeeping of the spare descriptor are preserved, one    *)
(* case per action.                                                        *)
(***************************************************************************)
LEMMA SpareStep ==
  ASSUME ServerTypeOK, SpareInv, IInv, [ServerNext]_serverVars
  PROVE  ServerTypeOK' /\ SpareInv'
<1> DEFINE C == Cardinality(HoldsFd)
           D == Cardinality(HoldsFd')
<1>1. C \in Nat /\ D \in Nat /\ (D <= C \/ (HandleRead /\ D <= C + 1))
  BY CardinalityStep, HoldsFdFinite
<1>2. conns' \in [Conns -> Statuses] /\ loopOf' \in [Conns -> Loops]
  BY ConnsStep
<1>3. /\ Used = C + others + (IF idlefd_ THEN 1 ELSE 0)
      /\ Used' = D + others' + (IF idlefd_' THEN 1 ELSE 0)
      /\ Taken = C + others /\ Taken' = D + others'
  BY DEF Used, Taken
<1> HIDE DEF C, D
<1>t. /\ listening_ \in BOOLEAN /\ idlefd_ \in BOOLEAN /\ backlog \in Nat /\ arrived \in Nat
      /\ picks \in Nat /\ others \in Nat /\ picks + backlog <= arrived /\ arrived <= MaxPicks
      /\ FdLimit \in Nat /\ step \in {"poll", "accept", "close", "open"}
      /\ server \in {"alive", "destroyed", "broken"}
  BY DEF ServerTypeOK, SpareInv, IInv, TypeOK
<1> DEFINE Goal == /\ listening_' \in BOOLEAN /\ idlefd_' \in BOOLEAN
                   /\ step' \in {"poll", "accept", "close", "open"}
                   /\ backlog' \in Nat /\ arrived' \in Nat /\ picks' \in Nat
                   /\ picks' + backlog' <= arrived' /\ arrived' <= MaxPicks
                   /\ server' \in {"alive", "destroyed", "broken"}
                   /\ SpareInv'
<1>g. SUFFICES Goal
  <2> SUFFICES ASSUME Goal PROVE ServerTypeOK' /\ SpareInv'
    BY Zenon
  <2>1. Used' <= FdLimit
    BY <1>3 DEF SpareInv
  <2>2. backlog' \in 0..arrived' /\ arrived' \in 0..MaxPicks
    <3>1. /\ backlog' \in Nat /\ arrived' \in Nat /\ picks' \in Nat /\ MaxPicks \in Nat
          /\ picks' + backlog' <= arrived' /\ arrived' <= MaxPicks
      BY Zenon
    <3>2. backlog' <= arrived'
      BY Zenon, <3>1, SumBound
    <3>3. QED
      BY <3>1, <3>2
  <2>3. QED
    BY Zenon, <1>2, <2>1, <2>2 DEF ServerTypeOK, Statuses
<1>4. CASE HandleRead
  <2>1. /\ Polling /\ backlog > 0 /\ Used < FdLimit
        /\ picks' = picks + 1 /\ backlog' = backlog - 1
        /\ UNCHANGED <<env, listening_, idlefd_, step, arrived, others, server>>
    BY <1>4 DEF HandleRead, Acceptable, accept, GetNextLoop
  <2>2. SpareInv'
    BY <1>1, <1>3, <1>t, <2>1 DEF SpareInv, Polling
  <2>3. QED
    BY <1>t, <2>1, <2>2
<1>5. CASE ~HandleRead
  <2>0. D <= C
    BY <1>1, <1>5
  <2> USE <1>1, <1>3, <1>t, <2>0 DEF SpareInv
  <2>1. ASSUME NEW n \in 0..MaxThreads, ServerSetThreadNum(n) PROVE Goal
    BY <2>1 DEF ServerSetThreadNum, SetThreadNum, acceptorVars, connVars
  <2>2. CASE ServerStart
    BY <2>2 DEF ServerStart, Start, listen, vars, connVars
  <2>3. CASE CloseSpare
    <3>1. Used >= FdLimit
      BY <2>3 DEF CloseSpare, Acceptable, accept
    <3>2. idlefd_ => C + others < FdLimit
      BY <3>1
    <3>3. /\ idlefd_' = FALSE /\ step' = "accept" /\ server' = server /\ picks' = picks
          /\ UNCHANGED <<env, listening_, backlog, arrived, others>>
          /\ step = "poll" /\ server = "alive"
      BY <2>3 DEF CloseSpare, vars, connVars, Acceptable, Polling
    <3>4. SpareInv'
      BY <3>2, <3>3
    <3>5. QED
      BY Zenon, <3>3, <3>4
  <2>4. CASE AcceptIntoSpare
    <3>1. /\ step = "accept" /\ step' = "close" /\ server' = server /\ picks' = picks
          /\ UNCHANGED <<env, listening_, arrived, others>>
      BY <2>4 DEF AcceptIntoSpare, vars, connVars
    <3>2. CASE backlog > 0 /\ Used < FdLimit
      <4>1. backlog' = backlog - 1 /\ idlefd_' = TRUE
        BY <2>4, <3>2 DEF AcceptIntoSpare
      <4>2. SpareInv'
        BY <3>1, <3>2, <4>1
      <4>3. QED
        BY <3>1, <3>2, <4>1, <4>2
    <3>3. CASE ~(backlog > 0 /\ Used < FdLimit)
      <4>1. backlog' = backlog /\ idlefd_' = idlefd_
        BY <2>4, <3>3 DEF AcceptIntoSpare
      <4>2. SpareInv'
        BY <3>1, <4>1
      <4>3. QED
        BY <3>1, <4>1, <4>2
    <3>4. QED
      BY <3>2, <3>3
  <2>5. CASE CloseAccepted
    <3>1. /\ step = "close" /\ step' = "open" /\ idlefd_' = FALSE /\ server' = server
          /\ picks' = picks /\ UNCHANGED <<env, listening_, backlog, arrived, others>>
      BY <2>5 DEF CloseAccepted, vars, connVars
    <3>2. SpareInv'
      BY <3>1
    <3>3. QED
      BY Zenon, <3>1, <3>2
  <2>6. CASE OpenSpare
    <3>1. /\ step = "open" /\ step' = "poll" /\ server' = server /\ ~idlefd_
          /\ picks' = picks /\ UNCHANGED <<env, listening_, backlog, arrived, others>>
      BY <2>6 DEF OpenSpare, vars, connVars
    <3>2. CASE Used < FdLimit
      <4>1. idlefd_' = TRUE
        BY Zenon, <2>6, <3>2 DEF OpenSpare
      <4>2. SpareInv'
        BY <3>1, <3>2, <4>1
      <4>3. QED
        BY <3>1, <4>1, <4>2
    <3>3. CASE ~(Used < FdLimit)
      <4>1. idlefd_' = FALSE
        BY <2>6, <3>3 DEF OpenSpare
      <4>2. SpareInv'
        BY <3>1, <3>3, <4>1
      <4>3. QED
        BY Zenon, <3>1, <4>1, <4>2
    <3>4. QED
      BY <3>2, <3>3
  <2>7. CASE Destroy
    <3>1. /\ server' = "destroyed" /\ listening_' = FALSE /\ idlefd_' = FALSE /\ backlog' = 0
          /\ picks' = picks /\ UNCHANGED <<env, step, arrived, others>>
      BY <2>7 DEF Destroy, CloseAcceptor, vars
    <3>2. SpareInv'
      BY <3>1
    <3>3. picks + 0 <= arrived
      BY SumBound
    <3>4. QED
      BY Zenon, <3>1, <3>2, <3>3
  <2>8. ASSUME NEW l \in Loops, RunFunctor(l) PROVE Goal
    BY <2>8 DEF RunFunctor, removeConnectionInLoop, vars, acceptorVars
  <2>9. ASSUME NEW l \in Loops, IoLoopQuits(l) PROVE Goal
    BY <2>9 DEF IoLoopQuits, vars, acceptorVars
  <2>10. ASSUME NEW i \in Conns, HandleClose(i) PROVE Goal
    BY <2>10 DEF HandleClose, removeConnectionInLoop, vars, acceptorVars
  <2>11. CASE ClientConnects
    BY <2>11 DEF ClientConnects, vars, connVars
  <2>12. CASE ClientAborts
    BY <2>12 DEF ClientAborts, vars, connVars
  <2>13. CASE OtherOpens
    BY <2>13 DEF OtherOpens, vars, acceptorVars, connVars
  <2>14. CASE OtherCloses
    BY <2>14 DEF OtherCloses, vars, acceptorVars, connVars
  <2>15. CASE UNCHANGED serverVars
    BY <2>15 DEF serverVars, vars, acceptorVars, connVars
  <2>16. QED
    BY Zenon, <1>5, <2>1, <2>2, <2>3, <2>4, <2>5, <2>6, <2>7, <2>8, <2>9, <2>10, <2>11, <2>12, <2>13,
       <2>14, <2>15 DEF ServerNext, HandleReads
<1>6. QED
  BY <1>4, <1>5

(***************************************************************************)
(* They hold when the server is constructed.                               *)
(***************************************************************************)
LEMMA SpareInit == ServerInit => ServerTypeOK /\ SpareInv
<1> SUFFICES ASSUME ServerInit PROVE ServerTypeOK /\ SpareInv
  OBVIOUS
<1>1. HoldsFd = {}
  BY DEF ServerInit, HoldsFd, connections_
<1>2. Cardinality(HoldsFd) = 0
  BY <1>1, FS_EmptySet
<1>3. idlefd_ = TRUE /\ others = 0 /\ Used = 1 /\ Taken = 0
  BY <1>2 DEF ServerInit, NewAcceptor, Used, Taken
<1>4. ServerTypeOK
  <2>1. BaseLoop \in Loops
    BY DEF BaseLoop, Loops
  <2>2. conns \in [Conns -> Statuses] /\ loopOf \in [Conns -> Loops]
    BY <2>1 DEF ServerInit, Statuses
  <2>3. QED
    <3>1. backlog = 0 /\ arrived = 0 /\ picks = 0
      BY DEF ServerInit, Init
    <3>2. backlog \in 0..arrived /\ arrived \in 0..MaxPicks /\ picks + backlog <= arrived
      BY <3>1
    <3>3. Used <= FdLimit
      BY <1>3
    <3>4. QED
      BY Zenon, <1>3, <2>2, <3>2, <3>3 DEF ServerInit, NewAcceptor, ServerTypeOK, Statuses
<1>5. SpareInv
  BY <1>3 DEF ServerInit, NewAcceptor, SpareInv
<1>6. QED
  BY <1>4, <1>5

(***************************************************************************)
(* So they always hold.                                                    *)
(***************************************************************************)
LEMMA SpareInductive == ServerSpec => [](ServerTypeOK /\ SpareInv)
<1>1. ServerTypeOK /\ SpareInv /\ IInv /\ [ServerNext]_serverVars => (ServerTypeOK /\ SpareInv)'
  BY SpareStep
<1>2. QED
  BY SpareInit, <1>1, PoolInv, PTL DEF ServerSpec

(***************************************************************************)
(* Whenever the Acceptor waits for connections its spare descriptor        *)
(* idlefd_ is open, for any descriptor limit and however often EMFILE was  *)
(* met, as long as no other thread opens files: each close of idlefd_ in   *)
(* handleRead is followed by an open that succeeds.                        *)
(***************************************************************************)
THEOREM SpareSurvivesEmfile == ServerSpec => []SpareKept
<1>1. SpareInv => SpareKept
  BY DEF SpareInv, SpareKept, Polling
<1>2. QED
  BY SpareInductive, <1>1, PTL

(***************************************************************************)
(* A functor as the model has it: its name and its connection.             *)
(***************************************************************************)
Functor == (DOMAIN StateFor) \X Conns

(***************************************************************************)
(* No functor in the queues q refers to connection i.                      *)
(***************************************************************************)
NoFunctorOf(q, i) == \A l \in Loops : \A k \in 1..Len(q[l]) : q[l][k][2] # i

(***************************************************************************)
(* What taking a functor off a queue leaves.                               *)
(***************************************************************************)
LEMMA TailFacts ==
  ASSUME NEW S, NEW s \in Seq(S), s # << >>
  PROVE  /\ Tail(s) \in Seq(S) /\ Head(s) = s[1] /\ Head(s) \in S
         /\ 1 \in 1..Len(s) /\ Len(s) \in Nat /\ Len(Tail(s)) = Len(s) - 1
         /\ \A k \in 1..Len(Tail(s)) : k + 1 \in 1..Len(s) /\ Tail(s)[k] = s[k + 1]
OBVIOUS

(***************************************************************************)
(* What appending a functor to a queue gives.                              *)
(***************************************************************************)
LEMMA AppendFacts ==
  ASSUME NEW S, NEW s \in Seq(S), NEW e \in S
  PROVE  /\ Append(s, e) \in Seq(S) /\ Len(s) \in Nat
         /\ \A k \in 1..Len(Append(s, e)) :
              \/ k \in 1..Len(s) /\ Append(s, e)[k] = s[k]
              \/ k = Len(s) + 1 /\ k \notin 1..Len(s) /\ Append(s, e)[k] = e
OBVIOUS

(***************************************************************************)
(* A queue that fits still does without its first functor, and that        *)
(* functor was the only one of its connection.                             *)
(***************************************************************************)
LEMMA Dequeued ==
  ASSUME NEW q, NEW c, Fit(q, c), NEW l \in Loops, q[l] # << >>,
         NEW d, d = [q EXCEPT ![l] = Tail(@)]
  PROVE  /\ Fit(d, c) /\ NoFunctorOf(d, Head(q[l])[2])
         /\ Head(q[l]) \in Functor /\ c[Head(q[l])[2]] = StateFor[Head(q[l])[1]]
<1>1. q \in [Loops -> Seq(Functor)]
  BY DEF Fit, Functor
<1>2. q[l] \in Seq(Functor)
  BY <1>1
<1>3. /\ Tail(q[l]) \in Seq(Functor) /\ Head(q[l]) = q[l][1] /\ Head(q[l]) \in Functor
      /\ 1 \in 1..Len(q[l]) /\ Len(q[l]) \in Nat
      /\ \A k \in 1..Len(Tail(q[l])) : k + 1 \in 1..Len(q[l]) /\ Tail(q[l])[k] = q[l][k + 1]
  BY <1>2, TailFacts
<1>4. /\ d \in [Loops -> Seq(Functor)] /\ d[l] = Tail(q[l])
      /\ \A m \in Loops : m # l => d[m] = q[m]
  BY <1>1, <1>3
<1> DEFINE At(m, k) == IF m = l THEN k + 1 ELSE k
<1>5. ASSUME NEW m \in Loops, NEW k \in 1..Len(d[m])
      PROVE  At(m, k) \in 1..Len(q[m]) /\ d[m][k] = q[m][At(m, k)] /\ (m = l => At(m, k) # 1)
  <2>1. CASE m = l
    BY <1>3, <1>4, <2>1
  <2>2. CASE m # l
    BY <1>4, <2>2
  <2>3. QED
    BY <2>1, <2>2
<1>6. \A m \in Loops : \A k \in 1..Len(d[m]) : \A j \in 1..Len(d[m]) : At(m, k) = At(m, j) => k = j
  OBVIOUS
<1> HIDE DEF At
<1>7. \A m \in Loops : \A k \in 1..Len(q[m]) : c[q[m][k][2]] = StateFor[q[m][k][1]]
  BY DEF Fit
<1>8. \A m \in Loops : \A k \in 1..Len(q[m]) : \A n \in Loops : \A j \in 1..Len(q[n]) :
        q[m][k][2] = q[n][j][2] => m = n /\ k = j
  BY DEF Fit
<1>9. \A m \in Loops : \A k \in 1..Len(d[m]) : c[d[m][k][2]] = StateFor[d[m][k][1]]
  BY <1>5, <1>7
<1>10. \A m \in Loops : \A k \in 1..Len(d[m]) : \A n \in Loops : \A j \in 1..Len(d[n]) :
         d[m][k][2] = d[n][j][2] => m = n /\ k = j
  <2> SUFFICES ASSUME NEW m \in Loops, NEW k \in 1..Len(d[m]), NEW n \in Loops,
                      NEW j \in 1..Len(d[n]), d[m][k][2] = d[n][j][2]
               PROVE  m = n /\ k = j
    BY Zenon
  <2>1. /\ At(m, k) \in 1..Len(q[m]) /\ d[m][k] = q[m][At(m, k)]
        /\ At(n, j) \in 1..Len(q[n]) /\ d[n][j] = q[n][At(n, j)]
    BY Zenon, <1>5
  <2>2. m = n /\ At(m, k) = At(n, j)
    <3>1. PICK a \in 1..Len(q[m]) : a = At(m, k)
      BY <2>1
    <3>2. PICK b \in 1..Len(q[n]) : b = At(n, j)
      BY <2>1
    <3>3. q[m][a][2] = q[n][b][2]
      BY Zenon, <2>1, <3>1, <3>2
    <3>4. m = n /\ a = b
      BY SMTT(30), <1>8, <3>3
    <3>5. QED
      BY <3>1, <3>2, <3>4
  <2>3. QED
    BY <1>6, <2>2
<1>11. Fit(d, c)
  BY <1>4, <1>9, <1>10 DEF Fit, Functor
<1>12. NoFunctorOf(d, Head(q[l])[2])
  <2> SUFFICES ASSUME NEW m \in Loops, NEW k \in 1..Len(d[m]), d[m][k][2] = Head(q[l])[2]
               PROVE  FALSE
    BY DEF NoFunctorOf
  <2>1. At(m, k) \in 1..Len(q[m]) /\ q[m][At(m, k)][2] = q[l][1][2] /\ (m = l => At(m, k) # 1)
    BY Zenon, <1>3, <1>5
  <2>2. m = l /\ At(m, k) = 1
    BY SMTT(30), <1>3, <1>8, <2>1
  <2>3. QED
    BY <2>1, <2>2
<1>13. QED
  BY <1>3, <1>7, <1>11, <1>12

(***************************************************************************)
(* Queueing a functor for a connection that has none, in the state for     *)
(* that functor, keeps the fit.                                            *)
(***************************************************************************)
LEMMA Enqueued ==
  ASSUME NEW q, NEW c, NEW l \in Loops, NEW f \in DOMAIN StateFor, NEW i \in Conns,
         Fit(q, c), NoFunctorOf(q, i), c[i] = StateFor[f]
  PROVE  Fit(Queued(q, l, <<f, i>>), c)
<1>1. q \in [Loops -> Seq(Functor)] /\ <<f, i>> \in Functor
  BY DEF Fit, Functor
<1>2. PICK d : d = Queued(q, l, <<f, i>>)
  OBVIOUS
<1>3. /\ Append(q[l], <<f, i>>) \in Seq(Functor)
      /\ \A k \in 1..Len(Append(q[l], <<f, i>>)) :
           \/ k \in 1..Len(q[l]) /\ Append(q[l], <<f, i>>)[k] = q[l][k]
           \/ k = Len(q[l]) + 1 /\ Append(q[l], <<f, i>>)[k] = <<f, i>>
  BY <1>1, AppendFacts
<1>4. /\ d \in [Loops -> Seq(Functor)] /\ d[l] = Append(q[l], <<f, i>>)
      /\ \A m \in Loops : m # l => d[m] = q[m]
  BY <1>1, <1>2, <1>3 DEF Queued
<1>5. ASSUME NEW m \in Loops, NEW k \in 1..Len(d[m])
      PROVE  \/ k \in 1..Len(q[m]) /\ d[m][k] = q[m][k] /\ d[m][k][2] # i
             \/ m = l /\ k = Len(q[l]) + 1 /\ d[m][k] = <<f, i>>
  <2>1. CASE m = l
    BY Zenon, <1>3, <1>4, <2>1 DEF NoFunctorOf
  <2>2. CASE m # l
    BY <1>4, <2>2 DEF NoFunctorOf
  <2>3. QED
    BY <2>1, <2>2
<1>6. /\ \A m \in Loops : \A k \in 1..Len(q[m]) : c[q[m][k][2]] = StateFor[q[m][k][1]]
      /\ \A m \in Loops : \A k \in 1..Len(q[m]) : \A n \in Loops : \A j \in 1..Len(q[n]) :
           q[m][k][2] = q[n][j][2] => m = n /\ k = j
  BY DEF Fit
<1>7. \A m \in Loops : \A k \in 1..Len(d[m]) : c[d[m][k][2]] = StateFor[d[m][k][1]]
  BY SMTT(30), <1>5, <1>6
<1>8. \A m \in Loops : \A k \in 1..Len(d[m]) : \A n \in Loops : \A j \in 1..Len(d[n]) :
        d[m][k][2] = d[n][j][2] => m = n /\ k = j
  <2> SUFFICES ASSUME NEW m \in Loops, NEW k \in 1..Len(d[m]), NEW n \in Loops,
                      NEW j \in 1..Len(d[n]), d[m][k][2] = d[n][j][2]
               PROVE  m = n /\ k = j
    OBVIOUS
  <2>1. \/ k \in 1..Len(q[m]) /\ d[m][k] = q[m][k] /\ d[m][k][2] # i
        \/ m = l /\ k = Len(q[l]) + 1 /\ d[m][k][2] = i
    BY <1>5
  <2>2. \/ j \in 1..Len(q[n]) /\ d[n][j] = q[n][j] /\ d[n][j][2] # i
        \/ n = l /\ j = Len(q[l]) + 1 /\ d[n][j][2] = i
    BY <1>5
  <2>3. QED
    <3>1. CASE d[m][k][2] # i
      <4>1. k \in 1..Len(q[m]) /\ j \in 1..Len(q[n]) /\ q[m][k][2] = q[n][j][2]
        BY Zenon, <2>1, <2>2, <3>1
      <4>2. QED
        BY <1>6, <4>1
    <3>2. CASE d[m][k][2] = i
      BY <2>1, <2>2, <3>2
    <3>3. QED
      BY <3>1, <3>2
<1>9. Fit(d, c)
  BY <1>4, <1>7, <1>8 DEF Fit, Functor
<1>10. QED
  BY <1>2, <1>9

(***************************************************************************)
(* Changing a connection that no functor refers to keeps the fit.          *)
(***************************************************************************)
LEMMA Changed ==
  ASSUME NEW q, NEW c, NEW i, NEW x, Fit(q, c), NoFunctorOf(q, i), c \in [Conns -> Statuses]
  PROVE  Fit(q, [c EXCEPT ![i] = x])
<1>1. \A l \in Loops : \A k \in 1..Len(q[l]) : q[l][k][2] \in Conns
  <2>1. q \in [Loops -> Seq(Functor)]
    BY DEF Fit, Functor
  <2>2. \A l \in Loops : \A k \in 1..Len(q[l]) : q[l][k] \in Functor
    BY <2>1
  <2>3. QED
    BY <2>2 DEF Functor
<1>2. QED
  BY <1>1 DEF Fit, NoFunctorOf

(***************************************************************************)
(* A connection in a state in which nothing is queued has no functor.      *)
(***************************************************************************)
LEMMA NoFunctorYet ==
  ASSUME NEW q, NEW c, NEW i, Fit(q, c), c[i] \notin {"created", "closed", "erased"}
  PROVE  NoFunctorOf(q, i)
<1>1. q \in [Loops -> Seq(Functor)]
  BY DEF Fit, Functor
<1>2. \A l \in Loops : \A k \in 1..Len(q[l]) : q[l][k] \in Functor
  BY <1>1
<1>3. \A f \in DOMAIN StateFor : StateFor[f] \in {"created", "closed", "erased"}
  BY DEF StateFor
<1>4. \A l \in Loops : \A k \in 1..Len(q[l]) : c[q[l][k][2]] \in {"created", "closed", "erased"}
  BY <1>2, <1>3 DEF Fit, Functor
<1>5. QED
  BY <1>4 DEF NoFunctorOf

(***************************************************************************)
(* The three functors, by name.                                            *)
(***************************************************************************)
LEMMA StateForFacts ==
  /\ DOMAIN StateFor = {"connectEstablished", "removeConnectionInLoop", "connnectDestroyed"}
  /\ StateFor["connectEstablished"] = "created"
  /\ StateFor["removeConnectionInLoop"] = "closed"
  /\ StateFor["connnectDestroyed"] = "erased"
BY DEF StateFor

(***************************************************************************)
(* newConnection takes a number that no functor refers to, and queues      *)
(* connectEstablished for a connection just created.                       *)
(***************************************************************************)
LEMMA FunctorsHandleRead ==
  ASSUME ServerTypeOK, FunctorInv, IInv, HandleRead PROVE FunctorInv'
<1>1. PICK l : newConnection(picks + 1, l) /\ l = IF loops_ = 0 THEN BaseLoop ELSE next_
  BY DEF HandleRead
<1>2. PICK i : i = picks + 1
  OBVIOUS
<1>3. /\ server = "alive" /\ server' = server /\ picks' = i /\ loops_' = loops_ /\ env' = env
      /\ i \in Conns /\ loops_ \in Nat
  <2>1. /\ backlog > 0 /\ backlog \in Nat /\ picks \in Nat /\ picks + backlog <= arrived
        /\ arrived \in Nat /\ arrived <= MaxPicks
    BY DEF HandleRead, Acceptable, ServerTypeOK, IInv, TypeOK
  <2>2. picks + 1 \in 1..MaxPicks
    BY <2>1
  <2>3. QED
    BY <1>2, <2>2 DEF HandleRead, Acceptable, Polling, GetNextLoop, Conns, IInv, TypeOK
<1>4. l \in Loops /\ (l = BaseLoop <=> loops_ = 0)
  BY <1>1 DEF IInv, TypeOK, Loops, BaseLoop
<1>5. Fit(functors, conns) /\ conns[i] = "unused" /\ conns \in [Conns -> Statuses]
  <2>1. i > picks
    BY <1>2 DEF IInv, TypeOK
  <2>2. QED
    BY <1>3, <2>1 DEF FunctorInv, ServerTypeOK
<1>6. NoFunctorOf(functors, i)
  BY <1>5, NoFunctorYet
<1>7. /\ conns' = [conns EXCEPT ![i] = IF l = BaseLoop THEN "established" ELSE "created"]
      /\ functors' = IF l = BaseLoop THEN functors
                     ELSE Queued(functors, l, <<"connectEstablished", i>>)
      /\ loopOf' = [loopOf EXCEPT ![i] = l]
  BY <1>1, <1>2 DEF newConnection
<1>8. Fit(functors, conns')
  BY Zenon, <1>5, <1>6, <1>7, Changed
<1>9. Fit(functors', conns')
  <2>1. CASE l = BaseLoop
    BY <1>7, <1>8, <2>1
  <2>2. CASE l # BaseLoop
    <3>1. conns'[i] = "created"
      BY <1>3, <1>5, <1>7, <2>2
    <3>2. functors' = Queued(functors, l, <<"connectEstablished", i>>)
      BY <1>7, <2>2
    <3>3. QED
      BY <1>3, <1>4, <1>6, <1>8, <3>1, <3>2, StateForFacts, Enqueued
  <2>3. QED
    BY <2>1, <2>2
<1>10. loops_ = 0 => /\ \A m \in Loops : \A k \in 1..Len(functors'[m]) :
                          functors'[m][k][1] = "connnectDestroyed"
                     /\ \A j \in Conns : loopOf'[j] = BaseLoop /\ conns'[j] # "created"
  BY <1>3, <1>4, <1>5, <1>7 DEF FunctorInv, ServerTypeOK
<1>11. \A j \in Conns : j > i => conns'[j] = "unused"
  <2>1. \A j \in Conns : j > i => j > picks /\ j # i
    BY <1>2 DEF Conns, IInv, TypeOK
  <2>2. QED
    BY <1>3, <1>5, <1>7, <2>1 DEF FunctorInv
<1>12. QED
  BY <1>3, <1>9, <1>10, <1>11 DEF FunctorInv

(***************************************************************************)
(* removeConnectionInLoop on a live server erases the entry and queues     *)
(* connnectDestroyed for it, its only functor.                             *)
(***************************************************************************)
LEMMA Erase ==
  ASSUME NEW q, NEW i \in Conns, Fit(q, conns), NoFunctorOf(q, i), ServerTypeOK,
         server = "alive", conns[i] \in {"established", "closed"}, removeConnectionInLoop(i, q)
  PROVE  /\ server' = server /\ conns' = [conns EXCEPT ![i] = "erased"]
         /\ functors' = Queued(q, loopOf[i], <<"connnectDestroyed", i>>)
         /\ Fit(functors', conns')
<1>1. /\ server' = server /\ conns' = [conns EXCEPT ![i] = "erased"]
      /\ functors' = Queued(q, loopOf[i], <<"connnectDestroyed", i>>)
  BY DEF removeConnectionInLoop, connections_
<1>2. loopOf[i] \in Loops /\ conns \in [Conns -> Statuses]
  BY DEF ServerTypeOK
<1>3. Fit(q, conns') /\ conns'[i] = "erased"
  BY Zenon, <1>1, <1>2, Changed
<1>4. QED
  BY Zenon, <1>1, <1>2, <1>3, StateForFacts, Enqueued

(***************************************************************************)
(* handleClose finds an established connection, which has no functor, so   *)
(* the one it queues is the only one.                                      *)
(***************************************************************************)
LEMMA FunctorsHandleClose ==
  ASSUME ServerTypeOK, FunctorInv, IInv, NEW i \in Conns, HandleClose(i) PROVE FunctorInv'
<1>1. /\ conns[i] = "established" /\ conns \in [Conns -> Statuses] /\ loopOf \in [Conns -> Loops]
      /\ loopOf' = loopOf /\ picks' = picks /\ loops_' = loops_ /\ env' = env /\ loops_ \in Nat
  BY DEF HandleClose, ServerTypeOK, vars, IInv, TypeOK
<1>2. CASE loopOf[i] = BaseLoop
  <2>1. server = "alive" /\ Fit(functors, conns)
    BY <1>2 DEF HandleClose, Polling, FunctorInv
  <2>2. NoFunctorOf(functors, i)
    BY <1>1, <2>1, NoFunctorYet
  <2>3. removeConnectionInLoop(i, functors)
    BY <1>2 DEF HandleClose
  <2>4. /\ server' = server /\ conns' = [conns EXCEPT ![i] = "erased"]
        /\ functors' = Queued(functors, BaseLoop, <<"connnectDestroyed", i>>)
        /\ Fit(functors', conns')
    BY <1>1, <1>2, <2>1, <2>2, <2>3, Erase
  <2>5. ASSUME loops_ = 0, NEW m \in Loops, NEW k \in 1..Len(functors'[m])
        PROVE  functors'[m][k][1] = "connnectDestroyed"
    <3>1. functors \in [Loops -> Seq(Functor)] /\ <<"connnectDestroyed", i>> \in Functor
      BY <2>1, StateForFacts DEF Fit, Functor
    <3>2. CASE m = BaseLoop
      <4>1. functors'[m] = Append(functors[m], <<"connnectDestroyed", i>>)
        BY <2>4, <3>1, <3>2 DEF Queued
      <4>2. \/ k \in 1..Len(functors[m]) /\ functors'[m][k] = functors[m][k]
            \/ functors'[m][k] = <<"connnectDestroyed", i>>
        BY <2>5, <3>1, <4>1, AppendFacts
      <4>3. QED
        BY <2>5, <4>2 DEF FunctorInv
    <3>3. CASE m # BaseLoop
      BY <2>4, <2>5, <3>1, <3>3 DEF Queued, FunctorInv
    <3>4. QED
      BY <3>2, <3>3
  <2>6. QED
    BY Zenon, <1>1, <2>1, <2>4, <2>5 DEF FunctorInv
<1>3. CASE loopOf[i] # BaseLoop
  <2>1. loops_ # 0 /\ server # "broken"
    BY Zenon, <1>3 DEF FunctorInv, HandleClose
  <2>2. /\ conns' = [conns EXCEPT ![i] = "closed"] /\ server' = server
        /\ functors' = Queued(functors, BaseLoop, <<"removeConnectionInLoop", i>>)
    BY <1>3 DEF HandleClose
  <2>3. CASE server = "alive"
    <3>1. Fit(functors, conns)
      BY <2>3 DEF FunctorInv
    <3>2. NoFunctorOf(functors, i)
      BY <1>1, <3>1, NoFunctorYet
    <3>3. Fit(functors, conns') /\ conns'[i] = "closed"
      BY Zenon, <1>1, <2>2, <3>1, <3>2, Changed
    <3>4. BaseLoop \in Loops
      BY DEF BaseLoop, Loops
    <3>5. Fit(functors', conns')
      BY Zenon, <2>2, <3>2, <3>3, <3>4, StateForFacts, Enqueued
    <3>6. QED
      BY <1>1, <2>1, <2>2, <2>3, <3>5 DEF FunctorInv
  <2>4. CASE server # "alive"
    BY Zenon, <1>1, <2>1, <2>2, <2>4 DEF FunctorInv
  <2>5. QED
    BY <2>3, <2>4
<1>4. QED
  BY <1>2, <1>3

(***************************************************************************)
(* A functor that runs finds its connection in the state in which it was   *)
(* queued; an IO loop of a destroyed server is the exception.              *)
(***************************************************************************)
LEMMA FunctorsRun ==
  ASSUME ServerTypeOK, FunctorInv, IInv, NEW l \in Loops, RunFunctor(l) PROVE FunctorInv'
<1>1. /\ conns \in [Conns -> Statuses] /\ loopOf \in [Conns -> Loops] /\ functors[l] # << >>
      /\ loopOf' = loopOf /\ picks' = picks /\ loops_' = loops_ /\ env' = env /\ loops_ \in Nat
      /\ server # "broken" /\ server \in {"alive", "destroyed", "broken"}
  BY DEF RunFunctor, ServerTypeOK, vars, IInv, TypeOK
<1>2. PICK f, i, q : /\ f = Head(functors[l])[1] /\ i = Head(functors[l])[2]
                     /\ q = [functors EXCEPT ![l] = Tail(@)]
  BY Zenon
<1>3. \/ /\ f = "connectEstablished"
         /\ conns' = [conns EXCEPT ![i] = IF @ = "created" THEN "established" ELSE @]
         /\ server' = IF conns[i] = "created" THEN server ELSE "broken"
         /\ functors' = q
      \/ f = "removeConnectionInLoop" /\ removeConnectionInLoop(i, q)
      \/ /\ f = "connnectDestroyed" /\ conns' = [conns EXCEPT ![i] = "destroyed"]
         /\ functors' = q /\ server' = server
  BY Zenon, <1>2 DEF RunFunctor
<1>4. CASE server # "alive" /\ loops_ # 0
  <2>1. server' \in {server, "broken"}
    BY <1>3 DEF removeConnectionInLoop
  <2>2. QED
    BY <1>1, <1>4, <2>1 DEF FunctorInv
<1>5. CASE server = "alive" \/ loops_ = 0
  <2>1. Fit(functors, conns)
    BY Zenon, <1>5 DEF FunctorInv
  <2>2. /\ Fit(q, conns) /\ NoFunctorOf(q, i) /\ Head(functors[l]) \in Functor /\ conns[i] = StateFor[f]
    BY Zenon, <1>1, <1>2, <2>1, Dequeued
  <2>3. f \in DOMAIN StateFor /\ i \in Conns
    BY <1>2, <2>2 DEF Functor
  <2>4. functors \in [Loops -> Seq(Functor)]
    BY <2>1 DEF Fit, Functor
  <2>5. /\ Head(functors[l]) = functors[l][1] /\ 1 \in 1..Len(functors[l])
        /\ \A k \in 1..Len(Tail(functors[l])) :
             k + 1 \in 1..Len(functors[l]) /\ Tail(functors[l])[k] = functors[l][k + 1]
    BY <1>1, <2>4, TailFacts
  <2>6. loops_ = 0 => f = "connnectDestroyed"
    BY <1>2, <2>5 DEF FunctorInv
  <2>7. CASE f = "connectEstablished"
    <3>1. /\ conns[i] = "created" /\ functors' = q /\ server' = server
          /\ conns' = [conns EXCEPT ![i] = "established"]
      BY Zenon, <1>1, <1>3, <2>2, <2>3, <2>7, StateForFacts
    <3>2. Fit(functors', conns')
      BY Zenon, <1>1, <2>2, <3>1, Changed
    <3>3. QED
      BY <1>1, <2>6, <2>7, <3>1, <3>2 DEF FunctorInv
  <2>8. CASE f = "removeConnectionInLoop"
    <3>1. conns[i] = "closed" /\ loops_ # 0 /\ server = "alive" /\ removeConnectionInLoop(i, q)
      BY <1>3, <1>5, <2>2, <2>6, <2>8, StateForFacts
    <3>2. server' = server /\ conns' = [conns EXCEPT ![i] = "erased"] /\ Fit(functors', conns')
      BY Zenon, <2>2, <2>3, <3>1, Erase
    <3>3. QED
      BY SMTT(30), <1>1, <3>1, <3>2 DEF FunctorInv
  <2>9. CASE f = "connnectDestroyed"
    <3>1. /\ conns[i] = "erased" /\ conns' = [conns EXCEPT ![i] = "destroyed"]
          /\ functors' = q /\ server' = server
      BY <1>3, <2>2, <2>9, StateForFacts
    <3>2. Fit(functors', conns')
      BY Zenon, <1>1, <2>2, <3>1, Changed
    <3>3. ASSUME loops_ = 0, NEW m \in Loops, NEW k \in 1..Len(functors'[m])
          PROVE  functors'[m][k][1] = "connnectDestroyed"
      <4>1. CASE m = l
        <5>1. functors'[m] = Tail(functors[l])
          BY <1>2, <2>4, <3>1, <4>1
        <5>2. k + 1 \in 1..Len(functors[l]) /\ functors'[m][k] = functors[l][k + 1]
          BY <2>5, <3>3, <5>1
        <5>3. QED
          BY SMTT(30), <3>3, <5>2 DEF FunctorInv
      <4>2. CASE m # l
        BY <1>2, <2>4, <3>1, <3>3, <4>2 DEF FunctorInv
      <4>3. QED
        BY <4>1, <4>2
    <3>4. \A j \in Conns : conns[j] = "unused" => conns'[j] = "unused"
      BY <1>1, <3>1
    <3>5. loops_ = 0 => \A j \in Conns : loopOf[j] = BaseLoop /\ conns'[j] # "created"
      BY <1>1, <3>1 DEF FunctorInv
    <3>6. QED
      BY Zenon, <1>1, <3>1, <3>2, <3>3, <3>4, <3>5 DEF FunctorInv
  <2>10. QED
    BY <2>3, <2>7, <2>8, <2>9, StateForFacts
<1>6. QED
  BY <1>4, <1>5

(***************************************************************************)
(* ~TcpServer without IO threads destroys the entries of connections_; the *)
(* functors left belong to connections already erased.                     *)
(***************************************************************************)
LEMMA FunctorsDestroy == ASSUME ServerTypeOK, FunctorInv, IInv, Destroy PROVE FunctorInv'
<1>1. /\ conns \in [Conns -> Statuses] /\ server' = "destroyed" /\ env' = env /\ env.destroys
      /\ loopOf' = loopOf /\ loops_' = loops_ /\ server = "alive"
  BY DEF Destroy, Polling, ServerTypeOK, vars
<1>2. CASE loops_ # 0
  BY <1>1, <1>2 DEF FunctorInv
<1>3. CASE loops_ = 0
  <2>1. Fit(functors, conns)
    BY <1>1 DEF FunctorInv
  <2>2. functors \in [Loops -> Seq(Functor)]
    BY <2>1 DEF Fit, Functor
  <2>3. 0..(loops_ - 1) = {}
    BY <1>3
  <2>4. functors' = functors
    BY <2>2, <2>3 DEF Destroy
  <2>5. conns' = [i \in Conns |-> IF i \in connections_ /\ loopOf[i] = BaseLoop
                                  THEN "destroyed" ELSE conns[i]]
    BY DEF Destroy
  <2>6. ASSUME NEW l \in Loops, NEW k \in 1..Len(functors[l])
        PROVE  conns'[functors[l][k][2]] = conns[functors[l][k][2]]
    <3>1. functors[l][k] \in Functor
      BY <2>2
    <3>2. functors[l][k][2] \in Conns /\ functors[l][k][1] = "connnectDestroyed"
      BY Zenon, <1>3, <3>1 DEF FunctorInv, Functor
    <3>3. conns[functors[l][k][2]] = "erased"
      BY <2>1, <3>2, StateForFacts DEF Fit
    <3>4. QED
      BY <2>5, <3>2, <3>3 DEF connections_
  <2>7. Fit(functors', conns')
    BY <2>1, <2>4, <2>6 DEF Fit
  <2>8. \A i \in Conns : loopOf[i] = BaseLoop /\ conns'[i] # "created"
    BY <1>3, <2>5 DEF FunctorInv
  <2>9. QED
    BY Zenon, <1>1, <1>3, <2>4, <2>7, <2>8 DEF FunctorInv
<1>4. QED
  BY <1>2, <1>3

(***************************************************************************)
(* An IO loop that quits drops its functors; without IO threads it had no  *)
(* connections.                                                            *)
(***************************************************************************)
LEMMA FunctorsIoLoopQuits ==
  ASSUME ServerTypeOK, FunctorInv, IInv, NEW l \in Loops, IoLoopQuits(l) PROVE FunctorInv'
<1>1. /\ conns \in [Conns -> Statuses] /\ server = "destroyed" /\ server' = server /\ env' = env
      /\ loopOf' = loopOf /\ loops_' = loops_
  BY DEF IoLoopQuits, ServerTypeOK, vars
<1>2. CASE loops_ # 0
  BY <1>1, <1>2 DEF FunctorInv
<1>3. CASE loops_ = 0
  <2>1. Fit(functors, conns)
    BY <1>3 DEF FunctorInv
  <2>2. functors \in [Loops -> Seq(Functor)]
    BY <2>1 DEF Fit, Functor
  <2>3. conns' = conns
    BY <1>1, <1>3 DEF IoLoopQuits, FunctorInv
  <2>4. functors' = [functors EXCEPT ![l] = << >>]
    BY DEF IoLoopQuits
  <2>5. /\ functors' \in [Loops -> Seq(Functor)]
        /\ \A m \in Loops : \A k \in 1..Len(functors'[m]) :
             k \in 1..Len(functors[m]) /\ functors'[m] = functors[m]
    BY <2>2, <2>4
  <2>6. Fit(functors', conns')
    BY SMTT(30), <2>1, <2>3, <2>5 DEF Fit, Functor
  <2>7. QED
    BY <1>1, <1>3, <2>3, <2>5, <2>6 DEF FunctorInv
<1>4. QED
  BY <1>2, <1>3

(***************************************************************************)
(* Steps that leave the connections alone, and the start of the pool,      *)
(* which creates IO loops that have no functors yet.                       *)
(***************************************************************************)
LEMMA FunctorsElsewhere ==
  ASSUME FunctorInv, UNCHANGED connVars, env' = env, picks' = picks,
         loops_' = loops_ \/ (loops_ = 0 /\ loops_' \in Nat /\ server = "alive")
  PROVE  FunctorInv'
<1>1. functors' = functors /\ conns' = conns /\ loopOf' = loopOf /\ server' = server
  BY DEF connVars
<1>2. CASE loops_' = loops_
  BY Zenon, <1>1, <1>2 DEF FunctorInv
<1>3. CASE loops_ = 0 /\ loops_' \in Nat /\ server = "alive"
  BY <1>1, <1>3 DEF FunctorInv
<1>4. QED
  BY <1>2, <1>3

(***************************************************************************)
(* FunctorInv is preserved by every step.                                  *)
(***************************************************************************)
LEMMA FunctorStep ==
  ASSUME ServerTypeOK, FunctorInv, IInv, [ServerNext]_serverVars PROVE FunctorInv'
<1>1. CASE HandleRead
  BY <1>1, FunctorsHandleRead
<1>2. CASE Destroy
  BY <1>2, FunctorsDestroy
<1>3. ASSUME NEW l \in Loops, RunFunctor(l) PROVE FunctorInv'
  BY <1>3, FunctorsRun
<1>4. ASSUME NEW l \in Loops, IoLoopQuits(l) PROVE FunctorInv'
  BY <1>4, FunctorsIoLoopQuits
<1>5. ASSUME NEW i \in Conns, HandleClose(i) PROVE FunctorInv'
  BY <1>5, FunctorsHandleClose
<1>6. CASE ServerStart
  <2>1. CASE started_
    BY <1>6, <2>1, FunctorsElsewhere DEF ServerStart, vars
  <2>2. CASE ~started_
    <3>1. /\ UNCHANGED connVars /\ env' = env /\ picks' = picks /\ loops_' = numThread_
          /\ server = "alive" /\ loops_ = 0 /\ numThread_ \in Nat
      BY <1>6, <2>2 DEF ServerStart, Polling, Start, IInv, RoundInv, TypeOK
    <3>2. QED
      BY <3>1, FunctorsElsewhere
  <2>3. QED
    BY <2>1, <2>2
<1>7. ASSUME NEW n \in 0..MaxThreads, ServerSetThreadNum(n) PROVE FunctorInv'
  BY <1>7, FunctorsElsewhere DEF ServerSetThreadNum, SetThreadNum
<1>8. CASE CloseSpare \/ AcceptIntoSpare \/ CloseAccepted \/ OpenSpare
  <2>1. UNCHANGED <<vars, env, connVars>>
    BY <1>8 DEF CloseSpare, AcceptIntoSpare, CloseAccepted, OpenSpare
  <2>2. QED
    BY <2>1, FunctorsElsewhere DEF vars
<1>9. CASE ClientConnects \/ ClientAborts \/ OtherOpens \/ OtherCloses \/ UNCHANGED serverVars
  <2>1. UNCHANGED <<vars, env, connVars>>
    BY <1>9 DEF ClientConnects, ClientAborts, OtherOpens, OtherCloses, serverVars
  <2>2. QED
    BY <2>1, FunctorsElsewhere DEF vars
<1>10. QED
  BY <1>1, <1>2, <1>3, <1>4, <1>5, <1>6, <1>7, <1>8, <1>9 DEF ServerNext, HandleReads

(***************************************************************************)
(* A server without connections satisfies it.                              *)
(***************************************************************************)
LEMMA FunctorInit == ServerInit => FunctorInv
<1> SUFFICES ASSUME ServerInit PROVE FunctorInv
  OBVIOUS
<1>1. /\ conns = [i \in Conns |-> "unused"] /\ loopOf = [i \in Conns |-> BaseLoop]
      /\ functors = [l \in Loops |-> << >>] /\ server = "alive"
  BY DEF ServerInit
<1>2. functors \in [Loops -> Seq(Functor)] /\ \A l \in Loops : 1..Len(functors[l]) = {}
  BY <1>1
<1>3. Fit(functors, conns)
  BY <1>2 DEF Fit, Functor
<1>4. QED
  BY <1>1, <1>2, <1>3 DEF FunctorInv

(***************************************************************************)
(* The functors that TcpServer queues with raw pointers find their         *)
(* objects, and removeConnectionInLoop's assert(n == 1) holds, for any     *)
(* number of threads, connections and descriptors; unless a server with IO *)
(* threads is destroyed before its connections.                            *)
(***************************************************************************)
THEOREM FunctorsFindTheirObjects == ServerSpec => []RawPointersLive
<1>1. ServerTypeOK /\ FunctorInv /\ IInv /\ [ServerNext]_serverVars => FunctorInv'
  BY FunctorStep
<1>2. ServerTypeOK /\ FunctorInv => RawPointersLive
  BY DEF FunctorInv, RawPointersLive
<1>3. QED
  BY FunctorInit, <1>1, <1>2, PoolInv, SpareInductive, PTL DEF ServerSpec
=============================================================================
