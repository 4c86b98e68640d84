------------------------- MODULE EventLoopThreadPool -------------------------
(***************************************************************************)
(* EventLoopThreadPool: the IO loops a TcpServer spreads its connections   *)
(* over.  Every call is on the thread of the base loop.  start blocks in   *)
(* startLoop once per thread (module EventLoopThread) and is one step      *)
(* here.  Loops are named by their position in loops_, from 0.             *)
(***************************************************************************)
EXTENDS Integers

CONSTANTS MaxThreads,  \* bound: the largest numThread_ asked for
          MaxPicks     \* bound: calls of getNextLoop in a behaviour

ASSUME PoolAssumption == MaxThreads \in Nat /\ MaxPicks \in Nat

BaseLoop == -1

VARIABLES
  numThread_, started_,
  loops_,    \* how many loops start created
  next_,     \* the loop whose turn it is
  served,    \* history: per loop, how often getNextLoop returned it
  picks      \* history: calls of getNextLoop

vars == <<numThread_, started_, loops_, next_, served, picks>>

Loops == BaseLoop..(MaxThreads - 1)

Init ==
  /\ numThread_ = 0
  /\ started_ = FALSE
  /\ loops_ = 0
  /\ next_ = 0
  /\ served = [i \in Loops |-> 0]
  /\ picks = 0

SetThreadNum(n) ==
  /\ numThread_' = n
  /\ UNCHANGED <<started_, loops_, next_, served, picks>>

Start ==
  /\ ~started_
  /\ started_' = TRUE
  /\ loops_' = numThread_
  /\ UNCHANGED <<numThread_, next_, served, picks>>

WrapsEarly(n) == IF n >= loops_ - 1 THEN 0 ELSE n

(***************************************************************************)
(* The turn after n - 1.                                                   *)
(***************************************************************************)
Wraps(n) == IF n >= loops_ THEN 0 ELSE n

(***************************************************************************)
(* getNextLoop; TcpServer calls it only after start.                       *)
(***************************************************************************)
GetNextLoop ==
  /\ started_
  /\ picks < MaxPicks
  /\ IF loops_ = 0
     THEN /\ served' = [served EXCEPT ![BaseLoop] = @ + 1]
          /\ UNCHANGED next_
     ELSE /\ served' = [served EXCEPT ![next_] = @ + 1]
          /\ next_' = Wraps(next_ + 1)
  /\ picks' = picks + 1
  /\ UNCHANGED <<numThread_, started_, loops_>>

Next == \/ Start \/ GetNextLoop
        \/ \E n \in 0..MaxThreads : SetThreadNum(n)

Spec == Init /\ [][Next]_vars

-----------------------------------------------------------------------------
(***************************************************************************)
(* Types; next_ is always an index of loops_, the access getNextLoop makes *)
(* without a check, also when setThreadNum changes numThread_ after start. *)
(***************************************************************************)
TypeOK ==
  /\ numThread_ \in 0..MaxThreads
  /\ started_ \in BOOLEAN
  /\ loops_ \in 0..MaxThreads
  /\ next_ \in Nat
  /\ served \in [Loops -> Nat]
  /\ picks \in 0..MaxPicks
  /\ loops_ > 0 => next_ < loops_

(***************************************************************************)
(* Round robin is fair at every moment: no IO loop is ever more than one   *)
(* connection ahead of another, and the base loop serves none of them      *)
(* while there are IO loops.                                               *)
(***************************************************************************)
Balanced ==
  loops_ > 0 => /\ served[BaseLoop] = 0
                /\ \A i, j \in 0..(loops_ - 1) : served[i] <= served[j] + 1

(***************************************************************************)
(* What makes Balanced inductive: the loops before next_ have had exactly  *)
(* one turn more than those from next_ on.                                 *)
(***************************************************************************)
RoundInv ==
  /\ ~started_ => loops_ = 0 /\ next_ = 0 /\ \A i \in Loops : served[i] = 0
  /\ loops_ > 0 => served[BaseLoop] = 0
  /\ \A i, j \in 0..(loops_ - 1) :
       served[i] = served[j] + (IF i < next_ /\ j >= next_ THEN 1
                                ELSE IF i >= next_ /\ j < next_ THEN -1 ELSE 0)

IInv == TypeOK /\ RoundInv
=============================================================================
