-------------------------- MODULE ThreadPool_proofs --------------------------
(***************************************************************************)
(* Proofs about ThreadPool for any number of workers, callers, tasks and   *)
(* restarts: nobody sleeps on a stopped pool or on queued work, stop()     *)
(* drains the queue, and the pool is a FIFO queue of tasks.                *)
(***************************************************************************)
EXTENDS ThreadPool, FiniteSetTheorems, TLAPS

USE PoolAssumption

Testing == At({"test"})
Pushed == {c \in Callers : call[c] = "pushed"}

(***************************************************************************)
(* The sets Tokens counts are finite.                                      *)
(***************************************************************************)
LEMMA CountsAreNaturals ==
  /\ IsFiniteSet(Testing) /\ IsFiniteSet(Pushed)
  /\ Cardinality(Testing) \in Nat /\ Cardinality(Pushed) \in Nat
<1>1. IsFiniteSet(Workers)
  BY FS_Interval DEF Workers
<1>2. Testing \subseteq Workers /\ Pushed \subseteq Callers
  BY DEF Testing, Pushed, At
<1>3. IsFiniteSet(Testing) /\ IsFiniteSet(Pushed)
  BY <1>1, <1>2, FS_Subset
<1>4. QED
  BY <1>3, FS_CardinalityType

(***************************************************************************)
(* A worker that comes to the test, and a caller that pushes, add one; a   *)
(* worker that takes a task, and a caller that notifies, take one away.    *)
(***************************************************************************)
LEMMA OneMore ==
  ASSUME NEW S, IsFiniteSet(S), NEW x
  PROVE  /\ Cardinality(S \cup {x}) \in Nat /\ Cardinality(S \cup {x}) >= Cardinality(S)
         /\ x \notin S => Cardinality(S \cup {x}) = Cardinality(S) + 1
<1>1. Cardinality(S) \in Nat
  BY FS_CardinalityType
<1>2. Cardinality(S \cup {x}) = IF x \in S THEN Cardinality(S) ELSE Cardinality(S) + 1
  BY FS_AddElement
<1>3. QED
  BY <1>1, <1>2

LEMMA OneLess ==
  ASSUME NEW S, IsFiniteSet(S), NEW x \in S
  PROVE  Cardinality(S \ {x}) \in Nat /\ Cardinality(S \ {x}) = Cardinality(S) - 1
<1>1. IsFiniteSet(S \ {x}) /\ Cardinality(S \ {x}) = Cardinality(S) - 1
  BY FS_RemoveElement
<1>2. QED
  BY <1>1, FS_CardinalityType

(***************************************************************************)
(* A new pool satisfies the invariant.                                     *)
(***************************************************************************)
LEMMA IInvInit == Init => IInv
<1> SUFFICES ASSUME Init PROVE IInv
  OBVIOUS
<1>1. TypeOK
  <2>1. /\ worker \in [Workers -> WorkerPCs] /\ inHand \in [Workers -> 0..MaxTasks]
        /\ call \in [Callers -> {"none", "pushed"}]
    BY DEF Init, WorkerPCs
  <2>2. \A w \in Workers : worker[w] = "none" <=> w > threads_
    BY DEF Init, Workers
  <2>3. queue_ \in Seq(Tasks) /\ taken \in Seq(Tasks)
    BY DEF Init
  <2>4. /\ threads_ \in 0..MaxThreads /\ numThread \in 0..MaxThreads
        /\ starts \in 0..MaxStarts /\ accepted \in 0..MaxTasks
    BY DEF Init
  <2>5. running_ \in BOOLEAN /\ owner \in OwnerPCs /\ ended \subseteq 1..accepted
    BY Zenon DEF Init, OwnerPCs
  <2>6. QED
    BY <2>1, <2>2, <2>3, <2>4, <2>5 DEF TypeOK
<1>2. Phases /\ Mutex /\ NoLostStop /\ LeftEmpty /\ Tokens
  BY DEF Init, Phases, Mutex, NoLostStop, LeftEmpty, Tokens, At
<1>3. Accounted
  BY DEF Init, Accounted
<1>4. QED
  BY <1>1, <1>2, <1>3 DEF IInv

(***************************************************************************)
(* The owner's steps.                                                      *)
(***************************************************************************)
LEMMA OwnerKeeps ==
  ASSUME IInv
  PROVE  /\ \A n \in 0..MaxThreads : Start(n) => IInv'
         /\ OwnerStep \/ StartThrows \/ Stop => IInv'
<1> USE DEF callerVars, IInv, Testing, Pushed
<1>1. ASSUME NEW n \in 0..MaxThreads, Start(n) PROVE IInv'
  <2> USE <1>1 DEF Start
  <2>1. TypeOK'
    BY DEF TypeOK, OwnerPCs
  <2>2. threads_ = 0 /\ At({"falling", "wait"}) = {}
    BY DEF Phases, NoLostStop
  <2>3. Phases' /\ Mutex' /\ NoLostStop'
    BY <2>2 DEF Phases, Mutex, NoLostStop, At
  <2>4. LeftEmpty'
    BY <2>2 DEF LeftEmpty, TypeOK, Workers
  <2>5. Tokens' /\ Accounted'
    BY DEF Tokens, Accounted, At, TasksIn
  <2>6. QED
    BY <2>1, <2>3, <2>4, <2>5
<1>2. ASSUME CreateThread PROVE IInv'
  <2> USE <1>2 DEF CreateThread
  <2>1. threads_ + 1 \in Workers /\ worker[threads_ + 1] = "none" /\ running_
    BY DEF TypeOK, Phases, Workers
  <2>2. TypeOK'
    BY <2>1 DEF TypeOK, Workers, WorkerPCs
  <2>3. \A w \in Workers : worker'[w] = IF w = threads_ + 1 THEN "test" ELSE worker[w]
    BY DEF TypeOK
  <2>4. /\ At({"falling"})' = At({"falling"}) /\ At({"wait"})' = At({"wait"})
        /\ At({"falling", "wait"})' = At({"falling", "wait"})
        /\ At({"task"})' = At({"task"}) /\ Testing' = Testing \cup {threads_ + 1}
    BY <2>1, <2>3 DEF At
  <2>5. Phases' /\ Mutex' /\ NoLostStop'
    BY <2>1, <2>4 DEF Phases, Mutex, NoLostStop, TypeOK
  <2>6. LeftEmpty'
    BY <2>1, <2>3 DEF LeftEmpty
  <2>7. Tokens'
    <3>1. Cardinality(Testing') \in Nat /\ Cardinality(Testing') >= Cardinality(Testing)
      BY <2>4, CountsAreNaturals, OneMore
    <3>2. QED
      BY <2>4, <3>1, CountsAreNaturals DEF Tokens, TypeOK
  <2>8. Accounted'
    BY <2>4 DEF Accounted, TasksIn
  <2>9. QED
    BY <2>2, <2>5, <2>6, <2>7, <2>8
<1>3. ASSUME LeaveStart PROVE IInv'
  <2> USE <1>3 DEF LeaveStart
  <2>1. TypeOK' /\ Phases'
    BY DEF TypeOK, Phases, OwnerPCs
  <2>2. Mutex' /\ NoLostStop' /\ LeftEmpty' /\ Tokens' /\ Accounted'
    BY DEF Phases, Mutex, NoLostStop, LeftEmpty, Tokens, Accounted, At, TasksIn
  <2>3. QED
    BY <2>1, <2>2
<1>4. ASSUME Stop PROVE IInv'
  <2> USE <1>4 DEF Stop
  <2>1. TypeOK' /\ Phases'
    BY Zenon DEF TypeOK, Phases, OwnerPCs
  <2>2. Mutex' /\ NoLostStop' /\ LeftEmpty' /\ Tokens' /\ Accounted'
    BY DEF Mutex, NoLostStop, LeftEmpty, Tokens, Accounted, At, TasksIn
  <2>3. QED
    BY <2>1, <2>2
<1>5. ASSUME NotifyAll PROVE IInv'
  <2> USE <1>5 DEF NotifyAll
  <2>1. /\ \A w \in Workers : worker'[w] = Woken(worker[w])
        /\ \A w \in Workers : Woken(worker[w]) \in WorkerPCs \ {"wait"}
        /\ \A w \in Workers, pc \in WorkerPCs \ {"wait", "test"} :
             worker'[w] = pc <=> worker[w] = pc
    BY DEF TypeOK, Woken, WorkerPCs
  <2>2. TypeOK' /\ Phases'
    BY <2>1 DEF TypeOK, Phases, OwnerPCs, WorkerPCs
  <2>3. At({"falling", "wait"})' = {} /\ At({"wait"})' = {} /\ At({"falling"})' = {}
        /\ At({"task"})' = At({"task"})
    BY <2>1 DEF At, MutexFree, WorkerPCs
  <2>4. Mutex' /\ NoLostStop' /\ Tokens' /\ Accounted'
    BY <2>3 DEF Mutex, NoLostStop, Tokens, Accounted, TasksIn
  <2>5. LeftEmpty'
    BY <2>1 DEF LeftEmpty, WorkerPCs
  <2>6. QED
    BY <2>2, <2>4, <2>5
<1>6. ASSUME Join PROVE IInv'
  <2> USE <1>6 DEF Join
  <2>1. TypeOK' /\ Phases'
    BY DEF TypeOK, Phases, OwnerPCs, WorkerPCs, Workers
  <2>2. /\ At({"falling", "wait"})' = {} /\ At({"wait"})' = {} /\ At({"falling"})' = {}
        /\ At({"task"}) = {}
    <3>1. \A w \in Workers : worker[w] \in {"none", "returned", "crashed"}
      BY DEF TypeOK, Workers
    <3>2. QED
      BY <3>1 DEF At
  <2>3. Mutex' /\ NoLostStop' /\ Tokens' /\ LeftEmpty'
    BY <2>2 DEF Mutex, NoLostStop, Tokens, LeftEmpty
  <2>4. Accounted'
    BY <2>2 DEF Accounted, TasksIn
  <2>5. QED
    BY <2>1, <2>3, <2>4
<1>7. QED
  BY <1>1, <1>2, <1>3, <1>4, <1>5, <1>6 DEF OwnerStep, StartReturns, StartThrows

(***************************************************************************)
(* run(): the push and the notify.                                         *)
(***************************************************************************)
LEMMA CallerKeeps ==
  ASSUME IInv, NEW c \in Callers
  PROVE  Run(c) \/ NotifyOne(c) => IInv'
<1> USE DEF ownerVars, IInv, Testing, Pushed
<1>1. ASSUME Run(c) PROVE IInv'
  <2> USE <1>1 DEF Run
  <2>1. accepted' \in 1..MaxTasks /\ accepted \in Nat /\ accepted' = accepted + 1
    BY DEF TypeOK
  <2>2. /\ queue_' \in Seq(Tasks) /\ Len(queue_') = Len(queue_) + 1 /\ Len(queue_) \in Nat
        /\ TasksIn(queue_') = TasksIn(queue_) \cup {accepted'}
    <3>1. queue_ \in Seq(Tasks) /\ accepted' \in Tasks
      BY <2>1 DEF TypeOK, Tasks
    <3>2. /\ queue_' \in Seq(Tasks) /\ Len(queue_') = Len(queue_) + 1 /\ Len(queue_) \in Nat
          /\ \A i \in 1..Len(queue_) : queue_'[i] = queue_[i]
          /\ queue_'[Len(queue_) + 1] = accepted'
      BY <3>1
    <3>3. QED
      BY <3>2 DEF TasksIn
  <2>3. TypeOK'
    BY <2>1, <2>2 DEF TypeOK
  <2>4. Phases' /\ Mutex' /\ NoLostStop' /\ LeftEmpty'
    BY DEF Phases, Mutex, NoLostStop, LeftEmpty, At, MutexFree
  <2>5. Tokens'
    <3>1. Pushed' = Pushed \cup {c} /\ c \notin Pushed /\ Testing' = Testing
          /\ At({"wait"})' = At({"wait"})
      BY DEF TypeOK, At
    <3>2. Cardinality(Pushed') = Cardinality(Pushed) + 1
      BY Zenon, <3>1, CountsAreNaturals, OneMore
    <3>3. QED
      BY <2>2, <3>1, <3>2, CountsAreNaturals DEF Tokens
  <2>6. Accounted'
    BY <2>1, <2>2 DEF Accounted, At
  <2>7. QED
    BY <2>3, <2>4, <2>5, <2>6
<1>2. ASSUME NotifyOne(c) PROVE IInv'
  <2> USE <1>2 DEF NotifyOne
  <2>1. Pushed' = Pushed \ {c} /\ c \in Pushed /\ call' \in [Callers -> {"none", "pushed"}]
    BY DEF TypeOK
  <2>2. CASE At({"wait"}) = {} /\ UNCHANGED worker
    <3>1. TypeOK'
      BY <2>1, <2>2 DEF TypeOK
    <3>2. Phases' /\ Mutex' /\ NoLostStop' /\ LeftEmpty' /\ Tokens' /\ Accounted'
      BY <2>2 DEF Phases, Mutex, NoLostStop, LeftEmpty, Tokens, Accounted, At, TasksIn
    <3>3. QED
      BY <3>1, <3>2
  <2>3. CASE \E w \in At({"wait"}) : worker' = [worker EXCEPT ![w] = "test"]
    <3>1. PICK w \in At({"wait"}) : worker' = [worker EXCEPT ![w] = "test"]
      BY Zenon, <2>3
    <3>2. w \in Workers /\ worker[w] = "wait"
          /\ \A v \in Workers : worker'[v] = IF v = w THEN "test" ELSE worker[v]
      BY <3>1 DEF At, TypeOK
    <3>3. TypeOK'
      BY <2>1, <3>1, <3>2 DEF TypeOK, WorkerPCs
    <3>4. /\ At({"falling"})' = At({"falling"}) /\ At({"wait"})' \subseteq At({"wait"})
          /\ At({"falling", "wait"})' \subseteq At({"falling", "wait"})
          /\ At({"task"})' = At({"task"})
          /\ Testing' = Testing \cup {w} /\ w \notin Testing
      BY <3>2 DEF At
    <3>5. Phases' /\ Mutex' /\ NoLostStop' /\ Accounted'
      BY <3>4 DEF Phases, Mutex, NoLostStop, Accounted, TasksIn
    <3>6. LeftEmpty'
      BY <3>2 DEF LeftEmpty
    <3>7. Tokens'
      <4>1. /\ Cardinality(Testing') = Cardinality(Testing) + 1
            /\ Cardinality(Pushed') = Cardinality(Pushed) - 1
        BY Zenon, <2>1, <3>4, CountsAreNaturals, OneMore, OneLess
      <4>2. QED
        BY <3>4, <4>1, CountsAreNaturals DEF Tokens
    <3>8. QED
      BY <3>3, <3>5, <3>6, <3>7
  <2>4. QED
    BY <2>2, <2>3
<1>3. QED
  BY <1>1, <1>2

(***************************************************************************)
(* A worker that moves: where the others are, and what that leaves of At.  *)
(***************************************************************************)
LEMMA OneMoves ==
  ASSUME TypeOK, NEW w \in Workers, NEW pc \in WorkerPCs \ {"none"}, worker[w] # "none",
         worker' = [worker EXCEPT ![w] = pc]
  PROVE  /\ worker' \in [Workers -> WorkerPCs]
         /\ \A v \in Workers : worker'[v] = IF v = w THEN pc ELSE worker[v]
         /\ \A pcs : At(pcs)' = IF pc \in pcs THEN At(pcs) \cup {w} ELSE At(pcs) \ {w}
  BY DEF TypeOK, At

(***************************************************************************)
(* run_in_thread: the test of the condition and the three ways on.         *)
(***************************************************************************)
LEMMA TestKeeps ==
  ASSUME IInv, NEW w \in Workers, Test(w)
  PROVE  IInv'
<1> USE DEF callerVars, ownerVars, IInv, Testing, Pushed
<1>0. /\ worker[w] = "test" /\ At({"falling"}) = {} /\ w \in Testing /\ w \notin At({"task"})
      /\ UNCHANGED <<running_, ended, callerVars, ownerVars>> /\ Pushed' = Pushed
  BY DEF Test, MutexFree, At
<1>1. CASE TakeTask(w)
  <2> USE <1>0, <1>1 DEF TakeTask
  <2>1. /\ worker' \in [Workers -> WorkerPCs]
        /\ \A v \in Workers : worker'[v] = IF v = w THEN "task" ELSE worker[v]
        /\ At({"falling"})' = {} /\ At({"wait"})' = At({"wait"})
        /\ At({"falling", "wait"})' = At({"falling", "wait"})
        /\ At({"task"})' = At({"task"}) \cup {w} /\ Testing' = Testing \ {w}
    <3>1. "task" \in WorkerPCs \ {"none"}
      BY DEF WorkerPCs
    <3>2. QED
      BY Zenon, <3>1, OneMoves DEF At
  <2>2. /\ Head(queue_) \in Tasks /\ queue_' \in Seq(Tasks) /\ Len(queue_) \in Nat \ {0}
        /\ Len(queue_') = Len(queue_) - 1
        /\ TasksIn(queue_) \subseteq TasksIn(queue_') \cup {Head(queue_)}
    <3>1. queue_ \in Seq(Tasks) /\ queue_ # << >>
      BY DEF TypeOK
    <3>2. /\ Head(queue_) \in Tasks /\ queue_' \in Seq(Tasks) /\ Len(queue_) \in Nat \ {0}
          /\ Len(queue_') = Len(queue_) - 1 /\ Head(queue_) = queue_[1]
          /\ \A i \in 1..Len(queue_') : queue_'[i] = queue_[i + 1]
      BY <3>1
    <3>3. ASSUME NEW i \in 1..Len(queue_)
          PROVE  queue_[i] \in TasksIn(queue_') \cup {Head(queue_)}
      <4>1. CASE i = 1
        BY <3>2, <4>1
      <4>2. CASE i # 1
        <5>1. i - 1 \in 1..Len(queue_') /\ queue_'[i - 1] = queue_[i]
          BY <3>2, <4>2
        <5>2. QED
          BY <5>1 DEF TasksIn
      <4>3. QED
        BY <4>1, <4>2
    <3>4. QED
      BY <3>2, <3>3 DEF TasksIn
  <2>3. inHand' = [inHand EXCEPT ![w] = Head(queue_)] /\ inHand \in [Workers -> 0..MaxTasks]
        /\ inHand'[w] = Head(queue_) /\ Head(queue_) \in 0..MaxTasks
        /\ \A v \in At({"task"}) : inHand'[v] = inHand[v]
    BY <2>2 DEF TypeOK, Tasks, At
  <2>4. taken' \in Seq(Tasks)
    BY <2>2 DEF TypeOK
  <2>5. TypeOK'
    BY <2>1, <2>2, <2>3, <2>4 DEF TypeOK
  <2>6. Phases' /\ Mutex' /\ NoLostStop'
    BY <2>1 DEF Phases, Mutex, NoLostStop
  <2>7. LeftEmpty'
    BY <2>1 DEF LeftEmpty
  <2>8. Tokens'
    <3>1. Cardinality(Testing') = Cardinality(Testing) - 1
      BY <2>1, CountsAreNaturals, OneLess
    <3>2. QED
      BY <2>1, <2>2, <3>1, CountsAreNaturals DEF Tokens
  <2>9. Accounted'
    <3>1. Head(queue_) \in {inHand'[v] : v \in At({"task"})'}
      BY <2>1, <2>3
    <3>2. {inHand[v] : v \in At({"task"})} \subseteq {inHand'[v] : v \in At({"task"})'}
      BY <2>1, <2>3
    <3>3. QED
      BY Zenon, <2>2, <3>1, <3>2 DEF Accounted
  <2>10. QED
    BY <2>5, <2>6, <2>7, <2>8, <2>9
<1>2. ASSUME NEW pc \in {"returned", "falling"}, worker' = [worker EXCEPT ![w] = pc],
             queue_ = << >>, UNCHANGED <<queue_, inHand, taken>>,
             pc = "returned" <=> ~running_
      PROVE  IInv'
  <2> USE <1>0, <1>2
  <2>1. /\ worker' \in [Workers -> WorkerPCs]
        /\ \A v \in Workers : worker'[v] = IF v = w THEN pc ELSE worker[v]
        /\ At({"falling"})' \subseteq {w} /\ At({"task"})' = At({"task"})
        /\ Testing' = Testing \ {w}
        /\ ~running_ => At({"falling", "wait"})' = At({"falling", "wait"})
    <3>1. pc \in WorkerPCs \ {"none"}
      BY DEF WorkerPCs
    <3>2. /\ worker' \in [Workers -> WorkerPCs]
          /\ \A v \in Workers : worker'[v] = IF v = w THEN pc ELSE worker[v]
          /\ worker[w] = "test"
      BY Zenon, <3>1, OneMoves
    <3>3. Testing' = Testing \ {w}
      BY <3>2 DEF At
    <3>4. QED
      BY <3>2, <3>3 DEF At, Mutex, MutexFree
  <2>2. TypeOK'
    BY <2>1 DEF TypeOK
  <2>3. Phases' /\ Mutex' /\ NoLostStop'
    BY <2>1 DEF Phases, Mutex, NoLostStop
  <2>4. LeftEmpty'
    BY <2>1 DEF LeftEmpty
  <2>5. Tokens'
    <3>1. Len(queue_') = 0
      OBVIOUS
    <3>2. Cardinality(Testing') \in Nat /\ Cardinality(Pushed') \in Nat
      BY <2>1, CountsAreNaturals, OneLess
    <3>3. QED
      BY <3>1, <3>2 DEF Tokens
  <2>6. Accounted'
    BY <2>1 DEF Accounted, TasksIn
  <2>7. QED
    BY <2>2, <2>3, <2>4, <2>5, <2>6
<1>3. QED
  BY <1>1, <1>2 DEF Test, Leave, FallAsleep

(***************************************************************************)
(* The other steps of a worker: to sleep, woken for nothing, and the end   *)
(* of a task.                                                              *)
(***************************************************************************)
LEMMA WorkerKeeps ==
  ASSUME IInv, NEW w \in Workers
  PROVE  Sleep(w) \/ SpuriousWake(w) \/ TaskReturns(w) \/ TaskThrows(w) => IInv'
<1> USE DEF callerVars, ownerVars, IInv, Testing, Pushed
<1>1. ASSUME Sleep(w) PROVE IInv'
  <2> USE <1>1 DEF Sleep
  <2>1. /\ worker' \in [Workers -> WorkerPCs]
        /\ \A v \in Workers : worker'[v] = IF v = w THEN "wait" ELSE worker[v]
        /\ w \in At({"falling"}) /\ At({"falling"})' = At({"falling"}) \ {w}
        /\ At({"task"})' = At({"task"}) /\ Testing' = Testing
        /\ At({"falling", "wait"})' = At({"falling", "wait"})
    <3>1. "wait" \in WorkerPCs \ {"none"}
      BY DEF WorkerPCs
    <3>2. QED
      BY ZenonT(40), <3>1, OneMoves DEF At
  <2>2. TypeOK'
    BY <2>1 DEF TypeOK
  <2>3. Phases' /\ Mutex' /\ NoLostStop'
    BY <2>1 DEF Phases, Mutex, NoLostStop
  <2>4. LeftEmpty' /\ Accounted'
    BY <2>1 DEF LeftEmpty, Accounted, TasksIn
  <2>5. Tokens'
    <3>1. Len(queue_') = 0
      BY <2>1 DEF Mutex
    <3>2. QED
      BY <2>1, <3>1, CountsAreNaturals DEF Tokens
  <2>6. QED
    BY <2>2, <2>3, <2>4, <2>5
<1>2. ASSUME SpuriousWake(w) PROVE IInv'
  <2> USE <1>2 DEF SpuriousWake
  <2>1. /\ worker' \in [Workers -> WorkerPCs]
        /\ \A v \in Workers : worker'[v] = IF v = w THEN "test" ELSE worker[v]
        /\ At({"falling"})' = At({"falling"}) /\ At({"wait"})' \subseteq At({"wait"})
        /\ At({"task"})' = At({"task"}) /\ Testing' = Testing \cup {w}
        /\ At({"falling", "wait"})' \subseteq At({"falling", "wait"})
    <3>1. "test" \in WorkerPCs \ {"none"}
      BY DEF WorkerPCs
    <3>2. QED
      BY ZenonT(40), <3>1, OneMoves DEF At
  <2>2. TypeOK'
    BY <2>1 DEF TypeOK
  <2>3. Phases' /\ Mutex' /\ NoLostStop'
    BY <2>1 DEF Phases, Mutex, NoLostStop
  <2>4. LeftEmpty' /\ Accounted'
    BY <2>1 DEF LeftEmpty, Accounted, TasksIn
  <2>5. Tokens'
    <3>1. Cardinality(Testing') \in Nat /\ Cardinality(Testing') >= Cardinality(Testing)
      BY <2>1, CountsAreNaturals, OneMore
    <3>2. QED
      BY <2>1, <3>1, CountsAreNaturals DEF Tokens, TypeOK
  <2>6. QED
    BY <2>2, <2>3, <2>4, <2>5
<1>3. ASSUME NEW pc \in {"test", "crashed"}, TaskEnds(w, pc) PROVE IInv'
  <2> USE <1>3 DEF TaskEnds
  <2>1. /\ worker' \in [Workers -> WorkerPCs]
        /\ \A v \in Workers : worker'[v] = IF v = w THEN pc ELSE worker[v]
        /\ At({"falling"})' = At({"falling"}) /\ At({"wait"})' = At({"wait"})
        /\ w \in At({"task"}) /\ At({"task"})' = At({"task"}) \ {w}
        /\ Testing' \in {Testing, Testing \cup {w}}
        /\ At({"falling", "wait"})' = At({"falling", "wait"})
    <3>1. pc \in WorkerPCs \ {"none"}
      BY DEF WorkerPCs
    <3>2. QED
      BY Zenon, <3>1, OneMoves DEF At
  <2>2. inHand' \in [Workers -> 0..MaxTasks] /\ \A v \in Workers \ {w} : inHand'[v] = inHand[v]
    BY DEF TypeOK
  <2>3. inHand[w] \in 0..MaxTasks
    BY DEF TypeOK
  <2>4. TypeOK'
    BY Zenon, <2>1, <2>2, <2>3 DEF TypeOK
  <2>5. Phases' /\ Mutex' /\ NoLostStop'
    BY <2>1 DEF Phases, Mutex, NoLostStop
  <2>6. LeftEmpty'
    BY <2>1 DEF LeftEmpty
  <2>7. Tokens'
    <3>1. Cardinality(Testing') \in Nat /\ Cardinality(Testing') >= Cardinality(Testing)
      BY <2>1, CountsAreNaturals, OneMore
    <3>2. QED
      BY <2>1, <3>1, CountsAreNaturals DEF Tokens, TypeOK
  <2>8. Accounted'
    <3>1. {inHand[v] : v \in At({"task"})} \subseteq {inHand'[v] : v \in At({"task"})'} \cup {inHand[w]}
      BY <2>1, <2>2 DEF At
    <3>2. QED
      BY Zenon, <3>1 DEF Accounted, TasksIn
  <2>9. QED
    BY <2>4, <2>5, <2>6, <2>7, <2>8
<1>4. QED
  BY <1>1, <1>2, <1>3 DEF TaskReturns, TaskThrows

-----------------------------------------------------------------------------
(***************************************************************************)
(* Every step of the pool, its owner and its callers keeps IInv.           *)
(***************************************************************************)
LEMMA Inductive == Spec => []IInv
<1>1. IInv /\ [Next]_vars => IInv'
  <2> SUFFICES ASSUME IInv, [Next]_vars PROVE IInv'
    OBVIOUS
  <2>1. CASE UNCHANGED vars
    <3> USE <2>1 DEF vars, callerVars, ownerVars, At
    <3>1. TypeOK' /\ Phases' /\ Mutex' /\ NoLostStop' /\ LeftEmpty'
      BY DEF IInv, TypeOK, Phases, Mutex, NoLostStop, LeftEmpty
    <3>2. Tokens'
      BY DEF IInv, Tokens
    <3>3. Accounted'
      BY DEF IInv, Accounted, TasksIn
    <3>4. QED
      BY <3>1, <3>2, <3>3 DEF IInv
  <2>2. CASE \/ \E n \in 0..MaxThreads : Start(n)
             \/ OwnerStep \/ StartThrows \/ Stop
    BY <2>2, OwnerKeeps, Zenon
  <2>3. CASE \E c \in Callers : Run(c) \/ NotifyOne(c)
    BY <2>3, CallerKeeps, Zenon
  <2>4. CASE \E w \in Workers : WorkerStep(w) \/ SpuriousWake(w) \/ TaskThrows(w)
    BY <2>4, TestKeeps, WorkerKeeps, Zenon DEF WorkerStep
  <2>5. QED
    BY <2>1, <2>2, <2>3, <2>4, Zenon DEF Next
<1>2. QED
  BY <1>1, IInvInit, PTL DEF Spec

(***************************************************************************)
(* Once stop() has notified, no worker is asleep or on its way there       *)
(* (NoLostStop): the lock stop() takes before notify_all closes the gap    *)
(* between a worker's test of running_ and its sleep.                      *)
(***************************************************************************)
THEOREM StopWakesEveryWorker == Spec => []NoLostStop
  BY Inductive, PTL DEF IInv

(***************************************************************************)
(* A queued task is never left to sleeping workers alone (NoStrandedTask), *)
(* although run() notifies after it has released mutex_ and a notify may   *)
(* meet no sleeper.                                                        *)
(***************************************************************************)
THEOREM NoTaskIsStranded == Spec => []NoStrandedTask
<1>1. ASSUME IInv PROVE NoStrandedTask
  <2> SUFFICES ASSUME queue_ # << >>, At({"wait"}) # {}, Testing = {}, Pushed = {}
               PROVE  FALSE
    BY DEF NoStrandedTask, Testing, Pushed
  <2>1. Len(queue_) \in Nat \ {0}
    BY <1>1 DEF IInv, TypeOK
  <2>2. Len(queue_) <= Cardinality(Testing) + Cardinality(Pushed)
    BY <1>1 DEF IInv, Tokens, Testing, Pushed
  <2>3. QED
    BY <2>1, <2>2, FS_EmptySet
<1>2. QED
  BY <1>1, Inductive, PTL

(***************************************************************************)
(* stop() returns with every task run() took run to its end, unless each   *)
(* worker was ended by a task that threw (StopDrains).                     *)
(***************************************************************************)
THEOREM StopDrainsTheQueue == Spec => StopDrains
<1>1. IInv /\ [Next]_vars => [owner = "join" /\ owner' = "idle" => Drained]_vars
  <2> SUFFICES ASSUME IInv, Next, owner = "join", owner' = "idle" PROVE Drained
    OBVIOUS
  <2>1. Join
    BY DEF Next, Start, OwnerStep, CreateThread, StartReturns, StartThrows, LeaveStart, Stop,
           NotifyAll, Run, NotifyOne, WorkerStep, Test, Sleep, SpuriousWake, TaskReturns,
           TaskThrows, TaskEnds, ownerVars
  <2>2. SUFFICES ASSUME NEW w \in 1..threads_, worker[w] # "crashed"
                 PROVE  1..accepted \subseteq ended
    BY Zenon DEF Drained
  <2>3. w \in Workers /\ worker[w] = "returned"
    BY <2>1, <2>2 DEF Join, IInv, TypeOK, Workers
  <2>4. queue_ = << >>
    BY <2>3 DEF IInv, LeftEmpty
  <2>5. At({"task"}) = {}
    <3>1. ASSUME NEW v \in Workers, worker[v] = "task" PROVE FALSE
      <4>1. ~(v > threads_) /\ threads_ \in Nat /\ v \in Nat \ {0}
        BY <3>1 DEF IInv, TypeOK, Workers
      <4>2. v \in 1..threads_
        BY <4>1
      <4>3. QED
        BY <2>1, <3>1, <4>2 DEF Join
    <3>2. QED
      BY <3>1 DEF At
  <2>6. TasksIn(queue_) = {}
    BY <2>4 DEF TasksIn
  <2>7. QED
    BY <2>5, <2>6, Zenon DEF IInv, Accounted
<1>2. QED
  BY <1>1, Inductive, PTL DEF Spec, StopDrains

(***************************************************************************)
(* The pool is a queue of tasks (TasksInOrder): run() appends to it, a     *)
(* worker takes the oldest, and nothing else, restarts included, touches   *)
(* what is queued.                                                         *)
(***************************************************************************)
THEOREM PoolIsATaskQueue == Spec => TasksInOrder
<1>1. Init => TQ!Init
  BY DEF Init, TQ!Init
<1>2. IInv /\ [Next]_vars => [TQ!Next]_<<queue_, taken>>
  <2> SUFFICES ASSUME IInv, [Next]_vars
               PROVE  (\E k \in Tasks : TQ!Post(k)) \/ TQ!Run \/ UNCHANGED <<queue_, taken>>
    BY DEF TQ!Next
  <2>1. CASE \E c \in Callers : Run(c)
    <3>1. /\ accepted' \in Tasks /\ queue_' = Append(queue_, accepted') /\ UNCHANGED taken
      BY <2>1 DEF Run, IInv, TypeOK, Tasks
    <3>2. QED
      BY <3>1, Zenon DEF TQ!Post
  <2>2. CASE \E w \in Workers : Test(w)
    BY <2>2, Zenon DEF Test, TakeTask, Leave, FallAsleep, TQ!Run
  <2>3. CASE UNCHANGED <<queue_, taken>>
    BY <2>3
  <2>4. QED
    BY <2>1, <2>2, <2>3, Zenon
       DEF Next, Start, OwnerStep, CreateThread, StartReturns, StartThrows, LeaveStart, Stop,
           NotifyAll, Join, NotifyOne, WorkerStep, Sleep, SpuriousWake, TaskReturns,
           TaskThrows, TaskEnds, vars
<1>3. QED
  BY <1>1, <1>2, Inductive, PTL DEF Spec, TasksInOrder, TQ!Spec

=============================================================================
