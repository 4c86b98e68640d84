----------------------------- MODULE ThreadPool -----------------------------
(***************************************************************************)
(* common::base::ThreadPool: a queue of tasks, the worker threads that     *)
(* take from it, the threads that call run(), and the owner that starts,   *)
(* stops and restarts the pool (the destructor is stop()).                 *)
(*                                                                         *)
(* A section under mutex_ is one step, with one exception: a worker that   *)
(* found nothing to do still holds mutex_ until cond_.wait puts it to      *)
(* sleep ("falling").  The gap matters because stop() clears running_      *)
(* without mutex_.  In run() nothing but that store can fall between the   *)
(* test of running_ and the push, and no one sees it before mutex_ is      *)
(* free, so the two are one step.  notify_one is a step of its own.        *)
(*                                                                         *)
(* threads_ is not protected: start() and stop() are called by one thread  *)
(* at a time, and not by a task.                                           *)
(***************************************************************************)
EXTENDS Naturals, Sequences, FiniteSets

CONSTANTS Callers,     \* the threads that call run(), tasks included
          MaxThreads,  \* bound: the largest numThread
          MaxTasks,    \* bound: tasks accepted in a behaviour
          MaxStarts    \* bound: calls of start()

ASSUME PoolAssumption ==
  /\ MaxThreads \in Nat /\ MaxTasks \in Nat /\ MaxStarts \in Nat
  /\ IsFiniteSet(Callers)

VARIABLES
  running_,
  queue_,      \* the tasks waiting, oldest first
  threads_,    \* how many Thread objects there are
  worker,      \* where each thread is, see WorkerPCs
  inHand,      \* the task each thread runs, 0 for none
  call,        \* "pushed": this caller has pushed and not called notify_one
  owner,       \* where the owner is, see OwnerPCs
  numThread,   \* the argument of start()
  starts,      \* how many times the pool was started
  accepted,    \* how many tasks run() took; their names are 1..accepted
  taken,       \* history: tasks taken by workers, oldest first
  ended        \* history: tasks that returned or threw

callerVars == <<call, accepted>>
ownerVars == <<owner, numThread, starts, threads_>>
vars == <<running_, queue_, worker, inHand, taken, ended, callerVars, ownerVars>>

Workers == 1..MaxThreads
Tasks == 1..MaxTasks

(***************************************************************************)
(* "none": no thread.  "test": about to lock mutex_ and test the wait's    *)
(* condition.  "falling": found it false, not asleep yet, mutex_ held.     *)
(* "wait": asleep in cond_.wait.  "task": in task().  "returned": left     *)
(* run_in_thread by its return.  "crashed": left it by an exception, which *)
(* monitor_thread swallowed.                                               *)
(***************************************************************************)
WorkerPCs == {"none", "test", "falling", "wait", "task", "returned", "crashed"}

(***************************************************************************)
(* "starting": in start(), creating threads.  "stopping": in stop(),       *)
(* running_ cleared.  "join": in stop(), notify_all done.                  *)
(***************************************************************************)
OwnerPCs == {"idle", "starting", "stopping", "join"}

At(pcs) == {w \in Workers : worker[w] \in pcs}
MutexFree == At({"falling"}) = {}

Init ==
  /\ running_ = FALSE
  /\ queue_ = << >>
  /\ threads_ = 0
  /\ worker = [w \in Workers |-> "none"]
  /\ inHand = [w \in Workers |-> 0]
  /\ call = [c \in Callers |-> "none"]
  /\ owner = "idle"
  /\ numThread = 0
  /\ starts = 0
  /\ accepted = 0
  /\ taken = << >>
  /\ ended = {}

-----------------------------------------------------------------------------
(* The owner.                                                              *)

(***************************************************************************)
(* start() on a pool that runs logs and changes nothing.                   *)
(***************************************************************************)
Start(n) ==
  /\ owner = "idle"
  /\ starts < MaxStarts
  /\ ~running_
  /\ running_' = TRUE
  /\ owner' = "starting"
  /\ numThread' = n
  /\ starts' = starts + 1
  /\ UNCHANGED <<queue_, threads_, worker, inHand, taken, ended, callerVars>>

(***************************************************************************)
(* Create returns once the new thread has begun.                           *)
(***************************************************************************)
CreateThread ==
  /\ owner = "starting"
  /\ threads_ < numThread
  /\ threads_' = threads_ + 1
  /\ worker' = [worker EXCEPT ![threads_ + 1] = "test"]
  /\ UNCHANGED <<running_, queue_, inHand, taken, ended, callerVars, owner,
                 numThread, starts>>

(***************************************************************************)
(* All threads are there, or one could not be created: the exception       *)
(* leaves start() with the pool running on those that are.                 *)
(***************************************************************************)
LeaveStart ==
  /\ owner = "starting"
  /\ owner' = "idle"
  /\ UNCHANGED <<running_, queue_, worker, inHand, taken, ended, callerVars,
                 numThread, starts, threads_>>

StartReturns == threads_ = numThread /\ LeaveStart
StartThrows == threads_ < numThread /\ LeaveStart

Stop ==
  /\ owner = "idle"
  /\ running_
  /\ running_' = FALSE
  /\ owner' = "stopping"
  /\ UNCHANGED <<queue_, worker, inHand, taken, ended, callerVars, numThread,
                 starts, threads_>>

Woken(pc) == IF pc = "wait" THEN "test" ELSE pc

NotifyWithoutLock ==
  /\ owner = "stopping"
  /\ worker' = [w \in Workers |-> Woken(worker[w])]
  /\ owner' = "join"
  /\ UNCHANGED <<running_, queue_, inHand, taken, ended, callerVars, numThread,
                 starts, threads_>>

NotifyAll ==
  /\ owner = "stopping"
  /\ MutexFree
  /\ worker' = [w \in Workers |-> Woken(worker[w])]
  /\ owner' = "join"
  /\ UNCHANGED <<running_, queue_, inHand, taken, ended, callerVars, numThread,
                 starts, threads_>>

Join ==
  /\ owner = "join"
  /\ \A w \in 1..threads_ : worker[w] \in {"returned", "crashed"}
  /\ worker' = [w \in Workers |-> "none"]
  /\ threads_' = 0
  /\ owner' = "idle"
  /\ UNCHANGED <<running_, queue_, inHand, taken, ended, callerVars, numThread,
                 starts>>

-----------------------------------------------------------------------------
(* The callers of run().  On a pool that does not run it throws and        *)
(* changes nothing.                                                        *)

RunUnchecked(c) ==
  /\ call[c] = "none"
  /\ MutexFree
  /\ starts > 0
  /\ accepted < MaxTasks
  /\ accepted' = accepted + 1
  /\ queue_' = Append(queue_, accepted')
  /\ call' = [call EXCEPT ![c] = "pushed"]
  /\ UNCHANGED <<running_, worker, inHand, taken, ended, ownerVars>>

Run(c) ==
  /\ call[c] = "none"
  /\ MutexFree
  /\ running_
  /\ accepted < MaxTasks
  /\ accepted' = accepted + 1
  /\ queue_' = Append(queue_, accepted')
  /\ call' = [call EXCEPT ![c] = "pushed"]
  /\ UNCHANGED <<running_, worker, inHand, taken, ended, ownerVars>>

(***************************************************************************)
(* notify_one wakes a sleeping worker, if there is one.                    *)
(***************************************************************************)
NotifyOne(c) ==
  /\ call[c] = "pushed"
  /\ call' = [call EXCEPT ![c] = "none"]
  /\ \/ At({"wait"}) = {} /\ UNCHANGED worker
     \/ \E w \in At({"wait"}) : worker' = [worker EXCEPT ![w] = "test"]
  /\ UNCHANGED <<running_, queue_, inHand, taken, ended, accepted, ownerVars>>

-----------------------------------------------------------------------------
(* The workers: run_in_thread.                                             *)

PeekTask(w) ==
  /\ queue_ # << >>
  /\ inHand' = [inHand EXCEPT ![w] = Head(queue_)]
  /\ taken' = Append(taken, Head(queue_))
  /\ worker' = [worker EXCEPT ![w] = "task"]
  /\ UNCHANGED queue_

(***************************************************************************)
(* The condition of cond_.wait, and what follows when it holds: leave a    *)
(* stopped and empty pool, else take the oldest task.                      *)
(***************************************************************************)
TakeTask(w) ==
  /\ queue_ # << >>
  /\ queue_' = Tail(queue_)
  /\ inHand' = [inHand EXCEPT ![w] = Head(queue_)]
  /\ taken' = Append(taken, Head(queue_))
  /\ worker' = [worker EXCEPT ![w] = "task"]

Leave(w) ==
  /\ queue_ = << >>
  /\ ~running_
  /\ worker' = [worker EXCEPT ![w] = "returned"]
  /\ UNCHANGED <<queue_, inHand, taken>>

FallAsleep(w) ==
  /\ queue_ = << >>
  /\ running_
  /\ worker' = [worker EXCEPT ![w] = "falling"]
  /\ UNCHANGED <<queue_, inHand, taken>>

Test(w) ==
  /\ worker[w] = "test"
  /\ MutexFree
  /\ TakeTask(w) \/ Leave(w) \/ FallAsleep(w)
  /\ UNCHANGED <<running_, ended, callerVars, ownerVars>>

Sleep(w) ==
  /\ worker[w] = "falling"
  /\ worker' = [worker EXCEPT ![w] = "wait"]
  /\ UNCHANGED <<running_, queue_, inHand, taken, ended, callerVars, ownerVars>>

SpuriousWake(w) ==
  /\ worker[w] = "wait"
  /\ worker' = [worker EXCEPT ![w] = "test"]
  /\ UNCHANGED <<running_, queue_, inHand, taken, ended, callerVars, ownerVars>>

TaskEnds(w, pc) ==
  /\ worker[w] = "task"
  /\ worker' = [worker EXCEPT ![w] = pc]
  /\ ended' = ended \cup {inHand[w]}
  /\ inHand' = [inHand EXCEPT ![w] = 0]
  /\ UNCHANGED <<running_, queue_, taken, callerVars, ownerVars>>

TaskReturns(w) == TaskEnds(w, "test")

(***************************************************************************)
(* The exception leaves run_in_thread, and monitor_thread logs it: this    *)
(* thread is over, the others go on.                                       *)
(***************************************************************************)
TaskThrows(w) == TaskEnds(w, "crashed")

-----------------------------------------------------------------------------
WorkerStep(w) == Test(w) \/ Sleep(w) \/ TaskReturns(w)
OwnerStep == CreateThread \/ StartReturns \/ NotifyAll \/ Join

Next == \/ \E n \in 0..MaxThreads : Start(n)
        \/ OwnerStep \/ StartThrows \/ Stop
        \/ \E c \in Callers : Run(c) \/ NotifyOne(c)
        \/ \E w \in Workers : WorkerStep(w) \/ SpuriousWake(w) \/ TaskThrows(w)

Spec == Init /\ [][Next]_vars

(***************************************************************************)
(* The scheduler runs every thread, tasks end, and a thread that wants     *)
(* mutex_ gets it in the end although others take it in between (strong    *)
(* fairness).  Nobody has to call run() or stop(), and spurious wakes are  *)
(* not relied on.                                                          *)
(***************************************************************************)
FairSpec == /\ Spec
            /\ SF_vars(OwnerStep)
            /\ \A w \in Workers : SF_vars(WorkerStep(w))
            /\ \A c \in Callers : WF_vars(NotifyOne(c))

-----------------------------------------------------------------------------
TasksIn(q) == {q[i] : i \in 1..Len(q)}

(***************************************************************************)
(* Types, and which threads exist: those start() created and stop() has    *)
(* not joined.                                                             *)
(***************************************************************************)
TypeOK ==
  /\ running_ \in BOOLEAN
  /\ queue_ \in Seq(Tasks) /\ taken \in Seq(Tasks)
  /\ threads_ \in 0..MaxThreads /\ numThread \in 0..MaxThreads
  /\ worker \in [Workers -> WorkerPCs]
  /\ \A w \in Workers : worker[w] = "none" <=> w > threads_
  /\ inHand \in [Workers -> 0..MaxTasks]
  /\ call \in [Callers -> {"none", "pushed"}]
  /\ owner \in OwnerPCs
  /\ starts \in 0..MaxStarts
  /\ accepted \in 0..MaxTasks
  /\ ended \subseteq 0..MaxTasks

(***************************************************************************)
(* Nobody sleeps on a stopped pool: once stop() has called notify_all, no  *)
(* worker is asleep or about to be.  It rests on stop() taking mutex_      *)
(* before it notifies: running_ is cleared without it, so a worker may     *)
(* have tested the old value and not be asleep yet.                        *)
(***************************************************************************)
NoLostStop ==
  ~running_ /\ owner # "stopping" => At({"falling", "wait"}) = {}

(***************************************************************************)
(* Nobody sleeps on work: while a task is queued and a worker is asleep,   *)
(* another is awake and about to look, or a caller is about to notify.     *)
(* Notifies that met no sleeper, workers woken for a task another one took *)
(* and workers ended by their task are no exception.                       *)
(***************************************************************************)
NoStrandedTask ==
  queue_ # << >> /\ At({"wait"}) # {} => \/ At({"test"}) # {}
                                         \/ \E c \in Callers : call[c] = "pushed"

(***************************************************************************)
(* A worker leaves only a pool that is stopped and empty, and empty it     *)
(* stays: run() refuses what would come after.                             *)
(***************************************************************************)
LeftEmpty == \A w \in Workers : worker[w] = "returned" => ~running_ /\ queue_ = << >>

(***************************************************************************)
(* The inductive invariant.  Tokens counts what NoStrandedTask needs: as   *)
(* long as one worker sleeps, every queued task has a worker about to look *)
(* or a notify to come.                                                    *)
(***************************************************************************)
Tokens ==
  At({"wait"}) # {} =>
    Len(queue_) <= Cardinality(At({"test"}))
                   + Cardinality({c \in Callers : call[c] = "pushed"})

Phases ==
  /\ owner = "starting" => running_
  /\ owner \in {"stopping", "join"} => ~running_
  /\ owner = "idle" /\ ~running_ => threads_ = 0
  /\ threads_ <= numThread \/ owner # "starting"

Mutex ==
  /\ \A v, w \in At({"falling"}) : v = w
  /\ At({"falling"}) # {} => queue_ = << >>

Accounted ==
  1..accepted \subseteq ended \cup TasksIn(queue_) \cup {inHand[w] : w \in At({"task"})}

IInv == TypeOK /\ Phases /\ Mutex /\ NoLostStop /\ LeftEmpty /\ Tokens /\ Accounted

(***************************************************************************)
(* stop() drains the queue: when it returns, every task that run() took    *)
(* has been run to its end, unless every worker was ended by an exception  *)
(* (or none could be started).  So it is in every round of start and stop, *)
(* with what earlier rounds left.                                          *)
(***************************************************************************)
Drained == \/ 1..accepted \subseteq ended
           \/ \A w \in 1..threads_ : worker[w] = "crashed"
StopDrains == [][owner = "join" /\ owner' = "idle" => Drained]_vars

(***************************************************************************)
(* Workers take the tasks in the order in which run() took them, each task *)
(* once, over restarts too.                                                *)
(***************************************************************************)
TQ == INSTANCE FunctorQueue WITH Functors <- Tasks, queue <- queue_, done <- taken

TasksInOrder == TQ!Spec

(***************************************************************************)
(* stop() returns, and a queued task is run as long as a worker is left.   *)
(***************************************************************************)
Queued(k) == k \in TasksIn(queue_)
PoolProgresses ==
  /\ owner = "stopping" ~> owner = "idle"
  /\ \A k \in Tasks :
       Queued(k) ~> k \in ended \/ \A w \in 1..threads_ : worker[w] = "crashed"
=============================================================================
