--------------------------- MODULE EventLoopThread ---------------------------
(***************************************************************************)
(* EventLoopThread: an EventLoop that lives on the stack of a thread, the  *)
(* hand-over of its address to the thread that owns the EventLoopThread    *)
(* object, and the destructor that quits the loop and joins the thread.    *)
(*                                                                         *)
(* The loop itself is module EventLoop.  Its callers are the owner and     *)
(* other threads the owner gave the address to; they stop using it before  *)
(* the owner runs the destructor.  Sections under mutex_ are one step; a   *)
(* wait on cond_ may also end spuriously.                                  *)
(***************************************************************************)
EXTENDS EventLoop

CONSTANT Owner   \* the thread that constructs and destroys the object

ASSUME OwnerAssumption == Owner \in Threads

VARIABLES
  loop_,    \* the shared pointer has been set
  life,     \* the EventLoop object: "none", "alive" or "dead"
  tpc,      \* where threadFunc is, see ThreadPCs
  owner,    \* where the owner is, see OwnerPCs
  asleep,   \* the owner is in cond_.wait
  notified, \* cond_.notify_one has reached it
  crashed   \* a call on the dead loop ended the process

tvars == <<loop_, life, tpc, owner, asleep, notified, crashed>>
allVars == <<vars, tvars>>

(***************************************************************************)
(* "start": before the EventLoop is constructed.  "init": in callback_.    *)
(* "ready": loop_ is set, loop() not called.  "loop": in loop().           *)
(***************************************************************************)
ThreadPCs == {"start", "init", "ready", "loop", "exited"}

(***************************************************************************)
(* "startLoop", "destroy": at while (loop_ == nullptr) in startLoop and in *)
(* the destructor.  "quit", "wakeup", "join": the rest of the destructor.  *)
(***************************************************************************)
OwnerPCs == {"constructed", "startLoop", "started", "destroy", "quit", "wakeup",
             "join", "gone"}

InitThread ==
  /\ Init
  /\ loop_ = FALSE
  /\ life = "none"
  /\ tpc = "start"
  /\ owner = "constructed"
  /\ asleep = FALSE
  /\ notified = FALSE
  /\ crashed = FALSE

-----------------------------------------------------------------------------
(* threadFunc.                                                             *)

ConstructLoop ==
  /\ tpc = "start"
  /\ life' = "alive"
  /\ tpc' = "init"
  /\ UNCHANGED <<vars, loop_, owner, asleep, notified, crashed>>

PublishUnnotified ==
  /\ tpc = "init"
  /\ loop_' = TRUE
  /\ tpc' = "ready"
  /\ UNCHANGED <<vars, life, owner, asleep, notified, crashed>>

PublishLoop ==
  /\ tpc = "init"
  /\ loop_' = TRUE
  /\ notified' = asleep
  /\ tpc' = "ready"
  /\ UNCHANGED <<vars, life, owner, asleep, crashed>>

CallLoop ==
  /\ tpc = "ready"
  /\ EnterLoop
  /\ tpc' = "loop"
  /\ UNCHANGED <<loop_, life, owner, asleep, notified, crashed>>

(***************************************************************************)
(* The steps of loop(), and what callbacks and functors, or callback_, may *)
(* do to the loop short of quitting it.                                    *)
(***************************************************************************)
RunLoop ==
  /\ tpc = "loop"
  /\ LoopStep
  /\ UNCHANGED tvars

LoopIdles == tpc = "loop" /\ (PollIO \/ PollTimeout) /\ UNCHANGED tvars

LoopUserCode ==
  /\ tpc = "init" \/ (tpc = "loop" /\ looping_)
  /\ LoopQueueInLoop \/ LoopRunInLoop
  /\ UNCHANGED tvars

(***************************************************************************)
(* loop() has returned: threadFunc returns and the loop is destroyed with  *)
(* its eventfd.                                                            *)
(***************************************************************************)
DestroyLoop ==
  /\ tpc = "loop"
  /\ pc = "outside"
  /\ life' = "dead"
  /\ tpc' = "exited"
  /\ UNCHANGED <<vars, loop_, owner, asleep, notified, crashed>>

-----------------------------------------------------------------------------
(* The owner.                                                              *)

Enter(from, to) ==
  /\ owner \in from
  /\ owner' = to
  /\ UNCHANGED <<vars, loop_, life, tpc, asleep, notified, crashed>>

CallStartLoop == Enter({"constructed"}, "startLoop")

BeginDestructor == /\ \A t \in Threads : call[t] = "none"
                   /\ Enter({"constructed", "started"}, "destroy")

(***************************************************************************)
(* One turn of while (loop_ == nullptr) cond_.wait(lock): go on when the   *)
(* pointer is set, else sleep.                                             *)
(***************************************************************************)
GoesOn == owner' = IF owner = "startLoop" THEN "started" ELSE "quit"

WakesIntoIf ==
  /\ owner \in {"startLoop", "destroy"}
  /\ \/ asleep /\ asleep' = FALSE /\ GoesOn
     \/ ~asleep /\ loop_ /\ GoesOn /\ UNCHANGED asleep
     \/ ~asleep /\ ~loop_ /\ asleep' = TRUE /\ UNCHANGED owner
  /\ notified' = FALSE
  /\ UNCHANGED <<vars, loop_, life, tpc, crashed>>

TestPointer ==
  /\ owner \in {"startLoop", "destroy"}
  /\ ~asleep
  /\ IF loop_ THEN GoesOn /\ UNCHANGED asleep
              ELSE asleep' = TRUE /\ UNCHANGED owner
  /\ notified' = FALSE
  /\ UNCHANGED <<vars, loop_, life, tpc, crashed>>

WakeOwner ==
  /\ asleep
  /\ asleep' = FALSE
  /\ UNCHANGED <<vars, loop_, life, tpc, owner, notified, crashed>>

Notified == notified /\ WakeOwner
SpuriousWake == ~notified /\ WakeOwner

(***************************************************************************)
(* A call of the destructor on the loop: step A of EventLoop while the     *)
(* loop is alive.  On a dead loop it is undefined behaviour: it may have   *)
(* no effect, or end the process (wakeup exits when its write to the       *)
(* closed eventfd fails).                                                  *)
(***************************************************************************)
OnLoop(A, from, to) ==
  /\ owner = from
  /\ \/ life = "alive" /\ A /\ owner' = to /\ UNCHANGED crashed
     \/ life = "dead" /\ UNCHANGED vars /\ owner' = to /\ UNCHANGED crashed
     \/ life = "dead" /\ UNCHANGED vars /\ crashed' = TRUE /\ UNCHANGED owner
  /\ UNCHANGED <<loop_, life, tpc, asleep, notified>>

DestructorQuits == OnLoop(Quit(Owner), "quit", "wakeup")
DestructorWakes == OnLoop(Wakeup(Owner), "wakeup", "join")

JoinThread == tpc = "exited" /\ Enter({"join"}, "gone")

(***************************************************************************)
(* The callers, once startLoop has returned the address and until the      *)
(* destructor begins.                                                      *)
(***************************************************************************)
CallerQueues(t) == owner = "started" /\ QueueInLoop(t) /\ UNCHANGED tvars
CallerWakes(t) == owner = "started" /\ Wakeup(t) /\ UNCHANGED tvars

ThreadStep == ConstructLoop \/ PublishLoop \/ CallLoop \/ RunLoop \/ DestroyLoop
OwnerStep == TestPointer \/ Notified \/ DestructorQuits \/ DestructorWakes \/ JoinThread

ThreadNext ==
  /\ ~crashed
  /\ \/ ThreadStep \/ LoopIdles \/ LoopUserCode
     \/ OwnerStep \/ SpuriousWake \/ CallStartLoop \/ BeginDestructor
     \/ \E t \in Threads : CallerQueues(t) \/ CallerWakes(t)

ThreadSpec == InitThread /\ [][ThreadNext]_allVars

(***************************************************************************)
(* The scheduler runs all threads, and user code returns.  Nobody has to   *)
(* call startLoop or the destructor; spurious wakes and the timeout of     *)
(* epoll_wait are not relied on.                                           *)
(***************************************************************************)
ThreadFairness == /\ WF_allVars(~crashed /\ ThreadStep)
                  /\ WF_allVars(~crashed /\ OwnerStep)
                  /\ \A t \in Threads : WF_allVars(~crashed /\ CallerWakes(t))

FairThreadSpec == ThreadSpec /\ ThreadFairness

-----------------------------------------------------------------------------
(***************************************************************************)
(* Types, and what each position in threadFunc says of the loop object.    *)
(***************************************************************************)
ThreadTypeOK ==
  /\ TypeOK
  /\ loop_ \in BOOLEAN /\ asleep \in BOOLEAN /\ notified \in BOOLEAN
  /\ crashed \in BOOLEAN
  /\ tpc \in ThreadPCs
  /\ owner \in OwnerPCs
  /\ life = CASE tpc = "start" -> "none" [] tpc = "exited" -> "dead"
              [] OTHER -> "alive"

(***************************************************************************)
(* Types; and startLoop hands out a usable loop: from its return until the *)
(* destructor starts, the pointer is set and the loop is alive, whatever   *)
(* the order in which the two threads reach mutex_ and however often       *)
(* cond_.wait returns early.                                               *)
(***************************************************************************)
StartedLoopIsAlive ==
  /\ ThreadTypeOK
  /\ owner = "started" => loop_ /\ life = "alive"

(***************************************************************************)
(* startLoop returns, and so does the destructor, also when it runs before *)
(* the thread has reached loop(): loop() must not discard a quit that came *)
(* first (EventLoop.cpp, the comment in loop()).                           *)
(***************************************************************************)
OwnerReturns == /\ owner = "startLoop" ~> owner = "started"
                /\ owner = "destroy" ~> owner = "gone" \/ crashed

(***************************************************************************)
(* What makes StartedLoopIsAlive inductive: the pointer is set while       *)
(* threadFunc is past its publication, and the loop leaves loop(), and is  *)
(* destroyed, only on a quit_ that nobody but the destructor stores.       *)
(***************************************************************************)
HandOver ==
  /\ loop_ <=> tpc \in {"ready", "loop", "exited"}
  /\ quit_ => owner \in {"wakeup", "join", "gone"}
  /\ tpc = "loop" /\ pc = "outside" => quit_
  /\ tpc = "exited" => quit_

ThreadInv == StartedLoopIsAlive /\ HandOver
=============================================================================
