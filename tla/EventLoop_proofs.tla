-------------------------- MODULE EventLoop_proofs --------------------------
(***************************************************************************)
(* Proofs about EventLoop for any set of caller threads and any number of  *)
(* functors: the wakeup protocol never strands a functor or a quit, and    *)
(* the loop implements the FIFO queue of FunctorQueue.  An EventLoopThread *)
(* uses its loop as that specification allows, so all of this holds of it  *)
(* too, and startLoop hands out a loop that is alive.  Then proofs about   *)
(* its Poller, for any channels and descriptors: epoll's set, the poller's *)
(* map and the channels' indices agree, and no pointer the loop can follow *)
(* dangles.                                                                *)
(***************************************************************************)
EXTENDS EventLoopThread, Poller, TLAPS

USE MaxFunctorsAssumption

(***************************************************************************)
(* Types and phases are preserved by every step.                           *)
(***************************************************************************)
LEMMA TypeInit == Init => TypeOK
<1> SUFFICES ASSUME Init PROVE TypeOK
  OBVIOUS
<1>1. callingPendingFunctors_ <=> pc = "run"
  BY Zenon DEF Init
<1>2. << >> \in Seq(Nat) /\ 0 \in 0..MaxFunctors
  OBVIOUS
<1>3. QED
  BY Zenon, <1>1, <1>2 DEF Init, TypeOK, LoopPCs, LoopChannels, Calls

LEMMA TypeStep == TypeOK /\ [Next]_vars => TypeOK'
<1> SUFFICES ASSUME TypeOK, [Next]_vars PROVE TypeOK'
  OBVIOUS
<1> USE DEF TypeOK, LoopPCs, LoopChannels, Calls
<1>1. CASE EnterLoop
  BY <1>1 DEF EnterLoop
<1>2. CASE TestQuit
  BY <1>2 DEF TestQuit
<1>3. ASSUME NEW ready \in SUBSET LoopChannels, PollReturns(ready) PROVE TypeOK'
  BY <1>3 DEF PollReturns
<1>4. CASE HandleRead
  BY Zenon, <1>4 DEF HandleRead
<1>5. CASE HandleIO
  BY <1>5 DEF HandleIO
<1>6. CASE DoPendingFunctors
  BY <1>6 DEF DoPendingFunctors
<1>7. CASE FunctorDone
  BY <1>7 DEF FunctorDone
<1>8. CASE FunctorsDone
  BY Zenon, <1>8 DEF FunctorsDone
<1>9. CASE LoopQueueInLoop
  BY <1>9 DEF LoopQueueInLoop, InUserCode, LoopWakes
<1>10. CASE LoopRunInLoop
  BY <1>10 DEF LoopRunInLoop
<1>11. CASE LoopQuit
  BY <1>11 DEF LoopQuit
<1>12. ASSUME NEW t \in Threads, QueueInLoop(t) PROVE TypeOK'
  BY <1>12 DEF QueueInLoop
<1>13. ASSUME NEW t \in Threads, Quit(t) PROVE TypeOK'
  BY <1>13 DEF Quit
<1>14. ASSUME NEW t \in Threads, Wakeup(t) PROVE TypeOK'
  BY <1>14 DEF Wakeup
<1>15. CASE UNCHANGED vars
  BY <1>15 DEF vars
<1>16. QED
  BY Zenon, <1>1, <1>2, <1>3, <1>4, <1>5, <1>6, <1>7, <1>8, <1>9, <1>10, <1>11,
     <1>12, <1>13, <1>14, <1>15
     DEF Next, LoopStep, UserCode, PollWoken, PollIO, PollTimeout

(***************************************************************************)
(* Every flag, vector and per-thread call of the loop keeps its type and   *)
(* its phase.                                                              *)
(***************************************************************************)
THEOREM TypeCorrect == Spec => []TypeOK
BY TypeInit, TypeStep, PTL DEF Spec

-----------------------------------------------------------------------------
(***************************************************************************)
(* The inductive invariant: WakeupOwed says the loop cannot fall asleep on *)
(* waiting functors, whichever thread or callback queued them.             *)
(***************************************************************************)
LEMMA Inductive == Spec => []IInv
<1>1. Init => IInv
  <2> SUFFICES ASSUME Init PROVE WakeupOwed /\ NoLostQuit /\ WakeupReadSucceeds
    BY TypeInit DEF IInv
  <2>1. WakeupReadSucceeds
    BY DEF Init, WakeupReadSucceeds
  <2>2. WakeupOwed
    BY DEF Init, WakeupOwed
  <2>3. NoLostQuit
    BY DEF Init, NoLostQuit
  <2>4. QED
    BY <2>1, <2>2, <2>3
<1>2. IInv /\ [Next]_vars => IInv'
  <2> SUFFICES ASSUME TypeOK, WakeupOwed, NoLostQuit, WakeupReadSucceeds, [Next]_vars
               PROVE  WakeupOwed' /\ NoLostQuit' /\ WakeupReadSucceeds'
    BY TypeStep DEF IInv
  <2> USE DEF TypeOK, LoopPCs, LoopChannels, Calls, WakeupOwed, NoLostQuit, WakeupReadSucceeds
  <2>1. CASE EnterLoop
    BY <2>1 DEF EnterLoop
  <2>2. CASE TestQuit
    BY <2>2 DEF TestQuit
  <2>3. ASSUME NEW ready \in SUBSET LoopChannels, PollReturns(ready)
        PROVE  WakeupOwed' /\ NoLostQuit' /\ WakeupReadSucceeds'
    BY <2>3 DEF PollReturns
  <2>4. CASE HandleRead
    BY <2>4 DEF HandleRead
  <2>5. CASE HandleIO
    BY <2>5 DEF HandleIO
  <2>6. CASE DoPendingFunctors
    BY <2>6 DEF DoPendingFunctors
  <2>7. CASE FunctorDone
    BY <2>7 DEF FunctorDone
  <2>8. CASE FunctorsDone
    BY <2>8 DEF FunctorsDone
  <2>9. CASE LoopQueueInLoop
    BY <2>9 DEF LoopQueueInLoop, InUserCode, LoopWakes, looping_
  <2>10. CASE LoopRunInLoop
    BY <2>10 DEF LoopRunInLoop
  <2>11. CASE LoopQuit
    BY <2>11 DEF LoopQuit, InUserCode
  <2>12. ASSUME NEW t \in Threads, QueueInLoop(t)
         PROVE  WakeupOwed' /\ NoLostQuit' /\ WakeupReadSucceeds'
    BY <2>12 DEF QueueInLoop
  <2>13. ASSUME NEW t \in Threads, Quit(t)
         PROVE  WakeupOwed' /\ NoLostQuit' /\ WakeupReadSucceeds'
    BY <2>13 DEF Quit
  <2>14. ASSUME NEW t \in Threads, Wakeup(t)
         PROVE  WakeupOwed' /\ NoLostQuit' /\ WakeupReadSucceeds'
    BY <2>14 DEF Wakeup
  <2>15. CASE UNCHANGED vars
    BY <2>15 DEF vars
  <2>16. QED
    BY Zenon, <2>1, <2>2, <2>3, <2>4, <2>5, <2>6, <2>7, <2>8, <2>9, <2>10, <2>11,
       <2>12, <2>13, <2>14, <2>15
       DEF Next, LoopStep, UserCode, PollWoken, PollIO, PollTimeout
<1>3. QED
  BY <1>1, <1>2, PTL DEF Spec

(***************************************************************************)
(* A sleeping loop has no functor of another thread, of a functor or of a  *)
(* callback waiting without a wakeup under way.                            *)
(***************************************************************************)
THEOREM LoopNeverMissesAFunctor == Spec => []NoLostWakeup
<1>1. IInv => NoLostWakeup
  BY DEF IInv, WakeupOwed, NoLostWakeup
<1>2. QED
  BY Inductive, <1>1, PTL

(***************************************************************************)
(* A sleeping loop has no quit() unanswered: the write that will wake it   *)
(* is done or on its way.                                                  *)
(***************************************************************************)
THEOREM LoopNeverMissesAQuit == Spec => []NoLostQuit
<1>1. IInv => NoLostQuit
  BY DEF IInv
<1>2. QED
  BY Inductive, <1>1, PTL

(***************************************************************************)
(* handleRead always finds the eventfd readable, so its exit() on a short  *)
(* read is never taken.                                                    *)
(***************************************************************************)
THEOREM HandleReadNeverExits == Spec => []WakeupReadSucceeds
<1>1. IInv => WakeupReadSucceeds
  BY DEF IInv
<1>2. QED
  BY Inductive, <1>1, PTL

-----------------------------------------------------------------------------
(***************************************************************************)
(* Appending to the second part of a concatenation appends to the whole:   *)
(* a push to pendingFunctors_ while a batch runs.                          *)
(***************************************************************************)
LEMMA ConcatAppend ==
  ASSUME NEW S, NEW s \in Seq(S), NEW t \in Seq(S), NEW x \in S
  PROVE  s \o Append(t, x) = Append(s \o t, x)
OBVIOUS

(***************************************************************************)
(* Taking the head of the first part takes the head of the whole: the      *)
(* functor doPendingFunctors has just run.                                 *)
(***************************************************************************)
LEMMA ConcatHeadTail ==
  ASSUME NEW S, NEW s \in Seq(S), NEW t \in Seq(S), s # << >>
  PROVE  /\ s \o t # << >>
         /\ Head(s \o t) = Head(s)
         /\ Tail(s \o t) = Tail(s) \o t
OBVIOUS

(***************************************************************************)
(* EventLoop implements FunctorQueue: pushes are posts, the end of a       *)
(* functor is a run, and every other step, the swap included, leaves the   *)
(* queue its callers see as it was.                                        *)
(***************************************************************************)
THEOREM LoopIsAFunctorQueue == Spec => ImplementsFunctorQueue
<1>1. Init => FQ!Init
  BY DEF Init, FQ!Init
<1>2. TypeOK /\ [Next]_vars => [FQ!Next]_<<functors \o pendingFunctors_, executed>>
  <2> SUFFICES ASSUME TypeOK, [Next]_vars
               PROVE  \/ \E f \in 1..MaxFunctors : FQ!Post(f)
                      \/ FQ!Run
                      \/ UNCHANGED <<functors \o pendingFunctors_, executed>>
    BY DEF FQ!Next
  <2>1. CASE LoopQueueInLoop \/ \E t \in Threads : QueueInLoop(t)
    <3>1. /\ created' \in 1..MaxFunctors
          /\ pendingFunctors_' = Append(pendingFunctors_, created')
          /\ UNCHANGED <<functors, executed>>
      BY <2>1 DEF LoopQueueInLoop, QueueInLoop, TypeOK
    <3>2. FQ!Post(created')
      BY SMTT(30), <3>1, ConcatAppend DEF FQ!Post, TypeOK
    <3>3. QED
      BY <3>1, <3>2
  <2>2. CASE FunctorDone
    BY Zenon, <2>2, ConcatHeadTail DEF FunctorDone, FQ!Run, TypeOK
  <2>3. CASE DoPendingFunctors
    <3>1. functors = << >> /\ functors' = pendingFunctors_ /\ pendingFunctors_' = << >>
      BY <2>3 DEF DoPendingFunctors, TypeOK
    <3>2. UNCHANGED <<functors \o pendingFunctors_, executed>>
      BY <2>3, <3>1 DEF DoPendingFunctors, TypeOK
    <3>3. QED
      BY <3>2
  <2>4. CASE UNCHANGED <<functors, pendingFunctors_, executed>>
    BY <2>4
  <2>5. QED
    BY <2>1, <2>2, <2>3, <2>4
       DEF Next, LoopStep, UserCode, PollWoken, PollIO, PollTimeout, EnterLoop,
           TestQuit, PollReturns, HandleRead, HandleIO, FunctorsDone,
           LoopRunInLoop, LoopQuit, Quit, Wakeup, vars
<1>3. QED
  BY <1>1, <1>2, TypeCorrect, PTL DEF Spec, ImplementsFunctorQueue, FQ!Spec

-----------------------------------------------------------------------------
(***************************************************************************)
(* Every step of an EventLoopThread's two threads and of the callers is a  *)
(* step of the loop, or does not touch it.                                 *)
(***************************************************************************)
LEMMA ThreadStepsAreLoopSteps == [ThreadNext]_allVars => [Next]_vars
<1> SUFFICES ASSUME [ThreadNext]_allVars PROVE [Next]_vars
  OBVIOUS
<1>1. CASE ThreadStep \/ LoopIdles \/ LoopUserCode
  BY <1>1, Zenon
     DEF ThreadStep, LoopIdles, LoopUserCode, ConstructLoop, PublishLoop, CallLoop, RunLoop,
         DestroyLoop, Next, UserCode
<1>2. CASE OwnerStep
  <2>1. CASE TestPointer \/ Notified \/ JoinThread
    BY <2>1, Zenon DEF TestPointer, Notified, WakeOwner, JoinThread, Enter
  <2>2. CASE DestructorQuits \/ DestructorWakes
    BY <2>2, OwnerAssumption, Zenon DEF DestructorQuits, DestructorWakes, OnLoop, Next
  <2>3. QED
    BY <1>2, <2>1, <2>2 DEF OwnerStep
<1>3. CASE SpuriousWake \/ CallStartLoop \/ BeginDestructor
  BY <1>3, Zenon DEF SpuriousWake, WakeOwner, CallStartLoop, BeginDestructor, Enter
<1>4. CASE \E t \in Threads : CallerQueues(t) \/ CallerWakes(t)
  BY <1>4, Zenon DEF CallerQueues, CallerWakes, Next
<1>5. CASE UNCHANGED allVars
  BY <1>5, Zenon DEF allVars
<1>6. QED
  BY <1>1, <1>2, <1>3, <1>4, <1>5 DEF ThreadNext

(***************************************************************************)
(* The loop of an EventLoopThread behaves as an EventLoop: what is proved  *)
(* of the loop above holds in every interleaving with startLoop and the    *)
(* destructor.                                                             *)
(***************************************************************************)
THEOREM ThreadImplementsLoop == ThreadSpec => Spec
  BY ThreadStepsAreLoopSteps, PTL DEF ThreadSpec, InitThread, Spec

(***************************************************************************)
(* How the loop's steps treat what HandOver relates: quit_ is stored by    *)
(* quit() alone, and loop() is left only by its test of quit_.             *)
(***************************************************************************)
LEMMA LoopLeavesOnQuit ==
  ASSUME TypeOK, LoopStep \/ PollIO \/ PollTimeout \/ LoopQueueInLoop \/ LoopRunInLoop
  PROVE  quit_' = quit_ /\ (pc' = "outside" => pc = "outside" \/ quit_)
  BY DEF LoopStep, PollIO, PollTimeout, LoopQueueInLoop, LoopRunInLoop, TestQuit, PollWoken,
         PollReturns, HandleRead, HandleIO, DoPendingFunctors, FunctorDone, FunctorsDone

LEMMA ThreadInvStep == ThreadInv /\ [ThreadNext]_allVars => ThreadInv'
<1> SUFFICES ASSUME ThreadInv, [ThreadNext]_allVars PROVE ThreadInv'
  OBVIOUS
<1>1. TypeOK'
  BY ThreadStepsAreLoopSteps, TypeStep DEF ThreadInv, StartedLoopIsAlive, ThreadTypeOK
<1>2. TypeOK
  BY DEF ThreadInv, StartedLoopIsAlive, ThreadTypeOK
<1> USE <1>1 DEF ThreadInv, StartedLoopIsAlive, ThreadTypeOK, HandOver, ThreadPCs, OwnerPCs
<1>3. CASE ConstructLoop \/ PublishLoop \/ DestroyLoop
  <2>1. CASE ConstructLoop
    BY <2>1 DEF ConstructLoop, vars
  <2>2. CASE PublishLoop
    BY <2>2 DEF PublishLoop, vars
  <2>3. CASE DestroyLoop
    BY <2>3 DEF DestroyLoop, vars
  <2>4. QED
    BY <1>3, <2>1, <2>2, <2>3
<1>4. CASE CallLoop
  <2>1. tpc = "ready" /\ tpc' = "loop" /\ UNCHANGED <<loop_, life, owner, asleep, notified, crashed>>
    BY <1>4 DEF CallLoop
  <2>2. pc' = "test" /\ (quit_' => quit_)
    BY <1>2, <1>4, Zenon DEF CallLoop, EnterLoop
  <2>3. QED
    BY <2>1, <2>2
<1>5. CASE RunLoop \/ LoopIdles \/ LoopUserCode
  <2>1. UNCHANGED tvars /\ tpc \in {"init", "loop"}
    BY <1>5 DEF RunLoop, LoopIdles, LoopUserCode
  <2>2. quit_' = quit_ /\ (pc' = "outside" => pc = "outside" \/ quit_)
    BY <1>2, <1>5, LoopLeavesOnQuit DEF RunLoop, LoopIdles, LoopUserCode
  <2>3. QED
    BY <2>1, <2>2 DEF tvars
<1>6. CASE TestPointer \/ Notified \/ SpuriousWake \/ JoinThread \/ CallStartLoop \/ BeginDestructor
  <2>1. UNCHANGED <<vars, loop_, life, tpc, crashed>>
    BY <1>6, Zenon DEF TestPointer, Notified, SpuriousWake, WakeOwner, JoinThread, CallStartLoop,
                       BeginDestructor, Enter
  <2>2. asleep' \in BOOLEAN /\ notified' \in BOOLEAN
    BY <1>6, Zenon DEF TestPointer, Notified, SpuriousWake, WakeOwner, JoinThread, CallStartLoop,
                       BeginDestructor, Enter
  <2>3. /\ owner' \in OwnerPCs
        /\ owner \in {"wakeup", "join", "gone"} => owner' \in {"wakeup", "join", "gone"}
        /\ owner' = "started" => loop_ /\ ~quit_
    BY <1>6 DEF TestPointer, GoesOn, Notified, SpuriousWake, WakeOwner, JoinThread, CallStartLoop,
                BeginDestructor, Enter
  <2>4. QED
    BY <2>1, <2>2, <2>3 DEF vars
<1>7. CASE DestructorQuits
  BY <1>7 DEF DestructorQuits, OnLoop, Quit, vars
<1>8. CASE DestructorWakes
  BY Zenon, <1>8 DEF DestructorWakes, OnLoop, Wakeup, vars
<1>9. ASSUME NEW t \in Threads, CallerQueues(t) \/ CallerWakes(t) PROVE ThreadInv'
  BY <1>9 DEF CallerQueues, CallerWakes, QueueInLoop, Wakeup, tvars
<1>10. CASE UNCHANGED allVars
  BY <1>10 DEF allVars, vars, tvars
<1>11. QED
  BY <1>3, <1>4, <1>5, <1>6, <1>7, <1>8, <1>9, <1>10 DEF ThreadNext, ThreadStep, OwnerStep

(***************************************************************************)
(* startLoop hands out a loop that is alive, and stays so until the        *)
(* destructor (StartedLoopIsAlive), for any number of callers.             *)
(***************************************************************************)
THEOREM StartLoopReturnsALiveLoop == ThreadSpec => []StartedLoopIsAlive
<1>1. InitThread => ThreadInv
  BY Zenon, TypeInit
     DEF InitThread, ThreadInv, StartedLoopIsAlive, ThreadTypeOK, HandOver, ThreadPCs, OwnerPCs, Init
<1>2. ThreadInv => StartedLoopIsAlive
  BY DEF ThreadInv
<1>3. QED
  BY <1>1, <1>2, ThreadInvStep, PTL DEF ThreadSpec

-----------------------------------------------------------------------------
(* The poller. *)

USE NoChannelAssumption

(***************************************************************************)
(* epoll_ctl as EPollPoller uses it: when it is not refused, it sets the   *)
(* one entry of the kernel's set.                                          *)
(***************************************************************************)
LEMMA CtlAccepted ==
  ASSUME NEW op, NEW c, NEW evts, EpollCtl(op, c, evts),
         fd[c] \in open, op = "add" <=> epoll[fd[c]] = NoChannel
  PROVE  /\ epoll' = [epoll EXCEPT ![fd[c]] = IF op = "del" THEN NoChannel ELSE c]
         /\ mask' = [mask EXCEPT ![fd[c]] = IF op = "del" THEN {} ELSE evts]
         /\ ctlFailed' = ctlFailed
BY DEF EpollCtl

(***************************************************************************)
(* What updateChannel leaves behind, under the invariant.                  *)
(***************************************************************************)
LEMMA UpdateResult ==
  ASSUME PollerInv, NEW c \in Channels, MayUpdate(c), NEW evts \in SUBSET Events,
         UpdateChannel(c, evts)
  PROVE  \/ /\ index_' = [index_ EXCEPT ![c] = KAdded]
            /\ channels_' = [channels_ EXCEPT ![fd[c]] = c]
            /\ epoll' = [epoll EXCEPT ![fd[c]] = c]
            /\ mask' = [mask EXCEPT ![fd[c]] = evts]
            /\ ctlFailed' = ctlFailed
         \/ /\ index_' = [index_ EXCEPT ![c] = KDeleted]
            /\ channels_' = [channels_ EXCEPT ![fd[c]] = c]
            /\ epoll' = [epoll EXCEPT ![fd[c]] = NoChannel]
            /\ mask' = [mask EXCEPT ![fd[c]] = {}]
            /\ ctlFailed' = ctlFailed
<1> USE DEF PollerInv, PollerTypeOK, MaybeChannel, KernelAgrees, MapAgrees, RegistrationInv,
            MayUpdate, KNew, KAdded, KDeleted
<1>1. fd[c] \in Fds /\ fd[c] \in open
  OBVIOUS
<1>2. CASE index_[c] \in {KNew, KDeleted}
  <2>1. epoll[fd[c]] = NoChannel
    BY <1>1, <1>2
  <2>2. EpollCtl("add", c, evts) /\ index_' = [index_ EXCEPT ![c] = KAdded]
    BY <1>2 DEF UpdateChannel
  <2>3. channels_' = [channels_ EXCEPT ![fd[c]] = c]
    BY <1>1, <1>2 DEF UpdateChannel
  <2>4. QED
    BY <1>1, <2>1, <2>2, <2>3, CtlAccepted
<1>3. CASE index_[c] = KAdded
  <2>1. epoll[fd[c]] = c /\ c # NoChannel
    BY <1>3
  <2>2. channels_' = channels_ /\ channels_ = [channels_ EXCEPT ![fd[c]] = c]
    BY <1>1, <1>3 DEF UpdateChannel
  <2>3. CASE evts = {}
    <3>1. EpollCtl("del", c, evts) /\ index_' = [index_ EXCEPT ![c] = KDeleted]
      BY <1>3, <2>3 DEF UpdateChannel
    <3>2. QED
      BY <1>1, <2>1, <2>2, <3>1, CtlAccepted
  <2>4. CASE evts # {}
    <3>1. EpollCtl("mod", c, evts) /\ index_' = [index_ EXCEPT ![c] = KAdded]
      BY <1>3, <2>4 DEF UpdateChannel
    <3>2. QED
      BY <1>1, <2>1, <2>2, <3>1, CtlAccepted
  <2>5. QED
    BY <2>3, <2>4
<1>4. QED
  BY <1>2, <1>3

(***************************************************************************)
(* enableReading, enableWriting, disableWriting and disableAll preserve    *)
(* the invariant.                                                          *)
(***************************************************************************)
LEMMA UpdatePreserves ==
  ASSUME PollerInv, NEW c \in Channels, NEW evts \in SUBSET Events, SetEvents(c, evts)
  PROVE  PollerInv'
<1> USE DEF PollerInv, PollerTypeOK, MaybeChannel, KernelAgrees, NoDanglingChannel,
            EpollCtlNeverRefused, MapAgrees, RegistrationInv, KNew, KAdded, KDeleted
<1>1. /\ c \in live
      /\ fd[c] \in open
      /\ index_[c] = KNew => channels_[fd[c]] = NoChannel
      /\ events_' = [events_ EXCEPT ![c] = evts]
      /\ UNCHANGED <<live, fd, open, activeChannels_, todo, currentActiveChannel_,
                     eventHandling_>>
  BY DEF SetEvents, MayUpdate, batch
<1>2. MayUpdate(c) /\ UpdateChannel(c, evts)
  BY DEF SetEvents
<1>3. \A d \in live : d # c /\ index_[d] # KNew => fd[d] # fd[c]
  BY <1>1
<1>4. CASE /\ index_' = [index_ EXCEPT ![c] = KAdded]
           /\ channels_' = [channels_ EXCEPT ![fd[c]] = c]
           /\ epoll' = [epoll EXCEPT ![fd[c]] = c]
           /\ mask' = [mask EXCEPT ![fd[c]] = evts]
           /\ ctlFailed' = ctlFailed
  <2>1. PollerTypeOK'
    BY <1>1, <1>4
  <2>2. KernelAgrees'
    BY <1>1, <1>3, <1>4
  <2>3. NoDanglingChannel' /\ EpollCtlNeverRefused'
    BY <1>1, <1>4
  <2>4. MapAgrees'
    BY <1>1, <1>3, <1>4
  <2>5. RegistrationInv'
    BY <1>1, <1>4
  <2>6. QED
    BY <2>1, <2>2, <2>3, <2>4, <2>5
<1>5. CASE /\ index_' = [index_ EXCEPT ![c] = KDeleted]
           /\ channels_' = [channels_ EXCEPT ![fd[c]] = c]
           /\ epoll' = [epoll EXCEPT ![fd[c]] = NoChannel]
           /\ mask' = [mask EXCEPT ![fd[c]] = {}]
           /\ ctlFailed' = ctlFailed
  <2>1. PollerTypeOK'
    BY <1>1, <1>5
  <2>2. KernelAgrees'
    BY <1>1, <1>3, <1>5
  <2>3. NoDanglingChannel' /\ EpollCtlNeverRefused'
    BY <1>1, <1>5
  <2>4. MapAgrees'
    BY <1>1, <1>3, <1>5
  <2>5. RegistrationInv'
    BY <1>1, <1>5
  <2>6. QED
    BY <2>1, <2>2, <2>3, <2>4, <2>5
<1>6. QED
  BY <1>2, <1>4, <1>5, UpdateResult

(***************************************************************************)
(* Channel::remove preserves the invariant: a channel that waits for its   *)
(* handler is never the one removed.                                       *)
(***************************************************************************)
LEMMA RemovePreserves ==
  ASSUME PollerInv, NEW c \in Channels, Remove(c)
  PROVE  PollerInv'
<1> USE DEF PollerInv, PollerTypeOK, MaybeChannel, KernelAgrees, NoDanglingChannel,
            EpollCtlNeverRefused, MapAgrees, RegistrationInv, KNew, KAdded, KDeleted
<1>1. /\ c \in live
      /\ fd[c] \in open
      /\ channels_[fd[c]] \in {c, NoChannel}
      /\ channels_' = [channels_ EXCEPT ![fd[c]] = NoChannel]
      /\ index_' = [index_ EXCEPT ![c] = KNew]
      /\ UNCHANGED <<live, fd, events_, open, activeChannels_, todo,
                     currentActiveChannel_, eventHandling_>>
  BY DEF Remove, MayRemove, batch
<1>2. /\ epoll' = [epoll EXCEPT ![fd[c]] = NoChannel]
      /\ ctlFailed' = ctlFailed
      /\ \A f \in Fds : f # fd[c] => mask'[f] = mask[f]
      /\ mask' \in [Fds -> SUBSET Events]
  <2>1. CASE index_[c] = KAdded
    <3>1. EpollCtl("del", c, events_[c]) /\ epoll[fd[c]] # NoChannel
      BY <1>1, <2>1 DEF Remove
    <3>2. QED
      BY <1>1, <3>1, CtlAccepted
  <2>2. CASE index_[c] # KAdded
    <3>1. epoll[fd[c]] = NoChannel /\ UNCHANGED <<epoll, mask, ctlFailed>>
      BY <1>1, <2>2 DEF Remove
    <3>2. QED
      BY <1>1, <3>1
  <2>3. QED
    BY <2>1, <2>2
<1>3. \A d \in live : d # c /\ index_[d] # KNew => fd[d] # fd[c]
  BY <1>1
<1>4. c \notin todo
  <2>1. c = currentActiveChannel_ => c \notin todo
    OBVIOUS
  <2>2. eventHandling_ => c = currentActiveChannel_ \/ c \notin activeChannels_
    BY DEF Remove, MayRemove
  <2>3. QED
    BY <2>1, <2>2
<1>5. PollerTypeOK'
  BY <1>1, <1>2
<1>6. KernelAgrees'
  BY <1>1, <1>2, <1>3
<1>7. NoDanglingChannel' /\ EpollCtlNeverRefused'
  BY <1>1, <1>2
<1>8. MapAgrees'
  BY <1>1, <1>3
<1>9. RegistrationInv'
  BY <1>1, <1>2, <1>4
<1>10. QED
  BY <1>5, <1>6, <1>7, <1>8, <1>9

(***************************************************************************)
(* The steps that touch neither the poller's map nor the channels' events: *)
(* the lives of descriptors and channels, and the loop's batch.            *)
(***************************************************************************)
LEMMA OthersPreserve ==
  ASSUME PollerInv,
         \/ Poll \/ HandlingDone
         \/ \E f \in Fds : OpenFd(f) \/ CloseFd(f)
         \/ \E c \in Channels : \/ HandleEvent(c) \/ Destruct(c)
                                \/ \E f \in Fds : Construct(c, f)
  PROVE  PollerInv'
<1> USE DEF PollerInv, PollerTypeOK, MaybeChannel, KernelAgrees, NoDanglingChannel, batch,
            EpollCtlNeverRefused, MapAgrees, RegistrationInv,
            KNew, KAdded, KDeleted
<1>1. CASE Poll
  <2>1. PICK ready \in SUBSET {f \in Fds : epoll[f] # NoChannel} :
          activeChannels_' = {epoll[f] : f \in ready} /\ todo' = activeChannels_'
    BY <1>1 DEF Poll
  <2>2. \A c \in todo' : c \in live /\ c \in Channels /\ index_[c] = KAdded
    BY <2>1
  <2>3. QED
    BY <1>1, <2>1, <2>2 DEF Poll
<1>2. CASE HandlingDone
  BY Zenon, <1>2 DEF HandlingDone
<1>3. ASSUME NEW f \in Fds, OpenFd(f) PROVE PollerInv'
  BY <1>3 DEF OpenFd
<1>4. ASSUME NEW f \in Fds, CloseFd(f) PROVE PollerInv'
  <2>1. epoll[f] = NoChannel /\ epoll' = epoll
    BY <1>4 DEF CloseFd
  <2>2. \A c \in live : index_[c] # KNew => fd[c] # f
    BY <1>4 DEF CloseFd
  <2>3. QED
    BY <1>4, <2>1, <2>2 DEF CloseFd
<1>5. ASSUME NEW c \in Channels, HandleEvent(c) PROVE PollerInv'
  BY <1>5 DEF HandleEvent
<1>6. ASSUME NEW c \in Channels, Destruct(c) PROVE PollerInv'
  <2>1. \A f \in Fds : epoll[f] # c /\ channels_[f] # c
    BY <1>6 DEF Destruct
  <2>2. c \notin todo
    BY <1>6 DEF Destruct
  <2>3. QED
    BY <1>6, <2>1, <2>2 DEF Destruct
<1>7. ASSUME NEW c \in Channels, NEW f \in Fds, Construct(c, f) PROVE PollerInv'
  <2>1. \A g \in Fds : epoll[g] # c /\ channels_[g] # c
    BY <1>7 DEF Construct
  <2>2. c \notin todo
    BY <1>7 DEF Construct
  <2>3. QED
    BY <1>7, <2>1, <2>2 DEF Construct
<1>8. QED
  BY Zenon, <1>1, <1>2, <1>3, <1>4, <1>5, <1>6, <1>7

(***************************************************************************)
(* The invariant holds initially and every step keeps it.                  *)
(***************************************************************************)
LEMMA PollerInductive == PollerSpec => []PollerInv
<1>1. PollerInit => PollerInv
  BY Zenon DEF PollerInit, PollerInv, PollerTypeOK, MaybeChannel, KernelAgrees, NoDanglingChannel,
         EpollCtlNeverRefused, MapAgrees, RegistrationInv,
         KNew, KAdded, KDeleted
<1>2. PollerInv /\ [PollerNext]_pollerVars => PollerInv'
  <2> SUFFICES ASSUME PollerInv, [PollerNext]_pollerVars PROVE PollerInv'
    OBVIOUS
  <2>1. ASSUME NEW c \in Channels,
               \/ EnableReading(c) \/ EnableWriting(c)
               \/ DisableWriting(c) \/ DisableAll(c)
        PROVE  PollerInv'
    <3>1. PICK evts \in SUBSET Events : SetEvents(c, evts)
      BY <2>1 DEF EnableReading, EnableWriting, DisableWriting, DisableAll, PollerInv,
                  PollerTypeOK, Events
    <3>2. QED
      BY <3>1, UpdatePreserves
  <2>2. ASSUME NEW c \in Channels, Remove(c) PROVE PollerInv'
    BY <2>2, RemovePreserves
  <2>3. CASE UNCHANGED pollerVars
    BY <2>3 DEF pollerVars, PollerInv, PollerTypeOK, MaybeChannel, KernelAgrees, NoDanglingChannel,
         EpollCtlNeverRefused, MapAgrees, RegistrationInv
  <2>4. QED
    BY <2>1, <2>2, <2>3, OthersPreserve DEF PollerNext
<1>3. QED
  BY <1>1, <1>2, PTL DEF PollerSpec

-----------------------------------------------------------------------------
(***************************************************************************)
(* Types of the poller's and the kernel's state.                           *)
(***************************************************************************)
THEOREM PollerTypeCorrect == PollerSpec => []PollerTypeOK
<1>1. PollerInv => PollerTypeOK
  BY DEF PollerInv
<1>2. QED
  BY PollerInductive, <1>1, PTL

(***************************************************************************)
(* epoll watches each descriptor exactly as its KAdded channel asks.       *)
(***************************************************************************)
THEOREM KernelFollowsChannels == PollerSpec => []KernelAgrees
<1>1. PollerInv => KernelAgrees
  BY DEF PollerInv
<1>2. QED
  BY PollerInductive, <1>1, PTL

(***************************************************************************)
(* No handler of a batch can leave the loop, or epoll, with a pointer to a *)
(* destroyed Channel.                                                      *)
(***************************************************************************)
THEOREM LoopFollowsLivePointers == PollerSpec => []NoDanglingChannel
<1>1. PollerInv => NoDanglingChannel
  BY DEF PollerInv
<1>2. QED
  BY PollerInductive, <1>1, PTL

(***************************************************************************)
(* update() never takes its exit().                                        *)
(***************************************************************************)
THEOREM UpdateNeverExits == PollerSpec => []EpollCtlNeverRefused
<1>1. PollerInv => EpollCtlNeverRefused
  BY DEF PollerInv
<1>2. QED
  BY PollerInductive, <1>1, PTL

(***************************************************************************)
(* updateChannel's asserts on channels_ hold: the map has, under a         *)
(* descriptor, exactly the channel that is registered for it.              *)
(***************************************************************************)
THEOREM MapFollowsChannels == PollerSpec => []MapAgrees
<1>1. PollerInv => MapAgrees
  BY DEF PollerInv
<1>2. QED
  BY <1>1, PollerInductive, PTL

=============================================================================
