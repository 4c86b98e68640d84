------------------------------ MODULE EventLoop ------------------------------
(***************************************************************************)
(* The reactor core of plugins/Muduo: one EventLoop, the thread that runs  *)
(* it, and the other threads that hand it functors or ask it to quit.      *)
(*                                                                         *)
(* The loop thread is cut into steps at the points where another thread    *)
(* can see or change something: the test of quit_, the return of           *)
(* epoll_wait, each channel handler, the swap of pendingFunctors_ under    *)
(* mutex_, and each functor.  A call from another thread is two steps: the *)
(* push (or the store to quit_), and the write to the eventfd.             *)
(*                                                                         *)
(* The eventfd counter is abstracted to "is it readable": every write adds *)
(* one, the one read resets it, and nothing looks at the count.            *)
(***************************************************************************)
EXTENDS Naturals, Sequences

CONSTANTS Threads,      \* the threads, other than the loop's, that use the loop
          MaxFunctors   \* bound: functors created in a behaviour

ASSUME MaxFunctorsAssumption == MaxFunctors \in Nat

VARIABLES
  pc,               \* where the loop thread is, see LoopPCs
  quit_, started_, callingPendingFunctors_,
  active,           \* the channels of activeChannels_ not handled yet
  readable,         \* the eventfd wakeupFd_ has been written and not read
  pendingFunctors_, \* the functors waiting, oldest first
  functors,         \* the local vector of doPendingFunctors, the running one first
  call,             \* for each other thread, the call it is in the middle of
  created,          \* how many functors were created; their names are 1..created
  executed,         \* history: queued functors that have run, oldest first
  inline,           \* history: functors run directly by runInLoop
  outside           \* history: functors the loop thread queued outside loop()

vars == <<pc, quit_, started_, callingPendingFunctors_, active, readable,
          pendingFunctors_, functors, call, created, executed, inline, outside>>

(***************************************************************************)
(* "outside": not in loop().  "test": at while (!quit_).  "poll": in       *)
(* epoll_wait.  "handle": eventHandling_, going through activeChannels_.   *)
(* "run": in doPendingFunctors, after the swap.                            *)
(***************************************************************************)
LoopPCs == {"outside", "test", "poll", "handle", "run"}

(***************************************************************************)
(* The wakeup channel, and "io" for every channel with user callbacks.     *)
(***************************************************************************)
LoopChannels == {"wakeup", "io"}

(***************************************************************************)
(* "none": in no call.  "pushed": in queueInLoop, functor pushed, eventfd  *)
(* not written.  "quitting": in quit(), quit_ stored, eventfd not written. *)
(***************************************************************************)
Calls == {"none", "pushed", "quitting"}

looping_ == pc # "outside"

(***************************************************************************)
(* User code on the loop thread runs outside loop(), in the callbacks of a *)
(* channel, and in functors.                                               *)
(***************************************************************************)
InUserCode == \/ pc = "outside"
              \/ pc = "handle" /\ "io" \in active
              \/ pc = "run" /\ functors # << >>

Init ==
  /\ pc = "outside"
  /\ quit_ = FALSE
  /\ started_ = FALSE
  /\ callingPendingFunctors_ = FALSE
  /\ active = {}
  /\ readable = FALSE
  /\ pendingFunctors_ = << >>
  /\ functors = << >>
  /\ call = [t \in Threads |-> "none"]
  /\ created = 0
  /\ executed = << >>
  /\ inline = {}
  /\ outside = {}

-----------------------------------------------------------------------------
(* The loop thread: loop() and what it calls.                              *)

EnterLoopForgetsQuit ==
  /\ pc = "outside"
  /\ pc' = "test"
  /\ quit_' = FALSE
  /\ started_' = TRUE
  /\ UNCHANGED <<callingPendingFunctors_, active, readable, pendingFunctors_,
                 functors, call, created, executed, inline, outside>>

EnterLoop ==
  /\ pc = "outside"
  /\ pc' = "test"
  /\ quit_' = (quit_ /\ ~started_)
  /\ started_' = TRUE
  /\ UNCHANGED <<callingPendingFunctors_, active, readable, pendingFunctors_,
                 functors, call, created, executed, inline, outside>>

TestQuit ==
  /\ pc = "test"
  /\ pc' = IF quit_ THEN "outside" ELSE "poll"
  /\ UNCHANGED <<quit_, started_, callingPendingFunctors_, active, readable,
                 pendingFunctors_, functors, call, created, executed, inline, outside>>

(***************************************************************************)
(* epoll_wait returns a set of ready channels: the eventfd's when it is    *)
(* readable, and the others' when their descriptors are ready.             *)
(***************************************************************************)
PollReturns(ready) ==
  /\ pc = "poll"
  /\ "wakeup" \in ready <=> readable
  /\ active' = ready
  /\ pc' = "handle"
  /\ UNCHANGED <<quit_, started_, callingPendingFunctors_, readable,
                 pendingFunctors_, functors, call, created, executed, inline, outside>>

PollWoken == readable /\ \E ready \in SUBSET LoopChannels : PollReturns(ready)

PollIO == ~readable /\ PollReturns({"io"})

(***************************************************************************)
(* KPollTimeMs elapsed, or a signal interrupted epoll_wait.                *)
(***************************************************************************)
PollTimeout == ~readable /\ PollReturns({})

HandleReadAgain ==
  /\ pc = "handle"
  /\ "wakeup" \in active
  /\ readable' = FALSE
  /\ UNCHANGED <<pc, quit_, started_, callingPendingFunctors_, active,
                 pendingFunctors_, functors, call, created, executed, inline, outside>>

HandleRead ==
  /\ pc = "handle"
  /\ "wakeup" \in active
  /\ active' = active \ {"wakeup"}
  /\ readable' = FALSE
  /\ UNCHANGED <<pc, quit_, started_, callingPendingFunctors_, pendingFunctors_,
                 functors, call, created, executed, inline, outside>>

HandleIO ==
  /\ pc = "handle"
  /\ "io" \in active
  /\ active' = active \ {"io"}
  /\ UNCHANGED <<pc, quit_, started_, callingPendingFunctors_, readable,
                 pendingFunctors_, functors, call, created, executed, inline, outside>>

CopyPendingFunctors ==
  /\ pc = "handle"
  /\ active = {}
  /\ callingPendingFunctors_' = TRUE
  /\ functors' = pendingFunctors_
  /\ pc' = "run"
  /\ UNCHANGED <<quit_, started_, active, readable, pendingFunctors_, call,
                 created, executed, inline, outside>>

DoPendingFunctors ==
  /\ pc = "handle"
  /\ active = {}
  /\ callingPendingFunctors_' = TRUE
  /\ functors' = pendingFunctors_
  /\ pendingFunctors_' = << >>
  /\ pc' = "run"
  /\ UNCHANGED <<quit_, started_, active, readable, call, created, executed,
                 inline, outside>>

FunctorDone ==
  /\ pc = "run"
  /\ functors # << >>
  /\ executed' = Append(executed, Head(functors))
  /\ functors' = Tail(functors)
  /\ UNCHANGED <<pc, quit_, started_, callingPendingFunctors_, active, readable,
                 pendingFunctors_, call, created, inline, outside>>

FunctorsDone ==
  /\ pc = "run"
  /\ functors = << >>
  /\ callingPendingFunctors_' = FALSE
  /\ pc' = "test"
  /\ UNCHANGED <<quit_, started_, active, readable, pendingFunctors_, functors,
                 call, created, executed, inline, outside>>

-----------------------------------------------------------------------------
(* User code on the loop thread.  No other thread can see the gap between  *)
(* its push and its write to the eventfd, so a call is one step.           *)

NeverWakes == FALSE

(***************************************************************************)
(* queueInLoop's condition for calling wakeup, on the loop thread.         *)
(***************************************************************************)
LoopWakes == callingPendingFunctors_

LoopQueueInLoop ==
  /\ InUserCode
  /\ created < MaxFunctors
  /\ created' = created + 1
  /\ pendingFunctors_' = Append(pendingFunctors_, created')
  /\ readable' = (readable \/ LoopWakes)
  /\ outside' = IF looping_ THEN outside ELSE outside \cup {created'}
  /\ UNCHANGED <<pc, quit_, started_, callingPendingFunctors_, active, functors,
                 call, executed, inline>>

LoopRunInLoop ==
  /\ InUserCode
  /\ created < MaxFunctors
  /\ created' = created + 1
  /\ inline' = inline \cup {created'}
  /\ UNCHANGED <<pc, quit_, started_, callingPendingFunctors_, active, readable,
                 pendingFunctors_, functors, call, executed, outside>>

LoopQuit ==
  /\ InUserCode
  /\ quit_' = TRUE
  /\ UNCHANGED <<pc, started_, callingPendingFunctors_, active, readable,
                 pendingFunctors_, functors, call, created, executed, inline, outside>>

-----------------------------------------------------------------------------
(* The other threads.  runInLoop from another thread is queueInLoop.       *)

QueueInLoop(t) ==
  /\ call[t] = "none"
  /\ created < MaxFunctors
  /\ created' = created + 1
  /\ pendingFunctors_' = Append(pendingFunctors_, created')
  /\ call' = [call EXCEPT ![t] = "pushed"]
  /\ UNCHANGED <<pc, quit_, started_, callingPendingFunctors_, active, readable,
                 functors, executed, inline, outside>>

QuitUnwoken(t) ==
  /\ call[t] = "none"
  /\ quit_' = TRUE
  /\ UNCHANGED <<pc, started_, callingPendingFunctors_, active, readable,
                 pendingFunctors_, functors, call, created, executed, inline, outside>>

Quit(t) ==
  /\ call[t] = "none"
  /\ quit_' = TRUE
  /\ call' = [call EXCEPT ![t] = "quitting"]
  /\ UNCHANGED <<pc, started_, callingPendingFunctors_, active, readable,
                 pendingFunctors_, functors, created, executed, inline, outside>>

Wakeup(t) ==
  /\ call[t] \in {"pushed", "quitting"}
  /\ readable' = TRUE
  /\ call' = [call EXCEPT ![t] = "none"]
  /\ UNCHANGED <<pc, quit_, started_, callingPendingFunctors_, active,
                 pendingFunctors_, functors, created, executed, inline, outside>>

-----------------------------------------------------------------------------
LoopStep == \/ TestQuit \/ PollWoken \/ HandleRead \/ HandleIO
            \/ DoPendingFunctors \/ FunctorDone \/ FunctorsDone

UserCode == LoopQueueInLoop \/ LoopRunInLoop \/ LoopQuit

Next == \/ EnterLoop \/ LoopStep \/ PollIO \/ PollTimeout
        \/ UserCode
        \/ \E t \in Threads : QueueInLoop(t) \/ Quit(t) \/ Wakeup(t)

Spec == Init /\ [][Next]_vars

(***************************************************************************)
(* The scheduler runs every thread that can run, and callbacks return.     *)
(* Nothing makes descriptors ready, makes a program call loop(), and the   *)
(* ten-second timeout of epoll_wait is deliberately left unfair: what      *)
(* follows must not depend on it.                                          *)
(***************************************************************************)
Fairness == /\ WF_vars(LoopStep)
            /\ \A t \in Threads : WF_vars(Wakeup(t))

FairSpec == Spec /\ Fairness

-----------------------------------------------------------------------------
(***************************************************************************)
(* Types, and the phase of the loop each flag and local belongs to: a      *)
(* vector left over from one phase, or callingPendingFunctors_ still set   *)
(* in the next, would be acted on there.                                   *)
(***************************************************************************)
TypeOK ==
  /\ pc \in LoopPCs
  /\ quit_ \in BOOLEAN
  /\ started_ \in BOOLEAN
  /\ callingPendingFunctors_ \in BOOLEAN
  /\ active \in SUBSET LoopChannels
  /\ readable \in BOOLEAN
  /\ pendingFunctors_ \in Seq(Nat)
  /\ functors \in Seq(Nat)
  /\ call \in [Threads -> Calls]
  /\ created \in 0..MaxFunctors
  /\ executed \in Seq(Nat)
  /\ inline \in SUBSET Nat
  /\ outside \in SUBSET Nat
  /\ callingPendingFunctors_ <=> pc = "run"
  /\ pc # "handle" => active = {}
  /\ pc # "run" => functors = << >>

Waiting(f) == \E i \in 1..Len(pendingFunctors_) : pendingFunctors_[i] = f
HasRun(f) == \E i \in 1..Len(executed) : executed[i] = f

(***************************************************************************)
(* No lost wakeup.  When the loop thread sleeps in epoll_wait and nobody   *)
(* has written, or is about to write, the eventfd, the only functors that  *)
(* can be waiting are the ones the loop thread itself queued outside       *)
(* loop(): everything handed over by another thread, by a functor or by a  *)
(* channel callback has been taken by a swap (queueInLoop's condition for  *)
(* calling wakeup, against doPendingFunctors' place in loop()).            *)
(***************************************************************************)
NoLostWakeup ==
  pc = "poll" /\ ~readable /\ (\A t \in Threads : call[t] # "pushed")
    => \A i \in 1..Len(pendingFunctors_) : pendingFunctors_[i] \in outside

(***************************************************************************)
(* No lost quit.  The loop thread never sleeps on a stored quit_ without a *)
(* write to the eventfd done or on its way: quit() stores before it wakes, *)
(* and the loop tests after it is woken.                                   *)
(***************************************************************************)
NoLostQuit ==
  pc = "poll" /\ quit_ /\ ~readable => \E t \in Threads : call[t] = "quitting"

(***************************************************************************)
(* handleRead never meets an empty eventfd, where its read would fail with *)
(* EAGAIN and it would exit the process: nobody else consumes the wakeup   *)
(* between the return of epoll_wait and the handler.                       *)
(***************************************************************************)
WakeupReadSucceeds == "wakeup" \in active => readable

(***************************************************************************)
(* The inductive invariant behind the three above.  Outside its handlers   *)
(* the loop always has a wakeup for what is waiting: while it handles      *)
(* channels it may have consumed one, and owes a swap instead.             *)
(***************************************************************************)
WakeupOwed ==
  pc # "handle" => \/ readable
                   \/ \E t \in Threads : call[t] = "pushed"
                   \/ \A i \in 1..Len(pendingFunctors_) : pendingFunctors_[i] \in outside

IInv == TypeOK /\ WakeupOwed /\ NoLostQuit /\ WakeupReadSucceeds

(***************************************************************************)
(* A functor that queueInLoop or runInLoop handed to a running loop is run *)
(* unless the loop is quit first, and its turn does not wait for the       *)
(* timeout of epoll_wait.                                                  *)
(***************************************************************************)
EveryFunctorRuns ==
  \A f \in 1..MaxFunctors :
    looping_ /\ Waiting(f) /\ f \notin outside ~> HasRun(f) \/ ~looping_

(***************************************************************************)
(* quit(), from any thread or callback, makes a running loop() return      *)
(* without waiting for the timeout of epoll_wait.                          *)
(***************************************************************************)
QuitStopsLoop == looping_ /\ quit_ ~> ~looping_

(***************************************************************************)
(* The loop is a FIFO queue of functors to its callers: the queue is what  *)
(* doPendingFunctors has swapped out and not run, then pendingFunctors_.   *)
(* Nothing is run twice, dropped or overtaken by the swap, the callbacks   *)
(* that queue while the batch runs, a quit or a second loop().             *)
(***************************************************************************)
FQ == INSTANCE FunctorQueue WITH
        Functors <- 1..MaxFunctors,
        queue <- functors \o pendingFunctors_,
        done <- executed

ImplementsFunctorQueue == FQ!Spec
=============================================================================
