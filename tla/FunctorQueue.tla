---------------------------- MODULE FunctorQueue ----------------------------
(***************************************************************************)
(* What an EventLoop promises the callers of queueInLoop, with no thread,  *)
(* poller or wakeup in sight: a functor handed over is run once, and the   *)
(* functors are run in the order in which they were handed over.  A        *)
(* ThreadPool promises the same to the callers of run.                     *)
(***************************************************************************)
EXTENDS Naturals, Sequences

CONSTANT Functors   \* the callables a program can hand over

VARIABLES queue,    \* handed over and not yet run, oldest first
          done      \* run, oldest first

Init == /\ queue = << >>
        /\ done = << >>

Post(f) == /\ queue' = Append(queue, f)
           /\ UNCHANGED done

Run == /\ queue # << >>
       /\ queue' = Tail(queue)
       /\ done' = Append(done, Head(queue))

Next == (\E f \in Functors : Post(f)) \/ Run

Spec == Init /\ [][Next]_<<queue, done>>
=============================================================================
