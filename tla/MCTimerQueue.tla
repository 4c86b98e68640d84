---------------------------- MODULE MCTimerQueue ----------------------------
(***************************************************************************)
(* Instances of TimerQueue for TLC.                                        *)
(***************************************************************************)
EXTENDS TimerQueue

-----------------------------------------------------------------------------
(* Liveness needs time without end.  At the last moment time goes on by    *)
(* moving every other time one unit back: only differences matter to the   *)
(* code.  Times stop at 0, so long overdue timers become due together.     *)

OneBack(time) == IF time > 0 THEN time - 1 ELSE 0

Slide ==
  /\ now = MaxTime
  /\ expiration' = [a \in Addresses |-> OneBack(expiration[a])]
  /\ timers_' = {<<OneBack(e[1]), e[2]>> : e \in timers_}
  /\ fireAt' = OneBack(fireAt)
  /\ since' = OneBack(since)
  /\ UNCHANGED <<now, live, seq, interval, activeTimers_, callingExpiredTimers_,
                 cancelingTimers_, expired, toRun, ready, armed, callers, history>>

SlidingSpec == Init /\ [][Next \/ Slide]_vars

(***************************************************************************)
(* Time goes on, every iteration of the loop polls, handles and runs       *)
(* functors, and callbacks return.                                         *)
(***************************************************************************)
FairSpec == /\ SlidingSpec
            /\ WF_vars(Tick \/ Slide)
            /\ WF_vars(PollTimerfd)
            /\ WF_vars(HandleRead)
            /\ WF_vars(Reset \/ \E a \in Addresses : RunTimer(a))
            /\ WF_vars(RunFunctor)
=============================================================================
