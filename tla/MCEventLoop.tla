----------------------------- MODULE MCEventLoop -----------------------------
(***************************************************************************)
(* The two homes of an EventLoop, side by side: on the thread that runs    *)
(* main(), where user code enters and leaves loop() as it likes, and on    *)
(* the thread of an EventLoopThread.                                       *)
(***************************************************************************)
EXTENDS EventLoopThread

VARIABLE hosted   \* the loop belongs to an EventLoopThread

mcVars == <<allVars, hosted>>

MCInit == InitThread /\ hosted \in BOOLEAN

Main(A) == ~hosted /\ A /\ UNCHANGED <<tvars, hosted>>
Hosted(A) == hosted /\ ~crashed /\ A /\ UNCHANGED hosted

Over == hosted /\ (owner = "gone" \/ crashed) /\ UNCHANGED mcVars

MCNext == Main(Next) \/ Hosted(ThreadNext) \/ Over

MCSpec == /\ MCInit /\ [][MCNext]_mcVars
          /\ WF_mcVars(Main(LoopStep))
          /\ \A t \in Threads : WF_mcVars(Main(Wakeup(t)))
          /\ WF_mcVars(Hosted(ThreadStep))
          /\ WF_mcVars(Hosted(OwnerStep))
          /\ \A t \in Threads : WF_mcVars(Hosted(CallerWakes(t)))
=============================================================================
