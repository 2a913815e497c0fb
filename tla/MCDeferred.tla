----------------------------- MODULE MCDeferred -----------------------------
(* Work that interrupts leave for later: the task queue (TaskQueue) and the   *)
(* timeouts that go through it (Timers, which knows of the queue what it      *)
(* needs).  They share no variable; each behaviour is one of either.          *)
EXTENDS TaskQueue, Timers

VARIABLES timed  \* TRUE in the behaviours of the timers
allVars == <<timed, vars, timerVars>>

InQueue(A) == ~timed /\ A /\ UNCHANGED <<timed, timerVars>>
InTimers(A) == timed /\ A /\ UNCHANGED <<timed, vars>>
MCInit == timed \in BOOLEAN /\ Init /\ TimersInit
MCNext == InQueue(Next) \/ InTimers(TimersNext)
MCSpec ==
  /\ MCInit /\ [][MCNext]_allVars
  /\ WF_allVars(InQueue(Enter)) /\ WF_allVars(InQueue(Start))
  /\ \A t \in Threads :
       SF_allVars(InQueue(Leave(t))) /\ SF_allVars(InQueue(cur = t /\ Finish))
  /\ WF_allVars(InTimers(Tick)) /\ WF_allVars(InTimers(Interrupt))
  /\ WF_allVars(InTimers(Begin)) /\ WF_allVars(InTimers(ClearCallback))
  /\ WF_allVars(InTimers(ClearNext)) /\ WF_allVars(InTimers(Call))
=============================================================================
