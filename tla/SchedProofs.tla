---------------------------- MODULE SchedProofs ----------------------------
(* Theorems about Sched, for every set of slots, signals and every bound.    *)
EXTENDS Sched, TLAPS

LEMMA EndedType ==
  ASSUME TypeOK, NEW child
  PROVE  /\ Ended(child) \in [Threads -> Statuses]
         /\ WaitingAfter(child) \in [Threads -> Int]
  BY DEF Ended, WaitingAfter, TypeOK, Statuses

LEMMA ScheduleType ==
  ASSUME NEW st \in [Threads -> Statuses], Schedule(st)
  PROVE  current' \in Threads /\ status' \in [Threads -> Statuses]
  BY DEF Schedule, Statuses

LEMMA ThreadExitType ==
  ASSUME TypeOK, ThreadExit
  PROVE  /\ current' \in Threads /\ status' \in [Threads -> Statuses]
         /\ waitingPid' \in [Threads -> Int] /\ foreground' \in Int
<1>1. Ended(current) \in [Threads -> Statuses] /\ WaitingAfter(current) \in [Threads -> Int]
  BY EndedType
<1>2. current' \in Threads /\ status' \in [Threads -> Statuses]
  BY <1>1, ScheduleType DEF ThreadExit
<1> QED  BY <1>1, <1>2 DEF ThreadExit, TypeOK

LEMMA AwakeType ==
  ASSUME TypeOK
  PROVE  /\ Awake \in [Threads -> Statuses]
         /\ \A u \in Threads : Awake[u] = "RUNNING" <=> status[u] = "RUNNING"
         /\ \A u \in Threads : Awake[u] = "TERMINATED" <=> status[u] = "TERMINATED"
         /\ \A u \in Threads : Awake[u] = "WAITING" <=> status[u] = "WAITING"
  BY DEF Awake, TypeOK, Statuses

LEMMA NoteType ==
  ASSUME TypeOK, NEW pids \in SUBSET Nat, Note(pids)
  PROVE  /\ testPids' \subseteq Nat /\ tried' \in Nat
         /\ at' \in [Threads -> {"user", "ret", "waitpid", "usleep", "reap", "yield",
                         "poll", "pid", "enq", "fg", "note", "join", "work"}]
<1>1. tried + 1 \in Nat /\ testPids \cup pids \subseteq Nat
  BY DEF TypeOK
<1>2. \A w \in {"poll", "join"} :
        [at EXCEPT ![Shell] = w] \in [Threads -> {"user", "ret", "waitpid",
                         "usleep", "reap", "yield", "poll", "pid", "enq", "fg",
                         "note", "join", "work"}]
  BY DEF TypeOK
<1> QED  BY <1>1, <1>2 DEF Note

(* A struct allocated by the shell is not yet in the run queue.              *)
NewThreadOK ==
  /\ newThread \notin queued
  /\ newThread = NULL => at[Shell] \notin {"pid", "enq"}

LEMMA TypeStep ==
  ASSUME TypeOK, NewThreadOK, [Next]_vars
  PROVE  TypeOK'
<1> USE SchedAssumption DEF TypeOK
<1>1. ASSUME NEW t \in Slots, NEW s \in Slots, Fork(t, s) PROVE TypeOK'
  BY <1>1 DEF Fork, InUser, shellVars, Threads, Statuses, Free
<1>2. ASSUME NEW t \in Slots, Exec(t) PROVE TypeOK'
  BY <1>2 DEF Exec, InUser, Return, queueVars, birthVars, shellVars, Threads
<1>3. ASSUME NEW t \in Slots, NEW p \in Pids, WaitpidNow(t, p) PROVE TypeOK'
  BY <1>3 DEF WaitpidNow, InUser, Return, queueVars, birthVars, signalVars,
      shellVars, Threads, Collect, Pids
<1>4. ASSUME NEW t \in Slots, NEW p \in Pids, WaitpidBlock(t, p) PROVE TypeOK'
  <2>1. [status EXCEPT ![t] = "WAITING"] \in [Threads -> Statuses]
    BY DEF Statuses
  <2>2. current' \in Threads /\ status' \in [Threads -> Statuses]
    BY <1>4, <2>1, ScheduleType DEF WaitpidBlock
  <2> QED  BY <1>4, <2>2 DEF WaitpidBlock, Pids, queueVars, birthVars,
      signalVars, shellVars, Threads
<1>5. ASSUME NEW t \in Slots, WaitpidReturn(t) PROVE TypeOK'
  BY <1>5 DEF WaitpidReturn, Return, queueVars, birthVars, signalVars,
      shellVars, Threads, Collect
<1>6. ASSUME NEW t \in Slots, Exit(t) PROVE TypeOK'
  BY <1>6, EndedType, ScheduleType, ThreadExitType DEF Exit, InUser, queueVars,
      birthVars, signalVars, shellVars, Threads, Statuses
<1>7. ASSUME NEW t \in Slots, NEW p \in Pids, Stop(t, p) PROVE TypeOK'
  BY <1>7, EndedType, ScheduleType, ThreadExitType DEF Stop, InUser, Return,
      TerminateOther, queueVars, birthVars, signalVars, shellVars, Threads,
      Statuses, Pids
<1>8. ASSUME NEW t \in Slots, Yield(t) PROVE TypeOK'
  BY <1>8, ScheduleType DEF Yield, InUser, Return, queueVars, birthVars,
      signalVars, shellVars, Threads, Statuses
<1>9. ASSUME NEW t \in Slots, Usleep(t) PROVE TypeOK'
  BY <1>9, ScheduleType DEF Usleep, InUser, queueVars, birthVars,
      signalVars, shellVars, Threads, Statuses
<1>10. ASSUME NEW t \in Slots, ReturnAtOnce(t) PROVE TypeOK'
  BY <1>10 DEF ReturnAtOnce, InUser, Return, queueVars, birthVars, signalVars,
      shellVars, Threads
<1>11. ASSUME NEW t \in Slots, UsleepReturn(t) PROVE TypeOK'
  BY <1>11 DEF UsleepReturn, Return, queueVars, birthVars, signalVars,
      shellVars, Threads
<1>12. ASSUME NEW t \in Slots, TimePasses(t) PROVE TypeOK'
  BY <1>12 DEF TimePasses, queueVars, birthVars, signalVars, shellVars, Threads
<1>13. ASSUME NEW t \in Slots, NEW sig \in Sigs, Signal(t, sig) PROVE TypeOK'
  BY <1>13 DEF Signal, InUser, Return, queueVars, birthVars, shellVars, Threads
<1>14. ASSUME NEW t \in Slots, NEW p \in Pids, NEW sig \in Sigs, KillHandled(t, p, sig)
      PROVE  TypeOK'
  BY <1>14 DEF KillHandled, InUser, Return, queueVars, birthVars, shellVars,
      Threads, Statuses, Pids
<1>15. ASSUME NEW t \in Slots, NEW p \in Pids, NEW sig \in Sigs, KillDefault(t, p, sig)
      PROVE  TypeOK'
  BY <1>15, EndedType, ScheduleType, ThreadExitType DEF KillDefault, InUser,
      Return, TerminateOther, queueVars, birthVars, signalVars, shellVars,
      Threads, Statuses, Pids
<1>16. ASSUME NEW t \in Slots, SigReturn(t) PROVE TypeOK'
  BY <1>16 DEF SigReturn, InUser, Return, queueVars, birthVars, shellVars,
      Threads
<1>17. ASSUME NEW t \in Slots, ReturnPlain(t) PROVE TypeOK'
  BY <1>17 DEF ReturnPlain, AtReturn, queueVars, birthVars, signalVars,
      shellVars, Threads
<1>18. ASSUME NEW t \in Slots, ReturnToHandler(t) PROVE TypeOK'
  BY <1>18 DEF ReturnToHandler, AtReturn, queueVars, birthVars, shellVars,
      Threads
<1>19. ASSUME NEW t \in Slots, ReturnTerminated(t) PROVE TypeOK'
  BY <1>19, EndedType, ScheduleType, ThreadExitType DEF ReturnTerminated,
      AtReturn, queueVars, birthVars, shellVars, Threads, Statuses
<1>20. ASSUME NEW reused \in SUBSET Free, Reap(reused) PROVE TypeOK'
  BY <1>20 DEF Reap, AtKernel, shellVars, Threads
<1>21. ASSUME IdleYield PROVE TypeOK'
  BY <1>21, ScheduleType DEF IdleYield, AtKernel, KernelSchedule, queueVars,
      birthVars, signalVars, shellVars, Threads, Statuses
<1>22. ASSUME ShellTurn PROVE TypeOK'
  <2>1. current' \in Threads /\ status' \in [Threads -> Statuses]
    BY <1>22, ScheduleType DEF ShellTurn, KernelSchedule
  <2> QED  BY <1>22, <2>1 DEF ShellTurn, KernelSchedule, AtKernel,
      ForegroundAfter, queueVars, birthVars, signalVars, shellVars, Threads
<1>23. ASSUME NEW c \in Commands, ShellBegin(c) PROVE TypeOK'
  BY <1>23 DEF ShellBegin, AtKernel, queueVars, birthVars, signalVars, Threads
<1>24. ASSUME NEW s \in Slots, ShellAlloc(s) PROVE TypeOK'
  BY <1>24 DEF ShellAlloc, AtKernel, queueVars, birthVars, signalVars, Threads,
      Free
<1>25. ASSUME ShellStorePid PROVE TypeOK'
  BY <1>25 DEF ShellStorePid, AtKernel, queueVars, signalVars, shellVars,
      Threads
<1>26. ASSUME EnqueueProcess PROVE TypeOK'
  <2>1. newThread \in Slots
    BY <1>26 DEF EnqueueProcess, EnqueueNew, AtKernel, NewThreadOK
  <2>2. /\ pid' \in [Threads -> Nat] /\ status' \in [Threads -> Statuses]
        /\ queued' \subseteq Threads /\ enqueues' \in Nat
        /\ stamp' \in [Threads -> Nat]
    BY <1>26, <2>1 DEF EnqueueProcess, EnqueueNew, Threads, Statuses
  <2> QED  BY <1>26, <2>1, <2>2 DEF EnqueueProcess, EnqueueNew, signalVars,
      Threads
<1>27. ASSUME EnqueueTestThread PROVE TypeOK'
  <2>1. newThread \in Slots
    BY <1>27 DEF EnqueueTestThread, EnqueueNew, AtKernel, NewThreadOK
  <2>2. /\ pid' \in [Threads -> Nat] /\ status' \in [Threads -> Statuses]
        /\ queued' \subseteq Threads /\ enqueues' \in Nat
        /\ stamp' \in [Threads -> Nat]
    BY <1>27, <2>1 DEF EnqueueTestThread, EnqueueNew, Threads, Statuses
  <2> QED  BY <1>27, <2>1, <2>2 DEF EnqueueTestThread, EnqueueNew, signalVars,
      Threads
<1>28. ASSUME ShellForeground PROVE TypeOK'
  <2>1. current' \in Threads /\ status' \in [Threads -> Statuses]
    BY <1>28, ScheduleType DEF ShellForeground, KernelSchedule
  <2> QED  BY <1>28, <2>1 DEF ShellForeground, KernelSchedule, AtKernel,
      PidRead, queueVars, birthVars, signalVars, Threads
<1>29. ASSUME ShellJoin PROVE TypeOK'
  <2>1. current' \in Threads /\ status' \in [Threads -> Statuses]
    BY <1>29, ScheduleType DEF ShellJoin, KernelSchedule
  <2>2. at' \in [Threads -> {"user", "ret", "waitpid", "usleep", "reap", "yield",
                         "poll", "pid", "enq", "fg", "note", "join", "work"}]
        /\ cmd' \in {"none", "exec", "test"} /\ testPids' \subseteq Nat
        /\ tried' \in Nat /\ UNCHANGED created
    <3>1. CASE \A p \in testPids : Finished(p)
      BY <1>29, <3>1 DEF ShellJoin
    <3>2. CASE ~\A p \in testPids : Finished(p)
      BY <1>29, <3>2 DEF ShellJoin
    <3> QED BY <3>1, <3>2
  <2> QED  BY <1>29, <2>1, <2>2 DEF ShellJoin, KernelSchedule, queueVars,
      birthVars, signalVars, Threads
<1>30. ASSUME ShellGiveUp PROVE TypeOK'
  <2>1. CASE cmd = "test"
    BY <1>30, <2>1, NoteType DEF ShellGiveUp, queueVars, birthVars, signalVars
  <2>2. CASE cmd # "test"
    BY <1>30, <2>2 DEF ShellGiveUp, queueVars, birthVars, signalVars
  <2> QED  BY <2>1, <2>2
<1>34. ASSUME NoStdio PROVE TypeOK'
  BY <1>34 DEF NoStdio, AtKernel, queueVars, birthVars, signalVars, Threads
<1>35. ASSUME ShellNote PROVE TypeOK'
  <2>1. PICK p \in PidRead : Note({p})
    BY <1>35 DEF ShellNote
  <2>2. {p} \in SUBSET Nat
    BY <2>1 DEF PidRead, Threads
  <2>3. /\ testPids' \subseteq Nat /\ tried' \in Nat
        /\ at' \in [Threads -> {"user", "ret", "waitpid", "usleep", "reap", "yield",
                        "poll", "pid", "enq", "fg", "note", "join", "work"}]
    BY <2>1, <2>2, NoteType
  <2> QED  BY <1>35, <2>3 DEF ShellNote, AtKernel, queueVars, birthVars,
      signalVars, Threads
<1>31. ASSUME NEW t \in Slots, TestTurn(t) PROVE TypeOK'
  <2>1. CASE arg[t] > 0
    <3>1. current' \in Threads /\ status' \in [Threads -> Statuses]
      BY <1>31, <2>1, ScheduleType DEF TestTurn
    <3>2. arg[t] - 1 \in Nat
      BY <2>1 DEF Threads
    <3> QED  BY <1>31, <2>1, <3>1, <3>2 DEF TestTurn, queueVars, birthVars,
        signalVars, shellVars, Threads
  <2>2. CASE ~(arg[t] > 0)
    BY <1>31, <2>2, ThreadExitType DEF TestTurn, queueVars, birthVars,
        signalVars, shellVars, Threads
  <2> QED  BY <2>1, <2>2
<1>32. ASSUME NEW st \in {status, Awake}, Interrupt(st) PROVE TypeOK'
  BY <1>32, ScheduleType, AwakeType DEF Interrupt, queueVars, birthVars,
      signalVars, shellVars, Threads, Statuses
<1>33. CASE UNCHANGED vars
  BY <1>33 DEF vars, queueVars, birthVars, signalVars, shellVars
<1> QED
  BY <1>1, <1>2, <1>3, <1>4, <1>5, <1>6, <1>7, <1>8, <1>9, <1>10, <1>11, <1>12,
      <1>13, <1>14, <1>15, <1>16, <1>17, <1>18, <1>19, <1>20, <1>21, <1>22,
      <1>23, <1>24, <1>25, <1>26, <1>27, <1>28, <1>29, <1>30, <1>31, <1>32,
      <1>33, <1>34, <1>35 DEF Next, UserCall, KernelStep, ShellStep, IdleStep,
      TimerInterrupt, ExternalInterrupt

LEMMA NewThreadStep ==
  ASSUME TypeOK, NewThreadOK, [Next]_vars
  PROVE  NewThreadOK'
<1> USE SchedAssumption DEF TypeOK
<1>1. ASSUME NEW t \in Slots, NEW s \in Slots, Fork(t, s) PROVE NewThreadOK'
  BY <1>1 DEF Fork, NewThreadOK, Free, InUser, shellVars, Threads
<1>2. ASSUME NEW t \in Slots, Exec(t) PROVE NewThreadOK'
  BY <1>2 DEF Exec, NewThreadOK, InUser, Return, queueVars, birthVars,
      shellVars, Threads
<1>3. ASSUME NEW t \in Slots, NEW p \in Pids, WaitpidNow(t, p)
      PROVE  NewThreadOK'
  BY <1>3 DEF WaitpidNow, NewThreadOK, InUser, Return, queueVars, birthVars,
      signalVars, shellVars, Threads
<1>4. ASSUME NEW t \in Slots, NEW p \in Pids, WaitpidBlock(t, p)
      PROVE  NewThreadOK'
  BY <1>4 DEF WaitpidBlock, NewThreadOK, InUser, queueVars, birthVars,
      signalVars, shellVars, Threads
<1>5. ASSUME NEW t \in Slots, WaitpidReturn(t) PROVE NewThreadOK'
  BY <1>5 DEF WaitpidReturn, NewThreadOK, Return, queueVars, birthVars,
      signalVars, shellVars, Threads
<1>6. ASSUME NEW t \in Slots, Exit(t) PROVE NewThreadOK'
  BY <1>6 DEF Exit, NewThreadOK, InUser, queueVars, birthVars, signalVars,
      shellVars, Threads
<1>7. ASSUME NEW t \in Slots, NEW p \in Pids, Stop(t, p) PROVE NewThreadOK'
  BY <1>7 DEF Stop, NewThreadOK, InUser, Return, TerminateOther, queueVars,
      birthVars, signalVars, shellVars, Threads
<1>8. ASSUME NEW t \in Slots, Yield(t) PROVE NewThreadOK'
  BY <1>8 DEF Yield, NewThreadOK, InUser, Return, queueVars, birthVars,
      signalVars, shellVars, Threads
<1>9. ASSUME NEW t \in Slots, Usleep(t) PROVE NewThreadOK'
  BY <1>9 DEF Usleep, NewThreadOK, InUser, queueVars, birthVars,
      signalVars, shellVars, Threads
<1>10. ASSUME NEW t \in Slots, ReturnAtOnce(t) PROVE NewThreadOK'
  BY <1>10 DEF ReturnAtOnce, InUser, NewThreadOK, Return, queueVars, birthVars,
      signalVars, shellVars, Threads
<1>11. ASSUME NEW t \in Slots, UsleepReturn(t) PROVE NewThreadOK'
  BY <1>11 DEF UsleepReturn, NewThreadOK, Return, queueVars, birthVars,
      signalVars, shellVars, Threads
<1>12. ASSUME NEW t \in Slots, TimePasses(t) PROVE NewThreadOK'
  BY <1>12 DEF TimePasses, NewThreadOK, queueVars, birthVars, signalVars,
      shellVars, Threads
<1>13. ASSUME NEW t \in Slots, NEW sig \in Sigs, Signal(t, sig)
      PROVE  NewThreadOK'
  BY <1>13 DEF Signal, NewThreadOK, InUser, Return, queueVars, birthVars,
      shellVars, Threads
<1>14. ASSUME NEW t \in Slots, NEW p \in Pids, NEW sig \in Sigs, KillHandled(t, p, sig)
      PROVE  NewThreadOK'
  BY <1>14 DEF KillHandled, NewThreadOK, InUser, Return, queueVars, birthVars,
      shellVars, Threads
<1>15. ASSUME NEW t \in Slots, NEW p \in Pids, NEW sig \in Sigs, KillDefault(t, p, sig)
      PROVE  NewThreadOK'
  BY <1>15 DEF KillDefault, NewThreadOK, InUser, Return, TerminateOther,
      queueVars, birthVars, signalVars, shellVars, Threads
<1>16. ASSUME NEW t \in Slots, SigReturn(t) PROVE NewThreadOK'
  BY <1>16 DEF SigReturn, NewThreadOK, InUser, Return, queueVars, birthVars,
      shellVars, Threads
<1>17. ASSUME NEW t \in Slots, ReturnPlain(t) PROVE NewThreadOK'
  BY <1>17 DEF ReturnPlain, NewThreadOK, AtReturn, queueVars, birthVars,
      signalVars, shellVars, Threads
<1>18. ASSUME NEW t \in Slots, ReturnToHandler(t) PROVE NewThreadOK'
  BY <1>18 DEF ReturnToHandler, NewThreadOK, AtReturn, queueVars, birthVars,
      shellVars, Threads
<1>19. ASSUME NEW t \in Slots, ReturnTerminated(t) PROVE NewThreadOK'
  BY <1>19 DEF ReturnTerminated, NewThreadOK, AtReturn, queueVars, birthVars,
      shellVars, Threads
<1>20. ASSUME NEW reused \in SUBSET Free, Reap(reused) PROVE NewThreadOK'
  BY <1>20 DEF Reap, NewThreadOK, AtKernel, shellVars, Threads
<1>21. ASSUME IdleYield PROVE NewThreadOK'
  BY <1>21 DEF IdleYield, NewThreadOK, AtKernel, KernelSchedule, queueVars,
      birthVars, signalVars, shellVars, Threads
<1>22. ASSUME ShellTurn PROVE NewThreadOK'
  BY <1>22 DEF ShellTurn, NewThreadOK, AtKernel, KernelSchedule, queueVars,
      birthVars, signalVars, shellVars, Threads
<1>23. ASSUME NEW c \in Commands, ShellBegin(c) PROVE NewThreadOK'
  BY <1>23 DEF ShellBegin, NewThreadOK, AtKernel, queueVars, birthVars,
      signalVars, Threads
<1>24. ASSUME NEW s \in Slots, ShellAlloc(s) PROVE NewThreadOK'
  BY <1>24 DEF ShellAlloc, NewThreadOK, Free, AtKernel, queueVars, birthVars,
      signalVars, Threads
<1>25. ASSUME ShellStorePid PROVE NewThreadOK'
  BY <1>25 DEF ShellStorePid, NewThreadOK, AtKernel, queueVars, signalVars,
      shellVars, Threads
<1>26. ASSUME EnqueueProcess PROVE NewThreadOK'
  BY <1>26 DEF EnqueueProcess, NewThreadOK, AtKernel, EnqueueNew, signalVars,
      Threads
<1>27. ASSUME EnqueueTestThread PROVE NewThreadOK'
  BY <1>27 DEF EnqueueTestThread, NewThreadOK, AtKernel, EnqueueNew,
      signalVars, Threads
<1>28. ASSUME ShellForeground PROVE NewThreadOK'
  BY <1>28 DEF ShellForeground, NewThreadOK, AtKernel, KernelSchedule,
      queueVars, birthVars, signalVars, Threads
<1>29. ASSUME ShellJoin PROVE NewThreadOK'
  BY <1>29 DEF ShellJoin, NewThreadOK, AtKernel, KernelSchedule, queueVars,
      birthVars, signalVars, Threads
<1>30. ASSUME ShellGiveUp PROVE NewThreadOK'
  BY <1>30 DEF ShellGiveUp, Note, NewThreadOK, AtKernel, queueVars, birthVars,
      signalVars, Threads
<1>34. ASSUME NoStdio PROVE NewThreadOK'
  BY <1>34 DEF NoStdio, NewThreadOK, AtKernel, queueVars, birthVars,
      signalVars, Threads
<1>35. ASSUME ShellNote PROVE NewThreadOK'
  BY <1>35 DEF ShellNote, Note, NewThreadOK, AtKernel, queueVars, birthVars,
      signalVars, Threads
<1>31. ASSUME NEW t \in Slots, TestTurn(t) PROVE NewThreadOK'
  BY <1>31 DEF TestTurn, NewThreadOK, AtKernel, queueVars, birthVars,
      signalVars, shellVars, Threads
<1>32. ASSUME NEW st \in {status, Awake}, Interrupt(st) PROVE NewThreadOK'
  BY <1>32 DEF Interrupt, NewThreadOK, queueVars, birthVars, signalVars,
      shellVars, Threads
<1>33. CASE UNCHANGED vars
  BY <1>33 DEF NewThreadOK, queueVars, birthVars, signalVars, shellVars, vars,
      Threads
<1> QED
  BY <1>1, <1>2, <1>3, <1>4, <1>5, <1>6, <1>7, <1>8, <1>9, <1>10, <1>11, <1>12,
      <1>13, <1>14, <1>15, <1>16, <1>17, <1>18, <1>19, <1>20, <1>21, <1>22,
      <1>23, <1>24, <1>25, <1>26, <1>27, <1>28, <1>29, <1>30, <1>31, <1>32,
      <1>33, <1>34, <1>35
     DEF Next, UserCall, KernelStep, ShellStep, IdleStep, TimerInterrupt,
         ExternalInterrupt

LEMMA ScheduleRunning ==
  ASSUME Idle \in queued, queued' = queued,
         NEW st \in [Threads -> Statuses], Schedule(st),
         \A u \in Threads : st[u] = "RUNNING" => u = current
  PROVE  OneRunning'
  BY DEF Schedule, IsNext, Runnable, OneRunning

LEMMA EndedRunning ==
  ASSUME TypeOK, OneRunning, NEW child
  PROVE  \A u \in Threads : Ended(child)[u] = "RUNNING" => u = current /\ u # child
  BY DEF Ended, Woken, OneRunning, Statuses


LEMMA RunningStep ==
  ASSUME TypeOK, NewThreadOK, Idle \in queued, OneRunning, [Next]_vars
  PROVE  OneRunning'
<1> USE SchedAssumption DEF TypeOK
<1>1. ASSUME NEW t \in Slots, NEW s \in Slots, Fork(t, s) PROVE OneRunning'
  BY <1>1 DEF Fork, InUser, Free, OneRunning, Threads
<1>2. ASSUME NEW t \in Slots, Exec(t) PROVE OneRunning'
  BY <1>2 DEF Exec, OneRunning, InUser, Return, queueVars, birthVars,
      shellVars, Threads
<1>3. ASSUME NEW t \in Slots, NEW p \in Pids, WaitpidNow(t, p)
      PROVE  OneRunning'
  BY <1>3 DEF WaitpidNow, OneRunning, InUser, Return, queueVars, birthVars,
      signalVars, shellVars, Threads
<1>4. ASSUME NEW t \in Slots, NEW p \in Pids, WaitpidBlock(t, p)
      PROVE  OneRunning'
  <2>1. [status EXCEPT ![t] = "WAITING"] \in [Threads -> Statuses]
    BY DEF Statuses
  <2>2. \A u \in Threads : [status EXCEPT ![t] = "WAITING"][u] = "RUNNING" => u = current
    BY DEF OneRunning
  <2> QED  BY <1>4, <2>1, <2>2, ScheduleRunning DEF WaitpidBlock, queueVars
<1>5. ASSUME NEW t \in Slots, WaitpidReturn(t) PROVE OneRunning'
  BY <1>5 DEF WaitpidReturn, OneRunning, Return, queueVars, birthVars,
      signalVars, shellVars, Threads
<1>6. ASSUME NEW t \in Slots, Exit(t) PROVE OneRunning'
  BY <1>6, EndedType, EndedRunning, ScheduleRunning DEF Exit, ThreadExit,
      queueVars
<1>7. ASSUME NEW t \in Slots, NEW p \in Pids, Stop(t, p) PROVE OneRunning'
  <2>1. CASE Find(p) = t
    BY <1>7, <2>1, EndedType, EndedRunning, ScheduleRunning
       DEF Stop, ThreadExit, queueVars
  <2>2. CASE Find(p) # t
    <3>1. status' = Ended(Find(p)) /\ current' = t /\ current = t
      BY <1>7, <2>2 DEF Stop, TerminateOther, InUser
    <3> QED
      BY <1>7, <2>2, <3>1 DEF Stop, OneRunning, Ended, Woken, queueVars,
          Threads
  <2> QED  BY <2>1, <2>2
<1>8. ASSUME NEW t \in Slots, Yield(t) PROVE OneRunning'
  <2>1. status \in [Threads -> Statuses]
    BY DEF Statuses
  <2>2. \A u \in Threads : status[u] = "RUNNING" => u = current
    BY DEF OneRunning
  <2> QED  BY <1>8, <2>1, <2>2, ScheduleRunning DEF Yield, queueVars
<1>9. ASSUME NEW t \in Slots, Usleep(t) PROVE OneRunning'
  <2>1. [status EXCEPT ![t] = "SLEEPING"] \in [Threads -> Statuses]
    BY DEF Statuses
  <2>2. \A u \in Threads : [status EXCEPT ![t] = "SLEEPING"][u] = "RUNNING" => u = current
    BY DEF OneRunning
  <2> QED  BY <1>9, <2>1, <2>2, ScheduleRunning DEF Usleep,
      queueVars
<1>10. ASSUME NEW t \in Slots, ReturnAtOnce(t) PROVE OneRunning'
  BY <1>10 DEF ReturnAtOnce, InUser, OneRunning, Return, queueVars, birthVars,
      signalVars, shellVars, Threads
<1>11. ASSUME NEW t \in Slots, UsleepReturn(t) PROVE OneRunning'
  BY <1>11 DEF UsleepReturn, OneRunning, Return, queueVars, birthVars,
      signalVars, shellVars, Threads
<1>12. ASSUME NEW t \in Slots, TimePasses(t) PROVE OneRunning'
  BY <1>12 DEF TimePasses, OneRunning, queueVars, birthVars, signalVars,
      shellVars, Threads
<1>13. ASSUME NEW t \in Slots, NEW sig \in Sigs, Signal(t, sig)
      PROVE  OneRunning'
  BY <1>13 DEF Signal, OneRunning, InUser, Return, queueVars, birthVars,
      shellVars, Threads
<1>14. ASSUME NEW t \in Slots, NEW p \in Pids, NEW sig \in Sigs, KillHandled(t, p, sig)
      PROVE  OneRunning'
  BY <1>14 DEF KillHandled, OneRunning, InUser, Return, queueVars, birthVars,
      shellVars, Threads
<1>15. ASSUME NEW t \in Slots, NEW p \in Pids, NEW sig \in Sigs, KillDefault(t, p, sig)
      PROVE  OneRunning'
  <2>1. CASE Find(p) = t
    BY <1>15, <2>1, EndedType, EndedRunning, ScheduleRunning
       DEF KillDefault, ThreadExit, queueVars
  <2>2. CASE Find(p) # t
    <3>1. status' = Ended(Find(p)) /\ current' = t /\ current = t
      BY <1>15, <2>2 DEF KillDefault, TerminateOther, InUser
    <3> QED
      BY <1>15, <2>2, <3>1 DEF KillDefault, OneRunning, Ended, Woken,
          queueVars, Threads
  <2> QED  BY <2>1, <2>2
<1>16. ASSUME NEW t \in Slots, SigReturn(t) PROVE OneRunning'
  BY <1>16 DEF SigReturn, OneRunning, InUser, Return, queueVars, birthVars,
      shellVars, Threads
<1>17. ASSUME NEW t \in Slots, ReturnPlain(t) PROVE OneRunning'
  BY <1>17 DEF ReturnPlain, OneRunning, AtReturn, queueVars, birthVars,
      signalVars, shellVars, Threads
<1>18. ASSUME NEW t \in Slots, ReturnToHandler(t) PROVE OneRunning'
  BY <1>18 DEF ReturnToHandler, OneRunning, AtReturn, queueVars, birthVars,
      shellVars, Threads
<1>19. ASSUME NEW t \in Slots, ReturnTerminated(t) PROVE OneRunning'
  BY <1>19, EndedType, EndedRunning, ScheduleRunning DEF ReturnTerminated,
      ThreadExit, queueVars
<1>20. ASSUME NEW reused \in SUBSET Free, Reap(reused) PROVE OneRunning'
  <2>1. \A u \in Zombies(reused) : u \in queued /\ status[u] = "TERMINATED"
    BY DEF Zombies
  <2>2. current' = current /\ status' = status /\ queued' = queued \ Zombies(reused)
    BY <1>20 DEF Reap
  <2> QED  BY <2>1, <2>2 DEF OneRunning
<1>21. ASSUME IdleYield PROVE OneRunning'
  <2>1. status \in [Threads -> Statuses]
    BY DEF Statuses
  <2>2. \A u \in Threads : status[u] = "RUNNING" => u = current
    BY DEF OneRunning
  <2> QED  BY <1>21, <2>1, <2>2, ScheduleRunning DEF IdleYield, KernelSchedule,
      queueVars
<1>22. ASSUME ShellTurn PROVE OneRunning'
  <2>1. status \in [Threads -> Statuses]
    BY DEF Statuses
  <2>2. \A u \in Threads : status[u] = "RUNNING" => u = current
    BY DEF OneRunning
  <2> QED  BY <1>22, <2>1, <2>2, ScheduleRunning DEF ShellTurn, KernelSchedule,
      queueVars
<1>23. ASSUME NEW c \in Commands, ShellBegin(c) PROVE OneRunning'
  BY <1>23 DEF ShellBegin, OneRunning, AtKernel, queueVars, birthVars,
      signalVars, Threads
<1>24. ASSUME NEW s \in Slots, ShellAlloc(s) PROVE OneRunning'
  BY <1>24 DEF ShellAlloc, OneRunning, AtKernel, queueVars, birthVars,
      signalVars, Threads
<1>25. ASSUME ShellStorePid PROVE OneRunning'
  BY <1>25 DEF ShellStorePid, OneRunning, AtKernel, queueVars, signalVars,
      shellVars, Threads
<1>26. ASSUME EnqueueProcess PROVE OneRunning'
  <2>1. newThread # current
    BY DEF NewThreadOK, OneRunning
  <2> QED  BY <1>26, <2>1 DEF EnqueueProcess, EnqueueNew, OneRunning
<1>27. ASSUME EnqueueTestThread PROVE OneRunning'
  <2>1. newThread # current
    BY DEF NewThreadOK, OneRunning
  <2> QED  BY <1>27, <2>1 DEF EnqueueTestThread, EnqueueNew, OneRunning
<1>28. ASSUME ShellForeground PROVE OneRunning'
  <2>1. status \in [Threads -> Statuses]
    BY DEF Statuses
  <2>2. \A u \in Threads : status[u] = "RUNNING" => u = current
    BY DEF OneRunning
  <2> QED  BY <1>28, <2>1, <2>2, ScheduleRunning DEF ShellForeground,
      KernelSchedule, queueVars
<1>29. ASSUME ShellJoin PROVE OneRunning'
  <2>1. status \in [Threads -> Statuses]
    BY DEF Statuses
  <2>2. \A u \in Threads : status[u] = "RUNNING" => u = current
    BY DEF OneRunning
  <2> QED  BY <1>29, <2>1, <2>2, ScheduleRunning DEF ShellJoin, KernelSchedule,
      queueVars
<1>30. ASSUME ShellGiveUp PROVE OneRunning'
  BY <1>30 DEF ShellGiveUp, OneRunning, AtKernel, queueVars, birthVars,
      signalVars, Threads
<1>34. ASSUME NoStdio PROVE OneRunning'
  BY <1>34 DEF NoStdio, OneRunning, queueVars
<1>35. ASSUME ShellNote PROVE OneRunning'
  BY <1>35 DEF ShellNote, OneRunning, queueVars
<1>31. ASSUME NEW t \in Slots, TestTurn(t) PROVE OneRunning'
  <2>1. \A u \in Threads : status[u] = "RUNNING" => u = current
    BY DEF OneRunning
  <2> QED
    BY <1>31, <2>1, EndedType, EndedRunning, ScheduleRunning
       DEF TestTurn, ThreadExit, queueVars
<1>32. ASSUME NEW st \in {status, Awake}, Interrupt(st) PROVE OneRunning'
  <2>1. \A u \in Threads : st[u] = "RUNNING" => u = current
    BY <1>32, AwakeType DEF OneRunning
  <2>2. st \in [Threads -> Statuses]
    BY <1>32, AwakeType
  <2> QED  BY <1>32, <2>1, <2>2, ScheduleRunning DEF Interrupt, queueVars
<1>33. CASE UNCHANGED vars
  BY <1>33 DEF OneRunning, queueVars, birthVars, signalVars, shellVars, vars,
      Threads
<1> QED
  BY <1>1, <1>2, <1>3, <1>4, <1>5, <1>6, <1>7, <1>8, <1>9, <1>10, <1>11, <1>12,
      <1>13, <1>14, <1>15, <1>16, <1>17, <1>18, <1>19, <1>20, <1>21, <1>22,
      <1>23, <1>24, <1>25, <1>26, <1>27, <1>28, <1>29, <1>30, <1>31, <1>32,
      <1>33, <1>34, <1>35
     DEF Next, UserCall, KernelStep, ShellStep, IdleStep, TimerInterrupt,
         ExternalInterrupt

(* The idle thread can always run, so schedule() always finds a thread.      *)
IdleOK == Idle \in queued /\ status[Idle] \in {"READY", "RUNNING"}

LEMMA ScheduleKeeps ==
  ASSUME Idle \in queued, queued \subseteq Threads,
         NEW st \in [Threads -> Statuses], Schedule(st),
         st[Idle] \in {"READY", "RUNNING"}
  PROVE  \A u \in Threads :
           /\ st[u] \in {"READY", "RUNNING"} => status'[u] \in {"READY", "RUNNING"}
           /\ st[u] \notin {"READY", "RUNNING"} => status'[u] = st[u]
<1>1. Idle \in Runnable(st)
  BY DEF Runnable
<1>2. PICK next \in Threads :
        /\ IsNext(st, next)
        /\ status' = [u \in Threads |->
                        IF u = next THEN "RUNNING"
                        ELSE IF u = current /\ st[u] = "RUNNING" THEN "READY"
                        ELSE st[u]]
  BY DEF Schedule
<1>3. st[next] \in {"READY", "RUNNING"}
  BY <1>1, <1>2 DEF IsNext, Runnable
<1> QED  BY <1>2, <1>3

LEMMA EndedKeeps ==
  ASSUME TypeOK, NEW child
  PROVE  \A u \in Threads :
           /\ Ended(child)[u] = "TERMINATED" <=> u = child \/ status[u] = "TERMINATED"
           /\ Ended(child)[u] = "WAITING" =>
                /\ status[u] = "WAITING" /\ u \notin Woken(child)
                /\ WaitingAfter(child)[u] = waitingPid[u]
           /\ status[u] \in {"READY", "RUNNING"} /\ u # child =>
                Ended(child)[u] \in {"READY", "RUNNING"}
  BY DEF Ended, WaitingAfter, Woken, TypeOK, Statuses

(* What a step may not do: terminated threads stay so until they are freed.  *)
StaysTerminated ==
  \A t \in queued : status[t] = "TERMINATED" =>
    status'[t] = "TERMINATED" \/ t \notin queued'


LEMMA TerminatedStep ==
  ASSUME TypeOK, NewThreadOK, OneRunning, IdleOK, [Next]_vars
  PROVE  IdleOK' /\ StaysTerminated
<1> USE SchedAssumption DEF TypeOK
<1>1. ASSUME NEW t \in Slots, NEW s \in Slots, Fork(t, s)
      PROVE  IdleOK' /\ StaysTerminated
  BY <1>1 DEF Fork, Free, IdleOK, StaysTerminated, Threads
<1>2. ASSUME NEW t \in Slots, Exec(t) PROVE IdleOK' /\ StaysTerminated
  BY <1>2 DEF Exec, IdleOK, StaysTerminated, queueVars
<1>3. ASSUME NEW t \in Slots, NEW p \in Pids, WaitpidNow(t, p)
      PROVE  IdleOK' /\ StaysTerminated
  BY <1>3 DEF WaitpidNow, IdleOK, StaysTerminated, queueVars
<1>4. ASSUME NEW t \in Slots, NEW p \in Pids, WaitpidBlock(t, p)
      PROVE  IdleOK' /\ StaysTerminated
  <2>1. [status EXCEPT ![t] = "WAITING"] \in [Threads -> Statuses]
    BY DEF Statuses
  <2>2. t # Idle /\ t = current /\ status[t] = "RUNNING"
    BY <1>4 DEF WaitpidBlock, InUser, OneRunning, Threads
  <2> QED
    BY <1>4, <2>1, <2>2, ScheduleKeeps DEF WaitpidBlock, IdleOK,
        StaysTerminated, queueVars
<1>5. ASSUME NEW t \in Slots, WaitpidReturn(t) PROVE IdleOK' /\ StaysTerminated
  BY <1>5 DEF WaitpidReturn, IdleOK, StaysTerminated, queueVars
<1>6. ASSUME NEW t \in Slots, Exit(t) PROVE IdleOK' /\ StaysTerminated
  <2>1. current # Idle /\ current \in Threads
    BY <1>6 DEF Exit, InUser, Threads
  <2>2. Ended(current)[Idle] \in {"READY", "RUNNING"}
    BY <2>1, EndedKeeps DEF IdleOK
  <2>3. \A u \in Threads : status[u] = "TERMINATED" =>
                             Ended(current)[u] = "TERMINATED"
    BY EndedKeeps
  <2> QED
    BY <1>6, <2>2, <2>3, EndedType, ScheduleKeeps
       DEF Exit, ThreadExit, IdleOK, StaysTerminated, queueVars
<1>7. ASSUME NEW t \in Slots, NEW p \in Pids, Stop(t, p)
      PROVE  IdleOK' /\ StaysTerminated
  <2>1. Find(p) # Idle
    BY <1>7 DEF Stop, Threads
  <2>2. Ended(Find(p))[Idle] \in {"READY", "RUNNING"}
    BY <2>1, EndedKeeps DEF IdleOK
  <2>3. \A u \in Threads : status[u] = "TERMINATED" =>
                             Ended(Find(p))[u] = "TERMINATED"
    BY EndedKeeps
  <2>4. CASE Find(p) = t
    <3>1. Schedule(Ended(Find(p))) /\ queued' = queued
      BY <1>7, <2>4 DEF Stop, InUser, ThreadExit, queueVars
    <3> QED  BY <2>2, <2>3, <3>1, EndedType, ScheduleKeeps DEF IdleOK,
        StaysTerminated
  <2>5. CASE Find(p) # t
    BY <1>7, <2>2, <2>3, <2>5 DEF Stop, TerminateOther, IdleOK,
        StaysTerminated, queueVars
  <2> QED  BY <2>4, <2>5
<1>8. ASSUME NEW t \in Slots, Yield(t) PROVE IdleOK' /\ StaysTerminated
  BY <1>8, ScheduleKeeps DEF Yield, IdleOK, StaysTerminated, queueVars
<1>9. ASSUME NEW t \in Slots, Usleep(t) PROVE IdleOK' /\ StaysTerminated
  <2>1. [status EXCEPT ![t] = "SLEEPING"] \in [Threads -> Statuses]
    BY DEF Statuses
  <2>2. t # Idle /\ t = current /\ status[t] = "RUNNING"
    BY <1>9 DEF Usleep, InUser, OneRunning, Threads
  <2> QED
    BY <1>9, <2>1, <2>2, ScheduleKeeps DEF Usleep, IdleOK,
        StaysTerminated, queueVars
<1>10. ASSUME NEW t \in Slots, ReturnAtOnce(t) PROVE IdleOK' /\ StaysTerminated
  BY <1>10 DEF ReturnAtOnce, InUser, IdleOK, StaysTerminated, queueVars
<1>11. ASSUME NEW t \in Slots, UsleepReturn(t) PROVE IdleOK' /\ StaysTerminated
  BY <1>11 DEF UsleepReturn, IdleOK, StaysTerminated, queueVars
<1>12. ASSUME NEW t \in Slots, TimePasses(t) PROVE IdleOK' /\ StaysTerminated
  BY <1>12 DEF TimePasses, IdleOK, StaysTerminated, queueVars
<1>13. ASSUME NEW t \in Slots, NEW sig \in Sigs, Signal(t, sig)
      PROVE  IdleOK' /\ StaysTerminated
  BY <1>13 DEF Signal, IdleOK, StaysTerminated, queueVars
<1>14. ASSUME NEW t \in Slots, NEW p \in Pids, NEW sig \in Sigs, KillHandled(t, p, sig)
      PROVE  IdleOK' /\ StaysTerminated
  BY <1>14 DEF KillHandled, IdleOK, StaysTerminated, queueVars
<1>15. ASSUME NEW t \in Slots, NEW p \in Pids, NEW sig \in Sigs, KillDefault(t, p, sig)
      PROVE  IdleOK' /\ StaysTerminated
  <2>1. Find(p) # Idle
    BY <1>15 DEF KillDefault, Threads
  <2>2. Ended(Find(p))[Idle] \in {"READY", "RUNNING"}
    BY <2>1, EndedKeeps DEF IdleOK
  <2>3. \A u \in Threads : status[u] = "TERMINATED" =>
                             Ended(Find(p))[u] = "TERMINATED"
    BY EndedKeeps
  <2>4. CASE Find(p) = t
    <3>1. Schedule(Ended(Find(p))) /\ queued' = queued
      BY <1>15, <2>4 DEF KillDefault, InUser, ThreadExit, queueVars
    <3> QED  BY <2>2, <2>3, <3>1, EndedType, ScheduleKeeps DEF IdleOK,
        StaysTerminated
  <2>5. CASE Find(p) # t
    BY <1>15, <2>2, <2>3, <2>5 DEF KillDefault, TerminateOther, IdleOK,
        StaysTerminated, queueVars
  <2> QED  BY <2>4, <2>5
<1>16. ASSUME NEW t \in Slots, SigReturn(t) PROVE IdleOK' /\ StaysTerminated
  BY <1>16 DEF SigReturn, IdleOK, StaysTerminated, queueVars
<1>17. ASSUME NEW t \in Slots, ReturnPlain(t) PROVE IdleOK' /\ StaysTerminated
  BY <1>17 DEF ReturnPlain, IdleOK, StaysTerminated, queueVars
<1>18. ASSUME NEW t \in Slots, ReturnToHandler(t)
      PROVE  IdleOK' /\ StaysTerminated
  BY <1>18 DEF ReturnToHandler, IdleOK, StaysTerminated, queueVars
<1>19. ASSUME NEW t \in Slots, ReturnTerminated(t)
      PROVE  IdleOK' /\ StaysTerminated
  <2>1. current # Idle /\ current \in Threads
    BY <1>19 DEF ReturnTerminated, AtReturn, Threads
  <2>2. Ended(current)[Idle] \in {"READY", "RUNNING"}
    BY <2>1, EndedKeeps DEF IdleOK
  <2>3. \A u \in Threads : status[u] = "TERMINATED" =>
                             Ended(current)[u] = "TERMINATED"
    BY EndedKeeps
  <2> QED
    BY <1>19, <2>2, <2>3, EndedType, ScheduleKeeps
       DEF ReturnTerminated, ThreadExit, IdleOK, StaysTerminated, queueVars
<1>20. ASSUME NEW reused \in SUBSET Free, Reap(reused)
      PROVE  IdleOK' /\ StaysTerminated
  BY <1>20 DEF Reap, Zombies, IdleOK, StaysTerminated
<1>21. ASSUME IdleYield PROVE IdleOK' /\ StaysTerminated
  BY <1>21, ScheduleKeeps DEF IdleYield, KernelSchedule, IdleOK,
      StaysTerminated, queueVars
<1>22. ASSUME ShellTurn PROVE IdleOK' /\ StaysTerminated
  BY <1>22, ScheduleKeeps DEF ShellTurn, KernelSchedule, IdleOK,
      StaysTerminated, queueVars
<1>23. ASSUME NEW c \in Commands, ShellBegin(c)
      PROVE  IdleOK' /\ StaysTerminated
  BY <1>23 DEF ShellBegin, IdleOK, StaysTerminated, queueVars
<1>24. ASSUME NEW s \in Slots, ShellAlloc(s) PROVE IdleOK' /\ StaysTerminated
  BY <1>24 DEF ShellAlloc, IdleOK, StaysTerminated, queueVars
<1>25. ASSUME ShellStorePid PROVE IdleOK' /\ StaysTerminated
  BY <1>25 DEF ShellStorePid, IdleOK, StaysTerminated, queueVars
<1>26. ASSUME EnqueueProcess PROVE IdleOK' /\ StaysTerminated
  <2>1. newThread # Idle
    BY DEF NewThreadOK, IdleOK
  <2> QED  BY <1>26, <2>1 DEF EnqueueProcess, EnqueueNew, NewThreadOK, IdleOK,
      StaysTerminated
<1>27. ASSUME EnqueueTestThread PROVE IdleOK' /\ StaysTerminated
  <2>1. newThread # Idle
    BY DEF NewThreadOK, IdleOK
  <2> QED  BY <1>27, <2>1 DEF EnqueueTestThread, EnqueueNew, NewThreadOK,
      IdleOK, StaysTerminated
<1>28. ASSUME ShellForeground PROVE IdleOK' /\ StaysTerminated
  BY <1>28, ScheduleKeeps DEF ShellForeground, KernelSchedule, IdleOK,
      StaysTerminated, queueVars
<1>29. ASSUME ShellJoin PROVE IdleOK' /\ StaysTerminated
  BY <1>29, ScheduleKeeps DEF ShellJoin, KernelSchedule, IdleOK,
      StaysTerminated, queueVars
<1>30. ASSUME ShellGiveUp PROVE IdleOK' /\ StaysTerminated
  BY <1>30 DEF ShellGiveUp, IdleOK, StaysTerminated, queueVars
<1>34. ASSUME NoStdio PROVE IdleOK' /\ StaysTerminated
  BY <1>34 DEF NoStdio, IdleOK, StaysTerminated, queueVars
<1>35. ASSUME ShellNote PROVE IdleOK' /\ StaysTerminated
  BY <1>35 DEF ShellNote, IdleOK, StaysTerminated, queueVars
<1>31. ASSUME NEW t \in Slots, TestTurn(t) PROVE IdleOK' /\ StaysTerminated
  <2>1. current = t /\ t # Idle /\ queued' = queued
    BY <1>31 DEF TestTurn, AtKernel, queueVars, Threads
  <2>2. CASE Schedule(status)
    BY <2>1, <2>2, ScheduleKeeps DEF IdleOK, StaysTerminated
  <2>3. CASE Schedule(Ended(current))
    <3>1. Ended(current)[Idle] \in {"READY", "RUNNING"}
      BY <2>1, EndedKeeps DEF IdleOK
    <3>2. \A u \in Threads : status[u] = "TERMINATED" =>
                               Ended(current)[u] = "TERMINATED"
      BY EndedKeeps
    <3> QED  BY <2>1, <2>3, <3>1, <3>2, EndedType, ScheduleKeeps DEF IdleOK,
        StaysTerminated
  <2> QED  BY <1>31, <2>2, <2>3 DEF TestTurn, ThreadExit
<1>32. ASSUME NEW st \in {status, Awake}, Interrupt(st)
      PROVE  IdleOK' /\ StaysTerminated
  <2>1. st \in [Threads -> Statuses] /\ st[Idle] \in {"READY", "RUNNING"}
        /\ \A u \in Threads : status[u] = "TERMINATED" => st[u] = "TERMINATED"
    BY <1>32, AwakeType DEF Awake, IdleOK
  <2> QED  BY <1>32, <2>1, ScheduleKeeps DEF Interrupt, IdleOK,
      StaysTerminated, queueVars
<1>33. CASE UNCHANGED vars
  BY <1>33 DEF IdleOK, StaysTerminated, queueVars, birthVars, signalVars,
      shellVars, vars, Threads
<1> QED
  BY <1>1, <1>2, <1>3, <1>4, <1>5, <1>6, <1>7, <1>8, <1>9, <1>10, <1>11, <1>12,
      <1>13, <1>14, <1>15, <1>16, <1>17, <1>18, <1>19, <1>20, <1>21, <1>22,
      <1>23, <1>24, <1>25, <1>26, <1>27, <1>28, <1>29, <1>30, <1>31, <1>32,
      <1>33, <1>34, <1>35
     DEF Next, UserCall, KernelStep, ShellStep, IdleStep, TimerInterrupt,
         ExternalInterrupt

(* The part of the invariant that does not depend on pids.                   *)
SchedInv == TypeOK /\ NewThreadOK /\ IdleOK /\ OneRunning

LEMMA SchedInvInit == Init => SchedInv
<1>1. Init => TypeOK
  BY SchedAssumption DEF Init, TypeOK, Threads, Statuses
<1>2. Init => NewThreadOK /\ IdleOK /\ OneRunning
  BY SchedAssumption DEF Init, NewThreadOK, IdleOK, OneRunning, Threads
<1> QED  BY <1>1, <1>2 DEF SchedInv

LEMMA SchedInvStep == SchedInv /\ [Next]_vars => SchedInv' /\ StaysTerminated
  BY TypeStep, NewThreadStep, RunningStep, TerminatedStep DEF SchedInv, IdleOK

THEOREM SchedInvariant == Spec => []SchedInv
  BY SchedInvInit, SchedInvStep, PTL DEF Spec

(* Every variable keeps its type.                                            *)
THEOREM TypeCorrect == Spec => []TypeOK
<1>1. SchedInv => TypeOK
  BY DEF SchedInv
<1> QED  BY <1>1, SchedInvariant, PTL

(* The hart runs the one RUNNING thread and that thread is never freed.      *)
THEOREM HartRunsOne == Spec => []OneRunning
<1>1. SchedInv => OneRunning
  BY DEF SchedInv
<1> QED  BY <1>1, SchedInvariant, PTL

(* Terminated is for ever: no wakeup, signal or schedule() revives a thread. *)
THEOREM TerminatedForEver == Spec => NoRevival
<1>1. SchedInv /\ [Next]_vars => [StaysTerminated]_vars
  BY SchedInvStep
<1>2. Spec => [][StaysTerminated]_vars
  BY <1>1, SchedInvariant, PTL DEF Spec
<1> QED  BY <1>2 DEF NoRevival, StaysTerminated

-----------------------------------------------------------------------------
(* Pids.  "g_next_pid++" by the shell is not atomic: AtomicPid assumes that  *)
(* no interrupt falls inside it.                                             *)

(* A pid identifies one thread of the run queue (scheduler_find returns the  *)
(* first holder only).                                                       *)
PidsUnique == \A t, u \in queued : pid[t] = pid[u] => t = u

ShellAt(pc) == Shell \in queued \ users /\ at[Shell] = pc

PidOK ==
  /\ \A t \in queued : pid[t] < nextPid
  /\ PidsUnique
  /\ ShellAt("pid") => current = Shell /\ loadedPid = nextPid
  /\ ShellAt("enq") => /\ loadedPid < nextPid
                      /\ \A t \in queued : pid[t] # loadedPid

LEMMA PidInit == Init => PidOK
  BY SchedAssumption DEF Init, PidOK, PidsUnique, ShellAt, Threads

LEMMA PidStep ==
  ASSUME AtomicPid, TypeOK, NewThreadOK, PidOK, [Next]_vars
  PROVE  PidOK'
<1> USE SchedAssumption DEF TypeOK
<1>1. ASSUME NEW t \in Slots, NEW s \in Slots, Fork(t, s) PROVE PidOK'
  <2>1. /\ ~ShellAt("pid") /\ s \notin queued
        /\ at'[Shell] \in {at[Shell], "ret"} /\ (s = Shell => at'[Shell] = "ret")
    BY <1>1 DEF Fork, InUser, Free, PidOK, PidsUnique, ShellAt, Threads
  <2>2. /\ queued' = queued \cup {s} /\ nextPid' = nextPid + 1
        /\ users' = users \cup {s} /\ loadedPid' = loadedPid
        /\ \A u \in queued : pid'[u] = pid[u]
        /\ pid'[s] = nextPid
    BY <1>1, <2>1 DEF Fork, Threads, shellVars
  <2> QED  BY <2>1, <2>2 DEF PidOK, PidsUnique, ShellAt
<1>2. ASSUME NEW t \in Slots, Exec(t) PROVE PidOK'
  BY <1>2 DEF Exec, PidOK, PidsUnique, ShellAt, InUser, Return, queueVars,
      birthVars, shellVars, Threads
<1>3. ASSUME NEW t \in Slots, NEW p \in Pids, WaitpidNow(t, p) PROVE PidOK'
  BY <1>3 DEF WaitpidNow, PidOK, PidsUnique, ShellAt, InUser, Return,
      queueVars, birthVars, signalVars, shellVars, Threads
<1>4. ASSUME NEW t \in Slots, NEW p \in Pids, WaitpidBlock(t, p) PROVE PidOK'
  BY <1>4 DEF WaitpidBlock, PidOK, PidsUnique, ShellAt, InUser, queueVars,
      birthVars, signalVars, shellVars, Threads
<1>5. ASSUME NEW t \in Slots, WaitpidReturn(t) PROVE PidOK'
  BY <1>5 DEF WaitpidReturn, PidOK, PidsUnique, ShellAt, Return, queueVars,
      birthVars, signalVars, shellVars, Threads
<1>6. ASSUME NEW t \in Slots, Exit(t) PROVE PidOK'
  BY <1>6 DEF Exit, PidOK, PidsUnique, ShellAt, InUser, queueVars, birthVars,
      signalVars, shellVars, Threads
<1>7. ASSUME NEW t \in Slots, NEW p \in Pids, Stop(t, p) PROVE PidOK'
  BY <1>7 DEF Stop, PidOK, PidsUnique, ShellAt, InUser, Return, TerminateOther,
      queueVars, birthVars, signalVars, shellVars, Threads
<1>8. ASSUME NEW t \in Slots, Yield(t) PROVE PidOK'
  BY <1>8 DEF Yield, PidOK, PidsUnique, ShellAt, InUser, Return, queueVars,
      birthVars, signalVars, shellVars, Threads
<1>9. ASSUME NEW t \in Slots, Usleep(t) PROVE PidOK'
  BY <1>9 DEF Usleep, PidOK, PidsUnique, ShellAt, InUser, queueVars,
      birthVars, signalVars, shellVars, Threads
<1>10. ASSUME NEW t \in Slots, ReturnAtOnce(t) PROVE PidOK'
  BY <1>10 DEF ReturnAtOnce, InUser, PidOK, PidsUnique, ShellAt, Return, queueVars,
      birthVars, signalVars, shellVars, Threads
<1>11. ASSUME NEW t \in Slots, UsleepReturn(t) PROVE PidOK'
  BY <1>11 DEF UsleepReturn, PidOK, PidsUnique, ShellAt, Return, queueVars,
      birthVars, signalVars, shellVars, Threads
<1>12. ASSUME NEW t \in Slots, TimePasses(t) PROVE PidOK'
  BY <1>12 DEF TimePasses, PidOK, PidsUnique, ShellAt, queueVars, birthVars,
      signalVars, shellVars, Threads
<1>13. ASSUME NEW t \in Slots, NEW sig \in Sigs, Signal(t, sig) PROVE PidOK'
  BY <1>13 DEF Signal, PidOK, PidsUnique, ShellAt, InUser, Return, queueVars,
      birthVars, shellVars, Threads
<1>14. ASSUME NEW t \in Slots, NEW p \in Pids, NEW sig \in Sigs, KillHandled(t, p, sig)
      PROVE  PidOK'
  BY <1>14 DEF KillHandled, PidOK, PidsUnique, ShellAt, InUser, Return,
      queueVars, birthVars, shellVars, Threads
<1>15. ASSUME NEW t \in Slots, NEW p \in Pids, NEW sig \in Sigs, KillDefault(t, p, sig)
      PROVE  PidOK'
  BY <1>15 DEF KillDefault, PidOK, PidsUnique, ShellAt, InUser, Return,
      TerminateOther, queueVars, birthVars, signalVars, shellVars, Threads
<1>16. ASSUME NEW t \in Slots, SigReturn(t) PROVE PidOK'
  BY <1>16 DEF SigReturn, PidOK, PidsUnique, ShellAt, InUser, Return,
      queueVars, birthVars, shellVars, Threads
<1>17. ASSUME NEW t \in Slots, ReturnPlain(t) PROVE PidOK'
  BY <1>17 DEF ReturnPlain, PidOK, PidsUnique, ShellAt, AtReturn, queueVars,
      birthVars, signalVars, shellVars, Threads
<1>18. ASSUME NEW t \in Slots, ReturnToHandler(t) PROVE PidOK'
  BY <1>18 DEF ReturnToHandler, PidOK, PidsUnique, ShellAt, AtReturn,
      queueVars, birthVars, shellVars, Threads
<1>19. ASSUME NEW t \in Slots, ReturnTerminated(t) PROVE PidOK'
  BY <1>19 DEF ReturnTerminated, PidOK, PidsUnique, ShellAt, AtReturn,
      queueVars, birthVars, shellVars, Threads
<1>20. ASSUME NEW reused \in SUBSET Free, Reap(reused) PROVE PidOK'
  <2>1. current = Idle /\ ~ShellAt("pid")
    BY <1>20 DEF Reap, AtKernel, PidOK, PidsUnique, ShellAt
  <2>2. /\ queued' = queued \ Zombies(reused) /\ nextPid' = nextPid
        /\ loadedPid' = loadedPid /\ users' = users \ Zombies(reused)
        /\ \A u \in queued' : pid'[u] = pid[u]
        /\ Shell \in queued' => at'[Shell] = at[Shell]
    BY <1>20 DEF Reap, shellVars, Threads
  <2> QED  BY <2>1, <2>2 DEF PidOK, PidsUnique, ShellAt
<1>21. ASSUME IdleYield PROVE PidOK'
  BY <1>21 DEF IdleYield, PidOK, PidsUnique, ShellAt, AtKernel, KernelSchedule,
      queueVars, birthVars, signalVars, shellVars, Threads
<1>22. ASSUME ShellTurn PROVE PidOK'
  BY <1>22 DEF ShellTurn, PidOK, PidsUnique, ShellAt, AtKernel, KernelSchedule,
      queueVars, birthVars, signalVars, shellVars, Threads
<1>23. ASSUME NEW c \in Commands, ShellBegin(c) PROVE PidOK'
  BY <1>23 DEF ShellBegin, PidOK, PidsUnique, ShellAt, AtKernel, queueVars,
      birthVars, signalVars, Threads
<1>24. ASSUME NEW s \in Slots, ShellAlloc(s) PROVE PidOK'
  BY <1>24 DEF ShellAlloc, PidOK, PidsUnique, ShellAt, AtKernel, queueVars,
      birthVars, signalVars, Threads
<1>25. ASSUME ShellStorePid PROVE PidOK'
  BY <1>25 DEF ShellStorePid, PidOK, PidsUnique, ShellAt, AtKernel, queueVars,
      signalVars, shellVars, Threads
<1>26. ASSUME EnqueueProcess PROVE PidOK'
  <2>1. ShellAt("enq") /\ current = Shell /\ newThread \in Slots
    BY <1>26 DEF EnqueueProcess, EnqueueNew, AtKernel, ShellAt, NewThreadOK
  <2>2. /\ queued' = queued \cup {newThread} /\ nextPid' = nextPid
        /\ \A t \in queued : pid'[t] = pid[t]
        /\ pid'[newThread] = loadedPid
    BY <1>26, <2>1 DEF EnqueueProcess, EnqueueNew, NewThreadOK, Threads
  <2>3. at'[Shell] \notin {"pid", "enq"}
    BY <1>26, <2>1 DEF EnqueueProcess, Threads
  <2> QED  BY <2>1, <2>2, <2>3 DEF PidOK, PidsUnique, ShellAt
<1>27. ASSUME EnqueueTestThread PROVE PidOK'
  <2>1. ShellAt("enq") /\ current = Shell /\ newThread \in Slots
    BY <1>27 DEF EnqueueTestThread, EnqueueNew, AtKernel, ShellAt, NewThreadOK
  <2>2. /\ queued' = queued \cup {newThread} /\ nextPid' = nextPid
        /\ \A t \in queued : pid'[t] = pid[t]
        /\ pid'[newThread] = loadedPid
    BY <1>27, <2>1 DEF EnqueueTestThread, EnqueueNew, NewThreadOK, Threads
  <2>3. at'[Shell] \notin {"pid", "enq"}
    BY <1>27, <2>1 DEF EnqueueTestThread, Threads
  <2> QED  BY <2>1, <2>2, <2>3 DEF PidOK, PidsUnique, ShellAt
<1>28. ASSUME ShellForeground PROVE PidOK'
  BY <1>28 DEF ShellForeground, PidOK, PidsUnique, ShellAt, AtKernel,
      KernelSchedule, queueVars, birthVars, signalVars, Threads
<1>29. ASSUME ShellJoin PROVE PidOK'
  BY <1>29 DEF ShellJoin, PidOK, PidsUnique, ShellAt, AtKernel, KernelSchedule,
      queueVars, birthVars, signalVars, Threads
<1>30. ASSUME ShellGiveUp PROVE PidOK'
  BY <1>30 DEF ShellGiveUp, Note, PidOK, PidsUnique, ShellAt, AtKernel,
      queueVars, birthVars, signalVars, Threads
<1>34. ASSUME NoStdio PROVE PidOK'
  BY <1>34 DEF NoStdio, PidOK, PidsUnique, ShellAt, AtKernel, queueVars,
      birthVars, signalVars, Threads
<1>35. ASSUME ShellNote PROVE PidOK'
  BY <1>35 DEF ShellNote, Note, PidOK, PidsUnique, ShellAt, AtKernel,
      queueVars, birthVars, signalVars, Threads
<1>31. ASSUME NEW t \in Slots, TestTurn(t) PROVE PidOK'
  BY <1>31 DEF TestTurn, PidOK, PidsUnique, ShellAt, AtKernel, queueVars,
      birthVars, signalVars, shellVars, Threads
<1>32. ASSUME NEW st \in {status, Awake}, Interrupt(st) PROVE PidOK'
  <2>1. ~ShellAt("pid")
    BY <1>32 DEF Interrupt, Interruptible, PidOK, PidsUnique, ShellAt
  <2> QED
    BY <1>32, <2>1 DEF Interrupt, PidOK, PidsUnique, ShellAt, queueVars,
        birthVars, shellVars
<1>33. CASE UNCHANGED vars
  BY <1>33 DEF PidOK, PidsUnique, ShellAt, queueVars, birthVars, signalVars,
      shellVars, vars, Threads
<1> QED
  BY <1>1, <1>2, <1>3, <1>4, <1>5, <1>6, <1>7, <1>8, <1>9, <1>10, <1>11, <1>12,
      <1>13, <1>14, <1>15, <1>16, <1>17, <1>18, <1>19, <1>20, <1>21, <1>22,
      <1>23, <1>24, <1>25, <1>26, <1>27, <1>28, <1>29, <1>30, <1>31, <1>32,
      <1>33, <1>34, <1>35
     DEF Next, UserCall, KernelStep, ShellStep, IdleStep, TimerInterrupt,
         ExternalInterrupt

LEMMA PidInvariant ==
  ASSUME AtomicPid PROVE Spec => [](SchedInv /\ PidOK)
<1>1. Init => SchedInv /\ PidOK
  BY SchedInvInit, PidInit
<1>2. SchedInv /\ PidOK /\ [Next]_vars => (SchedInv /\ PidOK)'
  BY SchedInvStep, PidStep DEF SchedInv
<1> QED  BY <1>1, <1>2, PTL DEF Spec

-----------------------------------------------------------------------------
(* Wakeups.                                                                  *)

LEMMA FindHolder ==
  ASSUME TypeOK, PidsUnique, NEW c \in queued
  PROVE  Find(pid[c]) = c
<1>1. Holders(pid[c]) = {c}
  BY DEF Holders, PidsUnique
<1>2. stamp[c] <= stamp[c]
  BY DEF TypeOK
<1> QED  BY <1>1, <1>2 DEF Find

(* schedule() makes nobody wait and terminates nobody.                       *)
LEMMA ScheduleWaits ==
  ASSUME TypeOK, IdleOK, NEW st \in [Threads -> Statuses], Schedule(st),
         st[Idle] \in {"READY", "RUNNING"}
  PROVE  \A u \in Threads : /\ status'[u] = "WAITING" <=> st[u] = "WAITING"
                            /\ status'[u] = "TERMINATED" <=> st[u] = "TERMINATED"
  BY ScheduleKeeps DEF TypeOK, IdleOK

(* A thread that is terminated wakes a parent waiting for it.                *)
LEMMA EndedWakes ==
  ASSUME TypeOK, NoLostWakeup, NEW child,
         NEW t \in queued, NEW c \in queued,
         Ended(child)[t] = "WAITING", parent[c] = t,
         pid[c] = WaitingAfter(child)[t]
  PROVE  Ended(child)[c] # "TERMINATED"
<1>1. t \in Threads /\ c \in Threads
  BY DEF TypeOK
<1>2. status[t] = "WAITING" /\ t \notin Woken(child) /\ waitingPid[t] = pid[c]
  BY <1>1, EndedKeeps
<1>3. status[c] # "TERMINATED" /\ c # child
  BY <1>1, <1>2 DEF NoLostWakeup, Woken
<1> QED  BY <1>1, <1>3, EndedKeeps

LEMMA ExitWakes ==
  ASSUME TypeOK, IdleOK, NoLostWakeup, ThreadExit, current # Idle,
         queued' = queued, pid' = pid, parent' = parent
  PROVE  NoLostWakeup'
<1>1. Ended(current)[Idle] \in {"READY", "RUNNING"}
  BY EndedKeeps DEF IdleOK, Threads
<1>2. \A u \in Threads :
        /\ status'[u] = "WAITING" <=> Ended(current)[u] = "WAITING"
        /\ status'[u] = "TERMINATED" <=> Ended(current)[u] = "TERMINATED"
  BY <1>1, EndedType, ScheduleWaits DEF ThreadExit
<1>3. waitingPid' = WaitingAfter(current) /\ queued \subseteq Threads
  BY DEF ThreadExit, TypeOK
<1>4. SUFFICES ASSUME NEW t \in queued, NEW c \in queued, status'[t] = "WAITING",
                      parent[c] = t, pid[c] = WaitingAfter(current)[t]
               PROVE  status'[c] # "TERMINATED"
  BY <1>3 DEF NoLostWakeup
<1> QED  BY <1>2, <1>3, <1>4, EndedWakes

LEMMA WakeupStep ==
  ASSUME TypeOK, NewThreadOK, IdleOK, OneRunning, PidOK, NoLostWakeup, [Next]_vars
  PROVE  NoLostWakeup'
<1> USE SchedAssumption DEF TypeOK
<1>1. ASSUME NEW t \in Slots, NEW s \in Slots, Fork(t, s) PROVE NoLostWakeup'
  <2>1. s \notin queued /\ s # t /\ t = current
    BY <1>1 DEF Fork, Free, InUser, OneRunning
  <2>2. /\ queued' = queued \cup {s} /\ status' = [status EXCEPT ![s] = "READY"]
        /\ parent' = [parent EXCEPT ![s] = t] /\ waitingPid' = [waitingPid EXCEPT ![s] = -1]
        /\ \A u \in queued : pid'[u] = pid[u]
    BY <1>1, <2>1 DEF Fork, Threads
  <2> QED  BY <2>1, <2>2 DEF NoLostWakeup, OneRunning, Threads
<1>2. ASSUME NEW t \in Slots, Exec(t) PROVE NoLostWakeup'
  BY <1>2 DEF Exec, NoLostWakeup, queueVars, birthVars
<1>3. ASSUME NEW t \in Slots, NEW p \in Pids, WaitpidNow(t, p)
      PROVE  NoLostWakeup'
  <2>1. \A u \in queued : parent'[u] \in {parent[u], NULL}
    BY <1>3 DEF WaitpidNow, Collect
  <2> QED
    BY <1>3, <2>1, SchedAssumption DEF WaitpidNow, NoLostWakeup, queueVars,
        birthVars, Threads
<1>4. ASSUME NEW t \in Slots, NEW p \in Pids, WaitpidBlock(t, p)
      PROVE  NoLostWakeup'
  <2> DEFINE st == [status EXCEPT ![t] = "WAITING"]
  <2>1. st \in [Threads -> Statuses] /\ st[Idle] \in {"READY", "RUNNING"}
    BY DEF Statuses, IdleOK, Threads
  <2>2. \A u \in Threads : /\ status'[u] = "WAITING" <=> st[u] = "WAITING"
                           /\ status'[u] = "TERMINATED" <=> st[u] = "TERMINATED"
    BY <1>4, <2>1, ScheduleWaits DEF WaitpidBlock
  <2>3. \A c \in queued : pid[c] = p => status[c] # "TERMINATED"
    BY <1>4, FindHolder DEF WaitpidBlock, Finished, PidOK
  <2>4. /\ queued' = queued /\ pid' = pid /\ parent' = parent
        /\ waitingPid' = [waitingPid EXCEPT ![t] = p]
    BY <1>4 DEF WaitpidBlock, queueVars, birthVars
  <2> QED  BY <2>2, <2>3, <2>4 DEF NoLostWakeup, Threads
<1>5. ASSUME NEW t \in Slots, WaitpidReturn(t) PROVE NoLostWakeup'
  <2>1. \A u \in queued : parent'[u] \in {parent[u], NULL}
    BY <1>5 DEF WaitpidReturn, Collect
  <2> QED
    BY <1>5, <2>1, SchedAssumption DEF WaitpidReturn, NoLostWakeup, queueVars,
        birthVars, Threads
<1>6. ASSUME NEW t \in Slots, Exit(t) PROVE NoLostWakeup'
  BY <1>6, ExitWakes DEF Exit, InUser, queueVars, birthVars, Threads
<1>7. ASSUME NEW t \in Slots, NEW p \in Pids, Stop(t, p) PROVE NoLostWakeup'
  <2>1. CASE Find(p) = t
    BY <1>7, <2>1, ExitWakes
       DEF Stop, InUser, queueVars, birthVars, Threads
  <2>2. CASE Find(p) # t
    <3>1. /\ status' = Ended(Find(p)) /\ waitingPid' = WaitingAfter(Find(p))
          /\ queued' = queued /\ pid' = pid /\ parent' = parent
      BY <1>7, <2>2 DEF Stop, TerminateOther, queueVars, birthVars
    <3> QED  BY <3>1, EndedWakes DEF NoLostWakeup
  <2> QED  BY <2>1, <2>2
<1>8. ASSUME NEW t \in Slots, Yield(t) PROVE NoLostWakeup'
  BY <1>8, ScheduleWaits DEF Yield, NoLostWakeup, IdleOK, queueVars, birthVars
<1>9. ASSUME NEW t \in Slots, Usleep(t) PROVE NoLostWakeup'
  <2> DEFINE st == [status EXCEPT ![t] = "SLEEPING"]
  <2>1. st \in [Threads -> Statuses] /\ st[Idle] \in {"READY", "RUNNING"}
    BY DEF Statuses, IdleOK, Threads
  <2>2. \A u \in Threads : /\ status'[u] = "WAITING" <=> st[u] = "WAITING"
                           /\ status'[u] = "TERMINATED" <=> st[u] = "TERMINATED"
    BY <1>9, <2>1, ScheduleWaits DEF Usleep
  <2>3. /\ queued' = queued /\ pid' = pid /\ parent' = parent
        /\ waitingPid' = waitingPid
    BY <1>9 DEF Usleep, queueVars, birthVars
  <2> QED  BY <2>2, <2>3 DEF NoLostWakeup, Threads
<1>10. ASSUME NEW t \in Slots, ReturnAtOnce(t) PROVE NoLostWakeup'
  BY <1>10 DEF ReturnAtOnce, InUser, NoLostWakeup, queueVars, birthVars
<1>11. ASSUME NEW t \in Slots, UsleepReturn(t) PROVE NoLostWakeup'
  BY <1>11 DEF UsleepReturn, NoLostWakeup, queueVars, birthVars
<1>12. ASSUME NEW t \in Slots, TimePasses(t) PROVE NoLostWakeup'
  BY <1>12 DEF TimePasses, NoLostWakeup, queueVars, birthVars
<1>13. ASSUME NEW t \in Slots, NEW sig \in Sigs, Signal(t, sig)
      PROVE  NoLostWakeup'
  BY <1>13 DEF Signal, NoLostWakeup, queueVars, birthVars
<1>14. ASSUME NEW t \in Slots, NEW p \in Pids, NEW sig \in Sigs, KillHandled(t, p, sig)
      PROVE  NoLostWakeup'
  BY <1>14 DEF KillHandled, NoLostWakeup, queueVars, birthVars
<1>15. ASSUME NEW t \in Slots, NEW p \in Pids, NEW sig \in Sigs, KillDefault(t, p, sig)
      PROVE  NoLostWakeup'
  <2>1. CASE Find(p) = t
    BY <1>15, <2>1, ExitWakes
       DEF KillDefault, InUser, queueVars, birthVars, Threads
  <2>2. CASE Find(p) # t
    <3>1. /\ status' = Ended(Find(p)) /\ waitingPid' = WaitingAfter(Find(p))
          /\ queued' = queued /\ pid' = pid /\ parent' = parent
      BY <1>15, <2>2 DEF KillDefault, TerminateOther, queueVars, birthVars
    <3> QED  BY <3>1, EndedWakes DEF NoLostWakeup
  <2> QED  BY <2>1, <2>2
<1>16. ASSUME NEW t \in Slots, SigReturn(t) PROVE NoLostWakeup'
  BY <1>16 DEF SigReturn, NoLostWakeup, queueVars, birthVars
<1>17. ASSUME NEW t \in Slots, ReturnPlain(t) PROVE NoLostWakeup'
  BY <1>17 DEF ReturnPlain, NoLostWakeup, queueVars, birthVars
<1>18. ASSUME NEW t \in Slots, ReturnToHandler(t) PROVE NoLostWakeup'
  BY <1>18 DEF ReturnToHandler, NoLostWakeup, queueVars, birthVars
<1>19. ASSUME NEW t \in Slots, ReturnTerminated(t) PROVE NoLostWakeup'
  BY <1>19, ExitWakes DEF ReturnTerminated, AtReturn, queueVars, birthVars,
      Threads
<1>20. ASSUME NEW reused \in SUBSET Free, Reap(reused) PROVE NoLostWakeup'
  <2>1. /\ queued' = queued \ Zombies(reused) /\ status' = status
        /\ \A u \in queued' : /\ pid'[u] = pid[u] /\ parent'[u] = parent[u]
                              /\ waitingPid'[u] = waitingPid[u]
    BY <1>20 DEF Reap, Threads
  <2> QED  BY <2>1 DEF NoLostWakeup
<1>21. ASSUME IdleYield PROVE NoLostWakeup'
  BY <1>21, ScheduleWaits DEF IdleYield, KernelSchedule, NoLostWakeup, IdleOK,
      queueVars, birthVars
<1>22. ASSUME ShellTurn PROVE NoLostWakeup'
  BY <1>22, ScheduleWaits DEF ShellTurn, KernelSchedule, NoLostWakeup, IdleOK,
      queueVars, birthVars
<1>23. ASSUME NEW c \in Commands, ShellBegin(c) PROVE NoLostWakeup'
  BY <1>23 DEF ShellBegin, NoLostWakeup, queueVars, birthVars
<1>24. ASSUME NEW s \in Slots, ShellAlloc(s) PROVE NoLostWakeup'
  BY <1>24 DEF ShellAlloc, NoLostWakeup, queueVars, birthVars
<1>25. ASSUME ShellStorePid PROVE NoLostWakeup'
  BY <1>25 DEF ShellStorePid, NoLostWakeup, queueVars
<1>26. ASSUME EnqueueProcess PROVE NoLostWakeup'
  <2>1. newThread \in Slots /\ newThread \notin queued
    BY <1>26 DEF EnqueueProcess, EnqueueNew, AtKernel, NewThreadOK
  <2>2. /\ queued' = queued \cup {newThread} /\ waitingPid' = waitingPid
        /\ status' = [status EXCEPT ![newThread] = "READY"]
        /\ \A u \in queued : pid'[u] = pid[u] /\ parent'[u] = parent[u]
    BY <1>26, <2>1 DEF EnqueueProcess, EnqueueNew, Threads
  <2> QED  BY <2>1, <2>2 DEF NoLostWakeup, Threads
<1>27. ASSUME EnqueueTestThread PROVE NoLostWakeup'
  <2>1. newThread \in Slots /\ newThread \notin queued
    BY <1>27 DEF EnqueueTestThread, EnqueueNew, AtKernel, NewThreadOK
  <2>2. /\ queued' = queued \cup {newThread} /\ waitingPid' = waitingPid
        /\ status' = [status EXCEPT ![newThread] = "READY"]
        /\ \A u \in queued : pid'[u] = pid[u] /\ parent'[u] = parent[u]
    BY <1>27, <2>1 DEF EnqueueTestThread, EnqueueNew, Threads
  <2> QED  BY <2>1, <2>2 DEF NoLostWakeup, Threads
<1>28. ASSUME ShellForeground PROVE NoLostWakeup'
  BY <1>28, ScheduleWaits DEF ShellForeground, KernelSchedule, NoLostWakeup,
      IdleOK, queueVars, birthVars
<1>29. ASSUME ShellJoin PROVE NoLostWakeup'
  BY <1>29, ScheduleWaits DEF ShellJoin, KernelSchedule, NoLostWakeup, IdleOK,
      queueVars, birthVars
<1>30. ASSUME ShellGiveUp PROVE NoLostWakeup'
  BY <1>30 DEF ShellGiveUp, NoLostWakeup, queueVars, birthVars
<1>34. ASSUME NoStdio PROVE NoLostWakeup'
  BY <1>34 DEF NoStdio, NoLostWakeup, queueVars, birthVars
<1>35. ASSUME ShellNote PROVE NoLostWakeup'
  BY <1>35 DEF ShellNote, NoLostWakeup, queueVars, birthVars
<1>31. ASSUME NEW t \in Slots, TestTurn(t) PROVE NoLostWakeup'
  <2>1. CASE arg[t] > 0
    BY <1>31, <2>1, ScheduleWaits
       DEF TestTurn, NoLostWakeup, IdleOK, queueVars, birthVars
  <2>2. CASE ~(arg[t] > 0)
    BY <1>31, <2>2, ExitWakes DEF TestTurn, AtKernel, queueVars, birthVars,
        Threads
  <2> QED  BY <2>1, <2>2
<1>32. ASSUME NEW st \in {status, Awake}, Interrupt(st) PROVE NoLostWakeup'
  <2>1. st \in [Threads -> Statuses] /\ st[Idle] \in {"READY", "RUNNING"}
        /\ \A u \in Threads :
             /\ st[u] = "WAITING" <=> status[u] = "WAITING"
             /\ st[u] = "TERMINATED" <=> status[u] = "TERMINATED"
    BY <1>32, AwakeType DEF Awake, IdleOK
  <2> QED
    BY <1>32, <2>1, ScheduleWaits DEF Interrupt, NoLostWakeup, queueVars,
        birthVars
<1>33. CASE UNCHANGED vars
  BY <1>33 DEF NoLostWakeup, queueVars, birthVars, signalVars, shellVars, vars,
      Threads
<1> QED
  BY <1>1, <1>2, <1>3, <1>4, <1>5, <1>6, <1>7, <1>8, <1>9, <1>10, <1>11, <1>12,
      <1>13, <1>14, <1>15, <1>16, <1>17, <1>18, <1>19, <1>20, <1>21, <1>22,
      <1>23, <1>24, <1>25, <1>26, <1>27, <1>28, <1>29, <1>30, <1>31, <1>32,
      <1>33, <1>34, <1>35
     DEF Next, UserCall, KernelStep, ShellStep, IdleStep, TimerInterrupt,
         ExternalInterrupt

(* A parent asleep in waitpid never sleeps past the end of its child.        *)
THEOREM ParentsAreWoken ==
  ASSUME AtomicPid PROVE Spec => []NoLostWakeup
<1>1. Init => NoLostWakeup
  BY SchedAssumption DEF Init, NoLostWakeup, Threads
<1>2. SchedInv /\ PidOK /\ NoLostWakeup /\ [Next]_vars => NoLostWakeup'
  BY WakeupStep DEF SchedInv
<1> QED  BY <1>1, <1>2, PidInvariant, PTL DEF Spec

-----------------------------------------------------------------------------
(* Why blocked threads run again.  Who waits in waitpid has the number it    *)
(* waits for in waiting_pid, that number has been given out and is not the   *)
(* one of the thread the shell is making; so whoever has it, now or later,   *)
(* is the thread that was meant.                                             *)

Known(p) == p < nextPid /\ (ShellAt("enq") => p # loadedPid)
AllFinished(p) == \A c \in queued : pid[c] = p => status[c] = "TERMINATED"

Waits(t) ==
  /\ status[t] = "WAITING" => at[t] = "waitpid" /\ waitingPid[t] = arg[t]
  /\ status[t] = "SLEEPING" => at[t] = "usleep" /\ pending[t] = {}
  /\ at[t] = "waitpid" =>
       /\ Known(arg[t])
       /\ status[t] \in {"READY", "RUNNING"} =>
            AllFinished(arg[t]) \/ pending[t] # {}
WaitOK == \A t \in queued : Waits(t)

(* Finished asks the thread that scheduler_find comes upon; with pids that   *)
(* identify threads that is every thread of this number.                     *)
LEMMA FinishedAll ==
  ASSUME TypeOK, PidsUnique, NEW p
  PROVE  Finished(p) <=> AllFinished(p)
<1>1. CASE Holders(p) = {}
  BY <1>1 DEF Finished, Find, AllFinished, Holders
<1>2. ASSUME NEW c \in queued, pid[c] = p
      PROVE  Finished(p) <=> AllFinished(p)
  <2>1. Find(p) = c /\ c # NULL
    BY <1>2, FindHolder, SchedAssumption DEF TypeOK, Threads
  <2> QED BY <1>2, <2>1 DEF Finished, AllFinished, PidsUnique
<1> QED BY <1>1, <1>2 DEF Holders

(* Who is in the run queue after a step was there, or has a new number, or   *)
(* is the thread the shell was making.                                       *)
Enters ==
  /\ nextPid' >= nextPid
  /\ \A c \in queued' : \/ c \in queued /\ pid'[c] = pid[c]
                        \/ pid'[c] >= nextPid
                        \/ ShellAt("enq") /\ pid'[c] = loadedPid
  /\ ShellAt("enq")' => \/ ShellAt("enq") /\ loadedPid' = loadedPid
                        \/ ShellAt("pid") /\ loadedPid' = nextPid

LEMMA KnownStays ==
  ASSUME TypeOK, PidOK, TypeOK', StaysTerminated, Enters, NEW p \in Nat, Known(p)
  PROVE  Known(p)' /\ (AllFinished(p) => AllFinished(p)')
<1>1. Known(p)'
  BY DEF TypeOK, PidOK, Enters, Known
<1>2. ASSUME NEW c \in queued', pid'[c] = p, AllFinished(p)
      PROVE  status'[c] = "TERMINATED"
  <2>1. c \in queued /\ pid[c] = p
    BY <1>2 DEF Enters, Known, TypeOK
  <2> QED BY <1>2, <2>1 DEF AllFinished, StaysTerminated
<1> QED BY <1>1, <1>2 DEF AllFinished

(* What a step of another thread may do to t: end it, or let it run again    *)
(* because its time came, a signal is pending or its target is finished.     *)
MovedOn(t) ==
  /\ at'[t] = at[t] /\ arg'[t] = arg[t] /\ pending[t] \subseteq pending'[t]
  /\ \/ status'[t] = "TERMINATED"
     \/ status'[t] = status[t] /\ pending'[t] = pending[t]
        /\ waitingPid'[t] = waitingPid[t]
     \/ {status[t], status'[t]} \subseteq {"READY", "RUNNING"}
     \/ status[t] = "SLEEPING" /\ status'[t] \in {"READY", "RUNNING"}
     \/ /\ status[t] = "WAITING" /\ status'[t] \in {"READY", "RUNNING"}
        /\ pending'[t] # {} \/ AllFinished(arg[t])'

LEMMA MovedWaits ==
  ASSUME TypeOK, PidOK, TypeOK', StaysTerminated, Enters,
         NEW t \in queued, Waits(t), MovedOn(t)
  PROVE  Waits(t)'
<1>1. arg[t] \in Nat /\ status[t] \in Statuses
  BY DEF TypeOK
<1>2. ASSUME at[t] = "waitpid"
      PROVE  Known(arg[t])' /\ (AllFinished(arg[t]) => AllFinished(arg[t])')
  <2>1. Known(arg[t])
    BY <1>2 DEF Waits
  <2> DEFINE p == arg[t]
  <2>2. p \in Nat /\ Known(p)
    BY <1>1, <2>1
  <2>3. arg'[t] = p
    BY DEF MovedOn
  <2>4. \A q \in Nat : Known(q) =>
          /\ q < nextPid' /\ (ShellAt("enq")' => q # loadedPid')
          /\ AllFinished(q) =>
               \A c \in queued' : pid'[c] = q => status'[c] = "TERMINATED"
    BY KnownStays DEF Known, AllFinished
  <2> QED BY <2>2, <2>3, <2>4 DEF Known, AllFinished
<1> QED BY <1>1, <1>2 DEF Waits, MovedOn, Statuses

(* A thread that is back on its way, or ended, waits for nothing.            *)
LEMMA BusyWaits ==
  ASSUME NEW t, \/ at'[t] # "waitpid" /\ status'[t] \notin {"WAITING", "SLEEPING"}
                \/ status'[t] = "TERMINATED" /\ at'[t] # "waitpid"
  PROVE  Waits(t)'
  BY DEF Waits

LEMMA EntersStep ==
  ASSUME TypeOK, NewThreadOK, PidOK, [Next]_vars
  PROVE  Enters
<1> USE SchedAssumption DEF TypeOK
<1> DEFINE Same == UNCHANGED <<queued, pid, nextPid, users, loadedPid>>
<1>1. ASSUME Same, at'[Shell] = "enq" => at[Shell] = "enq"
      PROVE  Enters
  BY <1>1 DEF Enters, ShellAt
<1>2. ASSUME NEW t \in Slots, NEW s \in Slots, Fork(t, s) PROVE Enters
  <2>1. s \notin queued /\ t \in users /\ t \in queued \cup {s} \cup Slots
    BY <1>2 DEF Fork, Free, InUser
  <2>2. /\ nextPid' = nextPid + 1 /\ loadedPid' = loadedPid
        /\ queued' = queued \cup {s} /\ users' = users \cup {s}
        /\ pid' = [pid EXCEPT ![s] = nextPid]
        /\ at' = [at EXCEPT ![s] = "ret", ![t] = "ret"]
    BY <1>2 DEF Fork, shellVars
  <2>3. ShellAt("enq")' => ShellAt("enq")
    BY <2>1, <2>2 DEF ShellAt, Threads
  <2> QED BY <2>1, <2>2, <2>3 DEF Enters, Threads
<1>3. ASSUME NEW reused \in SUBSET Free, Reap(reused) PROVE Enters
  BY <1>3 DEF Reap, Enters, Zombies, ShellAt, AtKernel, shellVars, Threads
<1>4. ASSUME ShellStorePid PROVE Enters
  <2>1. ShellAt("pid")
    BY <1>4 DEF ShellStorePid, AtKernel, ShellAt
  <2> QED BY <1>4, <2>1 DEF ShellStorePid, Enters, PidOK, queueVars, shellVars
<1>5. ASSUME EnqueueProcess \/ EnqueueTestThread PROVE Enters
  <2>1. ShellAt("enq") /\ newThread \in Slots /\ newThread \notin queued
    BY <1>5 DEF EnqueueProcess, EnqueueTestThread, EnqueueNew, AtKernel,
                ShellAt, NewThreadOK
  <2>2. /\ queued' = queued \cup {newThread} /\ nextPid' = nextPid
        /\ pid' = [pid EXCEPT ![newThread] = loadedPid] /\ loadedPid' = loadedPid
    BY <1>5 DEF EnqueueProcess, EnqueueTestThread, EnqueueNew
  <2> QED BY <2>1, <2>2 DEF Enters, Threads
<1>6. ASSUME NEW s \in Slots, ShellAlloc(s) PROVE Enters
  BY <1>6 DEF ShellAlloc, Enters, ShellAt, AtKernel, queueVars, birthVars, Threads
<1>7. ASSUME NEW t \in Slots, UserCall(t), ~\E s \in Slots : Fork(t, s)
      PROVE  Enters
  <2>1. Same /\ at' \in {at, [at EXCEPT ![t] = "ret"], [at EXCEPT ![t] = "waitpid"],
                         [at EXCEPT ![t] = "usleep"]}
    BY <1>7 DEF UserCall, Exec, WaitpidNow, WaitpidBlock, Exit, Stop, Yield,
      Usleep, ReturnAtOnce, Signal, KillHandled, KillDefault, SigReturn, Return,
      TerminateOther, queueVars, birthVars, shellVars
  <2> QED BY <1>1, <2>1 DEF Threads
<1>8. ASSUME NEW t \in Slots, KernelStep(t) \/ TimePasses(t) PROVE Enters
  <2>1. Same /\ at' \in {at, [at EXCEPT ![t] = "ret"], [at EXCEPT ![t] = "user"]}
    BY <1>8 DEF KernelStep, WaitpidReturn, UsleepReturn, ReturnPlain,
      ReturnToHandler, ReturnTerminated, TestTurn, TimePasses, Return,
      queueVars, birthVars, shellVars
  <2> QED BY <1>1, <2>1 DEF Threads
<1>9. ASSUME \/ \E c \in Commands : ShellBegin(c)
             \/ ShellTurn \/ ShellJoin \/ ShellGiveUp
             \/ IdleYield \/ TimerInterrupt \/ ExternalInterrupt
      PROVE  Enters
  <2>1. Same /\ \E t \in Threads :
                  at' \in {at} \cup {[at EXCEPT ![t] = w] :
                             w \in {"poll", "join", "reap", "ret"}}
    BY <1>9 DEF ShellBegin, ShellTurn, ShellJoin, ShellGiveUp, Note, IdleYield,
      TimerInterrupt, ExternalInterrupt, Interrupt, KernelSchedule,
      queueVars, birthVars, shellVars, Threads
  <2> QED BY <1>1, <2>1 DEF Threads
<1>11. ASSUME ShellForeground \/ NoStdio \/ ShellNote PROVE Enters
  <2>1. /\ UNCHANGED <<queued, pid, nextPid, users>>
        /\ at' \in {[at EXCEPT ![Shell] = w] : w \in {"poll", "join"}}
    BY <1>11 DEF ShellForeground, NoStdio, ShellNote, Note, KernelSchedule,
      queueVars, birthVars
  <2> QED BY <2>1 DEF Enters, ShellAt, Threads
<1>10. CASE UNCHANGED vars
  BY <1>1, <1>10 DEF vars, queueVars, birthVars, shellVars
<1> QED BY <1>11, <1>2, <1>3, <1>4, <1>5, <1>6, <1>7, <1>8, <1>9, <1>10
        DEF Next, ShellStep, IdleStep

(* The end of a thread moves on nobody but those who wait for it.            *)
LEMMA EndMoves ==
  ASSUME TypeOK, IdleOK, PidsUnique, NEW child \in queued,
         NEW t \in queued, t # child, Waits(t),
         at'[t] = at[t], arg'[t] = arg[t], pending'[t] = pending[t],
         queued' = queued, pid' = pid, waitingPid' = WaitingAfter(child),
         status'[child] = "TERMINATED",
         \/ status'[t] = Ended(child)[t]
         \/ {status'[t], Ended(child)[t]} \subseteq {"READY", "RUNNING"}
  PROVE  MovedOn(t)
<1>1. t \in Threads /\ child \in Threads
  BY DEF TypeOK
<1>2. CASE t \in Woken(child)
  <2>1. status[t] = "WAITING" /\ arg[t] = pid[child] /\ Ended(child)[t] = "READY"
    BY <1>1, <1>2 DEF Woken, Waits, Ended
  <2>2. \A c \in queued : pid[c] = arg[t] => c = child
    BY <2>1 DEF PidsUnique
  <2>3. AllFinished(arg[t])'
    BY <2>2 DEF AllFinished
  <2> QED BY <2>1, <2>3 DEF MovedOn
<1>3. CASE t \notin Woken(child)
  <2>1. Ended(child)[t] = status[t] /\ waitingPid'[t] = waitingPid[t]
    BY <1>1, <1>3 DEF Ended, WaitingAfter
  <2> QED BY <2>1 DEF MovedOn
<1> QED BY <1>2, <1>3

(* A step by the thread on the hart that leaves statuses and waiters alone.  *)
LEMMA CallWaits ==
  ASSUME TypeOK, OneRunning, PidOK, TypeOK', StaysTerminated, Enters, WaitOK,
         NEW t \in queued, UNCHANGED <<status, waitingPid>>,
         t # current => /\ at'[t] = at[t] /\ arg'[t] = arg[t]
                        /\ pending'[t] = pending[t],
         t = current => at'[t] # "waitpid"
  PROVE  Waits(t)'
<1>1. CASE t = current
  BY <1>1, BusyWaits DEF OneRunning, TypeOK
<1>2. CASE t # current
  <2>1. MovedOn(t)
    BY <1>2 DEF MovedOn
  <2> QED BY <2>1, MovedWaits DEF WaitOK
<1> QED BY <1>1, <1>2

(* A step that ends in schedule(); st is status, or that with sleepers awake.*)
LEMMA ScheduleMoves ==
  ASSUME TypeOK, IdleOK, OneRunning, PidOK, TypeOK', StaysTerminated, Enters,
         WaitOK, NEW t \in queued, NEW st \in {status, Awake}, Schedule(st),
         pending' = pending, waitingPid' = waitingPid,
         t # current => at'[t] = at[t] /\ arg'[t] = arg[t],
         t = current => at'[t] # "waitpid"
  PROVE  Waits(t)'
<1>1. t \in Threads /\ Idle \in Threads /\ queued \subseteq Threads
  BY DEF TypeOK, IdleOK
<1>2. /\ st \in [Threads -> Statuses] /\ st[Idle] \in {"READY", "RUNNING"}
      /\ \/ st[t] = status[t]
         \/ status[t] = "SLEEPING" /\ st[t] = "READY"
  BY <1>1, AwakeType DEF Awake, IdleOK, TypeOK
<1>3. /\ st[t] \in {"READY", "RUNNING"} => status'[t] \in {"READY", "RUNNING"}
      /\ st[t] \notin {"READY", "RUNNING"} => status'[t] = st[t]
  BY <1>1, <1>2, ScheduleKeeps DEF IdleOK
<1>4. CASE t = current
  <2>1. status[t] = "RUNNING"
    BY <1>1, <1>4 DEF OneRunning
  <2> QED BY <1>2, <1>3, <1>4, <2>1, BusyWaits
<1>5. CASE t # current
  <2>1. MovedOn(t)
    BY <1>2, <1>3, <1>5 DEF MovedOn
  <2> QED BY <2>1, MovedWaits DEF WaitOK
<1> QED BY <1>4, <1>5

(* thread_exit by current.                                                   *)
LEMMA ExitWaits ==
  ASSUME SchedInv, PidOK, TypeOK', StaysTerminated, Enters, WaitOK,
         NEW t \in queued, ThreadExit, current # Idle, at[current] # "waitpid",
         at' = at, arg' = arg, queued' = queued, pid' = pid,
         t # current => pending'[t] = pending[t]
  PROVE  Waits(t)'
<1> USE DEF SchedInv
<1>1. t \in Threads /\ Idle \in queued /\ queued \subseteq Threads /\ current \in queued
  BY DEF TypeOK, IdleOK, OneRunning
<1>2. /\ Ended(current) \in [Threads -> Statuses]
      /\ Ended(current)[Idle] \in {"READY", "RUNNING"}
      /\ Ended(current)[current] = "TERMINATED"
  BY <1>1, EndedType, EndedKeeps DEF IdleOK
<1>3. \A u \in Threads :
        /\ Ended(current)[u] \in {"READY", "RUNNING"} => status'[u] \in {"READY", "RUNNING"}
        /\ Ended(current)[u] \notin {"READY", "RUNNING"} => status'[u] = Ended(current)[u]
  BY <1>1, <1>2, ScheduleKeeps DEF ThreadExit
<1>4. status'[current] = "TERMINATED"
  BY <1>1, <1>2, <1>3
<1>5. CASE t = current
  BY <1>4, <1>5, BusyWaits
<1>6. CASE t # current
  <2>1. MovedOn(t)
    BY <1>1, <1>3, <1>4, <1>6, EndMoves DEF ThreadExit, PidOK, WaitOK
  <2> QED BY <2>1, MovedWaits DEF WaitOK
<1> QED BY <1>5, <1>6

(* Another thread is terminated, by stop or a signal.                        *)
LEMMA TerminateWaits ==
  ASSUME SchedInv, PidOK, TypeOK', StaysTerminated, Enters, WaitOK,
         NEW t \in queued, NEW child \in queued, child # current,
         TerminateOther(child), at' = [at EXCEPT ![current] = "ret"],
         arg' = arg, queued' = queued, pid' = pid, pending' = pending
  PROVE  Waits(t)'
<1> USE DEF SchedInv
<1>1. t \in Threads /\ child \in Threads /\ current \in Threads
  BY DEF TypeOK
<1>2. status' = Ended(child) /\ waitingPid' = WaitingAfter(child)
  BY DEF TerminateOther
<1>3. status'[child] = "TERMINATED"
  BY <1>1, <1>2, EndedKeeps
<1>4. CASE t = current
  <2>1. at'[t] = "ret"
    BY <1>1, <1>4 DEF TypeOK
  <2>2. status'[t] \notin {"WAITING", "SLEEPING"}
    BY <1>1, <1>2, <1>4, EndedKeeps DEF OneRunning
  <2> QED BY <2>1, <2>2, BusyWaits
<1>5. CASE t = child
  <2>1. at'[t] = at[t] /\ arg'[t] = arg[t] /\ pending'[t] = pending[t]
    BY <1>1, <1>5 DEF TypeOK
  <2>2. MovedOn(t)
    BY <1>3, <1>5, <2>1 DEF MovedOn
  <2> QED BY <2>2, MovedWaits DEF WaitOK
<1>6. CASE t # current /\ t # child
  <2>1. at'[t] = at[t]
    BY <1>1, <1>6 DEF TypeOK
  <2>2. MovedOn(t)
    BY <1>2, <1>3, <1>6, <2>1, EndMoves DEF PidOK, WaitOK
  <2> QED BY <2>2, MovedWaits DEF WaitOK
<1> QED BY <1>4, <1>5, <1>6

(* syscall_waitpid blocks: what is waited for is in the run queue, so its    *)
(* number is known.                                                          *)
LEMMA BlockWaits ==
  ASSUME SchedInv, PidOK, TypeOK', StaysTerminated, Enters, WaitOK,
         NEW t \in queued, NEW s \in Slots, NEW p \in Pids, WaitpidBlock(s, p)
  PROVE  Waits(t)'
<1> USE DEF SchedInv
<1> DEFINE st == [status EXCEPT ![s] = "WAITING"]
<1>1. /\ s = current /\ Schedule(st) /\ waitingPid' = [waitingPid EXCEPT ![s] = p]
      /\ arg' = [arg EXCEPT ![s] = p] /\ at' = [at EXCEPT ![s] = "waitpid"]
      /\ pending' = pending /\ ~Finished(p)
  BY DEF WaitpidBlock, InUser, signalVars
<1>2. t \in Threads /\ s \in Threads /\ s # Idle /\ Idle \in queued /\ queued \subseteq Threads
  BY SchedAssumption DEF TypeOK, IdleOK, Threads
<1>3. st \in [Threads -> Statuses] /\ st[Idle] \in {"READY", "RUNNING"}
  BY <1>2 DEF Statuses, IdleOK, TypeOK
<1>4. /\ st[t] \in {"READY", "RUNNING"} => status'[t] \in {"READY", "RUNNING"}
      /\ st[t] \notin {"READY", "RUNNING"} => status'[t] = st[t]
  BY <1>1, <1>2, <1>3, ScheduleKeeps
<1>5. CASE t # s
  <2>1. MovedOn(t)
    BY <1>1, <1>2, <1>4, <1>5 DEF MovedOn, TypeOK
  <2> QED BY <2>1, MovedWaits DEF WaitOK
<1>6. CASE t = s
  <2>1. PICK c \in queued : pid[c] = p
    BY <1>1, FinishedAll DEF AllFinished, PidOK
  <2>2. Known(p) /\ p \in Nat
    BY <2>1 DEF PidOK, Known, TypeOK
  <2>3. Known(p)'
    BY <2>2, KnownStays
  <2>4. /\ at'[t] = "waitpid" /\ waitingPid'[t] = p /\ arg'[t] = p
        /\ status'[t] = "WAITING"
    BY <1>1, <1>2, <1>4, <1>6 DEF TypeOK
  <2> QED BY <2>3, <2>4 DEF Waits, Known
<1> QED BY <1>5, <1>6

LEMMA SleepWaits ==
  ASSUME SchedInv, PidOK, TypeOK', StaysTerminated, Enters, WaitOK,
         NEW t \in queued, NEW s \in Slots, Usleep(s)
  PROVE  Waits(t)'
<1> USE DEF SchedInv
<1> DEFINE st == [status EXCEPT ![s] = "SLEEPING"]
<1>1. /\ s = current /\ Schedule(st) /\ waitingPid' = waitingPid /\ arg' = arg
      /\ at' = [at EXCEPT ![s] = "usleep"] /\ pending' = pending /\ pending[s] = {}
  BY DEF Usleep, InUser, signalVars
<1>2. t \in Threads /\ s \in Threads /\ s # Idle /\ Idle \in queued /\ queued \subseteq Threads
  BY SchedAssumption DEF TypeOK, IdleOK, Threads
<1>3. st \in [Threads -> Statuses] /\ st[Idle] \in {"READY", "RUNNING"}
  BY <1>2 DEF Statuses, IdleOK, TypeOK
<1>4. /\ st[t] \in {"READY", "RUNNING"} => status'[t] \in {"READY", "RUNNING"}
      /\ st[t] \notin {"READY", "RUNNING"} => status'[t] = st[t]
  BY <1>1, <1>2, <1>3, ScheduleKeeps
<1>5. CASE t # s
  <2>1. MovedOn(t)
    BY <1>1, <1>2, <1>4, <1>5 DEF MovedOn, TypeOK
  <2> QED BY <2>1, MovedWaits DEF WaitOK
<1>6. CASE t = s
  BY <1>1, <1>2, <1>4, <1>6 DEF Waits, TypeOK
<1> QED BY <1>5, <1>6

LEMMA WaitStep ==
  ASSUME SchedInv, PidOK, TypeOK', StaysTerminated, Enters, WaitOK, [Next]_vars
  PROVE  WaitOK'
<1> SUFFICES ASSUME NEW t \in queued' PROVE Waits(t)'
  BY DEF WaitOK
<1> USE SchedAssumption
<1>inv. /\ TypeOK /\ NewThreadOK /\ IdleOK /\ OneRunning /\ PidsUnique
        /\ current \in queued /\ current \in Threads /\ status[current] = "RUNNING"
  BY DEF SchedInv, TypeOK, OneRunning, PidOK
(* System calls and kernel paths that change no status.                      *)
<1>1. ASSUME NEW s \in Slots,
             \/ Exec(s) \/ ReturnAtOnce(s) \/ SigReturn(s) \/ WaitpidReturn(s)
             \/ UsleepReturn(s) \/ ReturnPlain(s) \/ ReturnToHandler(s)
             \/ \E p \in Pids : WaitpidNow(s, p)
             \/ \E sig \in Sigs : Signal(s, sig)
      PROVE  Waits(t)'
  <2>1. /\ s = current /\ UNCHANGED <<status, waitingPid, queued>>
        /\ at' \in {[at EXCEPT ![s] = "ret"], [at EXCEPT ![s] = "user"]}
    BY <1>1 DEF Exec, ReturnAtOnce, SigReturn, WaitpidReturn, UsleepReturn,
      ReturnPlain, ReturnToHandler, WaitpidNow, Signal, InUser, AtReturn,
      Return, queueVars
  <2>2. t # s => arg'[t] = arg[t] /\ pending'[t] = pending[t]
    BY <1>1, <1>inv DEF Exec, ReturnAtOnce, SigReturn, WaitpidReturn,
      UsleepReturn, ReturnPlain, ReturnToHandler, WaitpidNow, Signal,
      signalVars, TypeOK
  <2> QED BY <2>1, <2>2, <1>inv, CallWaits DEF TypeOK
<1>2. ASSUME NEW s \in Slots, TimePasses(s) PROVE Waits(t)'
  <2>1. /\ UNCHANGED <<status, waitingPid, queued, at, arg, pending>>
    BY <1>2 DEF TimePasses, queueVars, signalVars
  <2>2. t \in queued /\ MovedOn(t)
    BY <2>1 DEF MovedOn
  <2> QED BY <2>2, <1>inv, MovedWaits DEF WaitOK
<1>3. ASSUME NEW s \in Slots, NEW p \in Pids, WaitpidBlock(s, p) PROVE Waits(t)'
  BY <1>3, BlockWaits DEF WaitpidBlock, queueVars
<1>4. ASSUME NEW s \in Slots, Usleep(s) PROVE Waits(t)'
  BY <1>4, SleepWaits DEF Usleep, queueVars
<1>5. ASSUME NEW s \in Slots, Yield(s) PROVE Waits(t)'
  <2>1. /\ s = current /\ Schedule(status) /\ at' = [at EXCEPT ![s] = "ret"]
        /\ UNCHANGED <<queued, waitingPid, pending, arg>>
    BY <1>5 DEF Yield, InUser, Return, queueVars, signalVars
  <2> QED BY <2>1, <1>inv, ScheduleMoves DEF TypeOK
(* Ends.                                                                     *)
<1>6. ASSUME NEW s \in Slots,
             \/ Exit(s) \/ ReturnTerminated(s)
             \/ (TestTurn(s) /\ ~(arg[s] > 0))
             \/ \E p \in Pids : \/ Stop(s, p) /\ Find(p) = s
                                \/ \E sig \in Sigs : KillDefault(s, p, sig) /\ Find(p) = s
      PROVE  Waits(t)'
  <2>1. /\ s = current /\ ThreadExit /\ at[s] # "waitpid" /\ current # Idle
        /\ UNCHANGED <<at, arg, queued, pid>>
    BY <1>6 DEF Exit, ReturnTerminated, TestTurn, Stop, KillDefault, InUser,
      AtReturn, AtKernel, queueVars, birthVars
  <2>2. t # s => pending'[t] = pending[t]
    BY <1>6, <1>inv DEF Exit, ReturnTerminated, TestTurn, Stop, KillDefault,
      signalVars, TypeOK
  <2> QED BY <2>1, <2>2, ExitWaits
<1>7. ASSUME NEW s \in Slots, NEW p \in Pids, Find(p) # s,
             Stop(s, p) \/ \E sig \in Sigs : KillDefault(s, p, sig)
      PROVE  Waits(t)'
  <2>1. Find(p) # NULL
    BY <1>7, <1>inv DEF Stop, KillDefault, TypeOK
  <2>2. Find(p) \in queued
    <3>1. Holders(p) # {} /\ Holders(p) \subseteq queued
      BY <2>1 DEF Find, Holders
    <3>2. PICK c \in queued : pid[c] = p
      BY <3>1 DEF Holders
    <3> QED BY <3>2, <1>inv, FindHolder
  <2>3. /\ s = current /\ TerminateOther(Find(p)) /\ at' = [at EXCEPT ![s] = "ret"]
        /\ UNCHANGED <<arg, queued, pid, pending>>
    BY <1>7 DEF Stop, KillDefault, InUser, Return, queueVars, birthVars, signalVars
  <2> QED BY <1>7, <2>2, <2>3, TerminateWaits
(* A signal with a handler.                                                  *)
<1>8. ASSUME NEW s \in Slots, NEW p \in Pids, NEW sig \in Sigs, KillHandled(s, p, sig)
      PROVE  Waits(t)'
  <2> DEFINE target == Find(p)
  <2>1. /\ s = current /\ at' = [at EXCEPT ![s] = "ret"] /\ arg' = arg
        /\ queued' = queued /\ target \in users
        /\ pending' = [pending EXCEPT ![target] = @ \cup {sig}]
        /\ \A u \in Threads : u # target => /\ status'[u] = status[u]
                                            /\ waitingPid'[u] = waitingPid[u]
        /\ status[target] \in {"SLEEPING", "WAITING"} => status'[target] = "READY"
        /\ status[target] \notin {"SLEEPING", "WAITING"} =>
             status'[target] = status[target] /\ waitingPid'[target] = waitingPid[target]
    BY <1>8, <1>inv DEF KillHandled, InUser, Return, queueVars, TypeOK, Threads
  <2>2. t \in queued /\ t \in Threads /\ target \in Threads /\ status[t] \in Statuses
    BY <2>1, <1>inv DEF TypeOK, Threads
  <2>3. CASE t = current
    <3>1. at'[t] = "ret" /\ status'[t] = "RUNNING"
      BY <2>1, <2>2, <2>3, <1>inv DEF TypeOK
    <3> QED BY <3>1, BusyWaits
  <2>4. CASE t # current
    <3>1. at'[t] = at[t] /\ arg'[t] = arg[t]
      BY <2>1, <2>2, <2>4, <1>inv DEF TypeOK
    <3>2. CASE t # target
      <4>1. MovedOn(t)
        BY <2>1, <2>2, <3>1, <3>2, <1>inv DEF MovedOn, TypeOK
      <4> QED BY <2>2, <4>1, <1>inv, MovedWaits DEF WaitOK
    <3>3. CASE t = target
      <4>1. pending'[t] = pending[t] \cup {sig}
        BY <2>1, <2>2, <3>3, <1>inv DEF TypeOK
      <4>2. MovedOn(t)
        BY <2>1, <2>2, <3>1, <3>3, <4>1 DEF MovedOn, Statuses
      <4> QED BY <2>2, <4>2, <1>inv, MovedWaits DEF WaitOK
    <3> QED BY <3>2, <3>3
  <2> QED BY <2>3, <2>4
(* New threads, and threads that are freed.                                  *)
<1>9. ASSUME NEW s \in Slots, NEW n \in Slots, Fork(s, n) PROVE Waits(t)'
  <2>1. /\ s = current /\ n \notin queued /\ queued' = queued \cup {n}
        /\ status' = [status EXCEPT ![n] = "READY"]
        /\ waitingPid' = [waitingPid EXCEPT ![n] = -1]
        /\ pending' = [pending EXCEPT ![n] = {}]
        /\ at' = [at EXCEPT ![n] = "ret", ![s] = "ret"]
        /\ arg' = [arg EXCEPT ![n] = 0]
    BY <1>9 DEF Fork, Free, InUser
  <2>2. CASE t \in {n, s}
    <3>1. at'[t] = "ret" /\ status'[t] \in {"READY", "RUNNING"}
      BY <2>1, <2>2, <1>inv DEF TypeOK, Threads
    <3> QED BY <3>1, BusyWaits
  <2>3. CASE t \notin {n, s}
    <3>1. t \in queued /\ MovedOn(t)
      BY <2>1, <2>3, <1>inv DEF MovedOn, TypeOK, Threads
    <3> QED BY <3>1, <1>inv, MovedWaits DEF WaitOK
  <2> QED BY <2>2, <2>3
<1>10. ASSUME EnqueueProcess \/ EnqueueTestThread PROVE Waits(t)'
  <2>1. newThread \in Slots /\ newThread \notin queued /\ current = Shell
    BY <1>10, <1>inv DEF EnqueueProcess, EnqueueTestThread, EnqueueNew,
      AtKernel, NewThreadOK, TypeOK
  <2>2. /\ queued' = queued \cup {newThread}
        /\ status' = [status EXCEPT ![newThread] = "READY"]
        /\ waitingPid' = waitingPid /\ pending' = pending
        /\ arg' \in {arg, [arg EXCEPT ![newThread] = NIter]}
        /\ \E first \in {"ret", "work"}, next \in {"fg", "note"} :
             at' = [at EXCEPT ![newThread] = first, ![Shell] = next]
    BY <1>10 DEF EnqueueProcess, EnqueueTestThread, EnqueueNew, signalVars
  <2>3. CASE t \in {newThread, Shell}
    <3>1. at'[t] # "waitpid" /\ status'[t] \in {"READY", "RUNNING"}
      BY <2>1, <2>2, <2>3, <1>inv DEF TypeOK, Threads
    <3> QED BY <3>1, BusyWaits
  <2>4. CASE t \notin {newThread, Shell}
    <3>1. t \in queued /\ MovedOn(t)
      BY <2>1, <2>2, <2>4, <1>inv DEF MovedOn, TypeOK, Threads
    <3> QED BY <3>1, <1>inv, MovedWaits DEF WaitOK
  <2> QED BY <2>3, <2>4
<1>11. ASSUME NEW reused \in SUBSET Free, Reap(reused) PROVE Waits(t)'
  <2>1. /\ t \in queued \ Zombies(reused) /\ t \in Threads /\ current = Idle
        /\ status' = status
    BY <1>11, <1>inv DEF Reap, AtKernel, TypeOK
  <2>2. /\ waitingPid'[t] = waitingPid[t] /\ pending'[t] = pending[t]
        /\ arg'[t] = arg[t] /\ at'[t] = IF t = Idle THEN "yield" ELSE at[t]
    BY <1>11, <2>1 DEF Reap
  <2>3. CASE t = Idle
    BY <2>1, <2>2, <2>3, <1>inv, BusyWaits
  <2>4. CASE t # Idle
    <3>1. MovedOn(t)
      BY <2>1, <2>2, <2>4 DEF MovedOn
    <3> QED BY <2>1, <3>1, <1>inv, MovedWaits DEF WaitOK
  <2> QED BY <2>3, <2>4
(* The kernel threads: no status changes, or schedule() is called.           *)
<1>12. ASSUME \/ \E c \in Commands : ShellBegin(c)
              \/ \E s \in Slots : ShellAlloc(s)
              \/ ShellStorePid \/ ShellGiveUp \/ NoStdio \/ ShellNote
       PROVE  Waits(t)'
  <2>1. /\ current = Shell /\ at[Shell] \in {"poll", "pid", "enq", "note"}
        /\ UNCHANGED <<queued, status, waitingPid, pending, arg>>
        /\ at' \in {at} \cup {[at EXCEPT ![Shell] = w] : w \in {"poll", "pid", "enq", "join"}}
    BY <1>12 DEF ShellBegin, ShellAlloc, ShellStorePid, ShellGiveUp, NoStdio,
      ShellNote, Note, AtKernel, queueVars, signalVars
  <2> QED BY <2>1, <1>inv, CallWaits DEF TypeOK
<1>13. ASSUME \/ IdleYield \/ ShellTurn \/ ShellForeground \/ ShellJoin
              \/ \E s \in Slots : TestTurn(s) /\ arg[s] > 0
       PROVE  Waits(t)'
  <2>1. /\ Schedule(status) /\ at[current] # "waitpid"
        /\ UNCHANGED <<queued, waitingPid, pending>>
        /\ arg' \in {arg, [arg EXCEPT ![current] = arg[current] - 1]}
        /\ at' \in {at} \cup {[at EXCEPT ![current] = w] : w \in {"reap", "poll"}}
    BY <1>13 DEF IdleYield, ShellTurn, ShellForeground, ShellJoin, TestTurn,
      KernelSchedule, AtKernel, queueVars, signalVars
  <2> QED BY <2>1, <1>inv, ScheduleMoves DEF TypeOK
<1>14. ASSUME NEW st \in {status, Awake}, Interrupt(st) PROVE Waits(t)'
  <2>1. /\ Schedule(st) /\ at[current] # "waitpid"
        /\ UNCHANGED <<queued, waitingPid, pending, arg>>
        /\ at' \in {at, [at EXCEPT ![current] = "ret"]}
    BY <1>14 DEF Interrupt, Interruptible, queueVars, signalVars
  <2> QED BY <2>1, <1>inv, ScheduleMoves DEF TypeOK
<1>15. CASE UNCHANGED vars
  BY <1>15 DEF vars, queueVars, birthVars, signalVars, shellVars, WaitOK, Waits,
    Known, ShellAt, AllFinished
<1>16. ASSUME NEW s \in Slots, UserCall(s) PROVE Waits(t)'
  <2>1. CASE \/ Exec(s) \/ ReturnAtOnce(s) \/ SigReturn(s)
             \/ \E p \in Pids : WaitpidNow(s, p)
             \/ \E sig \in Sigs : Signal(s, sig)
    BY <1>1, <2>1
  <2>2. CASE \/ Usleep(s) \/ Yield(s) \/ \E n \in Slots : Fork(s, n)
             \/ \E p \in Pids : \/ WaitpidBlock(s, p)
                                \/ \E sig \in Sigs : KillHandled(s, p, sig)
    BY <1>3, <1>4, <1>5, <1>8, <1>9, <2>2
  <2>3. CASE Exit(s)
    BY <1>6, <2>3
  <2>4. ASSUME NEW p \in Pids, Stop(s, p) \/ \E sig \in Sigs : KillDefault(s, p, sig)
        PROVE  Waits(t)'
    <3>1. CASE Find(p) = s
      <4>1. \E q \in Pids : \/ Stop(s, q) /\ Find(q) = s
                            \/ \E sig \in Sigs : KillDefault(s, q, sig) /\ Find(q) = s
        BY <2>4, <3>1
      <4> QED BY <4>1, <1>6
    <3>2. CASE Find(p) # s
      BY <1>7, <2>4, <3>2
    <3> QED BY <3>1, <3>2
  <2> QED BY <1>16, <2>1, <2>2, <2>3, <2>4 DEF UserCall
<1>17. ASSUME NEW s \in Slots, KernelStep(s) PROVE Waits(t)'
  <2>1. CASE TestTurn(s)
    <3>1. CASE arg[s] > 0
      BY <1>13, <2>1, <3>1
    <3>2. CASE ~(arg[s] > 0)
      BY <1>6, <2>1, <3>2
    <3> QED BY <3>1, <3>2
  <2>2. CASE ReturnTerminated(s)
    BY <1>6, <2>2
  <2>3. CASE \/ WaitpidReturn(s) \/ UsleepReturn(s)
             \/ ReturnPlain(s) \/ ReturnToHandler(s)
    BY <1>1, <2>3
  <2> QED BY <1>17, <2>1, <2>2, <2>3 DEF KernelStep
<1> QED
  BY <1>2, <1>10, <1>11, <1>12, <1>13, <1>14, <1>15, <1>16, <1>17
  DEF Next, ShellStep, IdleStep, TimerInterrupt, ExternalInterrupt

(* A thread blocked in waitpid or usleep runs again only because what it     *)
(* waits for has happened or a signal is pending, and a signal never leaves  *)
(* its target asleep (make_signal_target_runnable, wake_waiting_parent,      *)
(* scheduler_wake_sleepers).                                                 *)
THEOREM BlockedWakeRightly ==
  ASSUME AtomicPid PROVE Spec => []WokenRightly
<1>1. Init => WaitOK
  BY SchedAssumption DEF Init, WaitOK, Waits, Threads
<1>2. SchedInv /\ PidOK /\ WaitOK /\ [Next]_vars => WaitOK'
  BY SchedInvStep, EntersStep, WaitStep DEF SchedInv
<1>3. SchedInv /\ PidOK /\ WaitOK => WokenRightly
  BY FinishedAll
  DEF SchedInv, PidOK, WaitOK, Waits, WokenRightly, WaitEndsWithTarget,
      SleeperHasNoSignal
<1> QED BY <1>1, <1>2, <1>3, PidInvariant, PTL DEF Spec
=============================================================================
