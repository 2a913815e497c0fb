------------------------------ MODULE TaskQueue ------------------------------
(***************************************************************************)
(* task.c: the callbacks that interrupt handlers leave for later.  They    *)
(* run in the context of whatever thread was interrupted, with interrupts  *)
(* on, before its trap returns; a callback may itself be interrupted, by   *)
(* callbacks of a higher priority, and by the scheduler, which leaves it   *)
(* unfinished on the stack of its thread.                                  *)
(***************************************************************************)
EXTENDS Integers, FiniteSets, SequencesExt

CONSTANTS
  Threads, First,
  Killable,     \* user threads, which stop() and kill() can end
  Priorities,
  MaxTasks,     \* MAX_TASKS
  MaxNested,    \* MAX_NESTED_TASKS
  Arrivals      \* bound: how often add_task is called

ASSUME TaskQueueAssumption ==
  /\ First \in Threads /\ Killable \subseteq Threads \ {First}
  /\ Priorities \subseteq Int /\ IsFiniteSet(Priorities)
  /\ MaxTasks \in Nat /\ MaxNested \in Nat /\ Arrivals \in Nat

VARIABLES
  ready,    \* g_ready_head and its next pointers
  used,     \* the tasks whose slot is in use
  levels,   \* g_priority_stack[0 .. g_task_depth - 1]
  seq,      \* g_task_seq
  running,  \* the callbacks unfinished on each thread's stack, innermost last
  cur,      \* the thread that has the hart
  irqs,     \* are interrupts on
  alive     \* the threads that have not been ended
vars == <<ready, used, levels, seq, running, cur, irqs, alive>>

Tasks == [prio : Priorities, seq : 0 .. Arrivals - 1]

Init ==
  /\ ready = <<>> /\ used = {} /\ levels = <<>> /\ seq = 0
  /\ running = [t \in Threads |-> <<>>]
  /\ cur = First /\ irqs = TRUE /\ alive = Threads

-----------------------------------------------------------------------------
(* An interrupt, or a call of task_run_ready.                                *)
Enter ==
  /\ irqs
  /\ irqs' = FALSE
  /\ UNCHANGED <<ready, used, levels, seq, running, cur, alive>>

(* add_task, from a handler, a callback, or the shell: behind every task it  *)
(* does not outrank.                                                         *)
(* Faulty variant: in front of its equals.                                   *)
PlaceFirst(p) ==
  CHOOSE i \in 1 .. Len(ready) + 1 :
    /\ \A j \in 1 .. i - 1 : ready[j].prio > p
    /\ i <= Len(ready) => ready[i].prio <= p
Place(p) ==
  CHOOSE i \in 1 .. Len(ready) + 1 :
    /\ \A j \in 1 .. i - 1 : ready[j].prio >= p
    /\ i <= Len(ready) => ready[i].prio < p

AddTask(p) ==
  LET item == [prio |-> p, seq |-> seq]
  IN  /\ seq < Arrivals /\ Cardinality(used) < MaxTasks
      /\ ready' = InsertAt(ready, Place(p), item)
      /\ used' = used \cup {item}
      /\ seq' = seq + 1
      /\ UNCHANGED <<levels, running, cur, irqs, alive>>

(* The loop of task_run_ready, with interrupts off: start the first task if  *)
(* it outranks the callback that was started last.                           *)
(* Faulty variant: an equal one is started too.                              *)
EligibleEqual ==
  ready # <<>> /\ ~(levels # <<>> /\ Head(ready).prio < Last(levels))
Eligible ==
  ready # <<>> /\ ~(levels # <<>> /\ Head(ready).prio <= Last(levels))

Start ==
  /\ ~irqs /\ Eligible
  /\ ready' = Tail(ready)
  /\ running' = [running EXCEPT ![cur] = Append(@, Head(ready))]
  /\ levels' = IF Len(levels) < MaxNested
                 THEN Append(levels, Head(ready).prio) ELSE levels
  /\ irqs' = TRUE
  /\ UNCHANGED <<used, seq, cur, alive>>

(* The innermost callback of the current thread returns to the loop.         *)
(* Faulty variant: its slot is not given back.                               *)
FinishKeep ==
  /\ irqs /\ running[cur] # <<>>
  /\ running' = [running EXCEPT ![cur] = Front(@)]
  /\ levels' = IF levels = <<>> THEN levels ELSE Front(levels)
  /\ irqs' = FALSE
  /\ UNCHANGED <<ready, used, seq, cur, alive>>

Finish ==
  /\ irqs /\ running[cur] # <<>>
  /\ running' = [running EXCEPT ![cur] = Front(@)]
  /\ used' = used \ {Last(running[cur])}
  /\ levels' = IF levels = <<>> THEN levels ELSE Front(levels)
  /\ irqs' = FALSE
  /\ UNCHANGED <<ready, seq, cur, alive>>

(* Nothing to start: the trap returns, after schedule() if it was an         *)
(* interrupt.  A thread resumes where schedule() had left it.                *)
(* Faulty variant: it returns while a task waits.                            *)
LeaveEarly(next) ==
  /\ ~irqs /\ (Eligible => running[cur] = <<>>) /\ next \in alive
  /\ cur' = next /\ irqs' = TRUE
  /\ UNCHANGED <<ready, used, levels, seq, running, alive>>

Leave(next) ==
  /\ ~irqs /\ ~Eligible /\ next \in alive
  /\ cur' = next /\ irqs' = TRUE
  /\ UNCHANGED <<ready, used, levels, seq, running, alive>>

(* Another thread is stopped or killed, whatever it was doing.               *)
Kill(t) ==
  /\ irqs /\ t \in (Killable \cap alive) \ {cur}
  /\ alive' = alive \ {t}
  /\ UNCHANGED <<ready, used, levels, seq, running, cur, irqs>>

Next ==
  \/ Enter \/ Start \/ Finish
  \/ \E p \in Priorities : AddTask(p)
  \/ \E t \in Threads : Leave(t) \/ Kill(t)

Spec == Init /\ [][Next]_vars

(* Timer interrupts keep coming and callbacks return; schedule() goes round  *)
(* the run queue, so every thread gets the hart again and again.             *)
Fairness ==
  /\ WF_vars(Enter) /\ WF_vars(Start)
  /\ \A t \in Threads : SF_vars(Leave(t)) /\ SF_vars(cur = t /\ Finish)
FairSpec == Spec /\ Fairness
-----------------------------------------------------------------------------
Unfinished == UNION {ToSet(running[t]) : t \in Threads}

(* The type invariant.                                                       *)
TypeOK ==
  /\ ready \in Seq(Tasks) /\ used \subseteq Tasks /\ levels \in Seq(Priorities)
  /\ seq \in 0 .. Arrivals
  /\ running \in [Threads -> Seq(Tasks)]
  /\ cur \in alive /\ irqs \in BOOLEAN /\ alive \subseteq Threads

(* A slot is in use exactly while its task waits or its callback has not     *)
(* returned, and no task waits twice, runs twice, or does both.              *)
SlotsExact ==
  /\ used = ToSet(ready) \cup Unfinished
  /\ ToSet(ready) \cap Unfinished = {}
  /\ \A i, j \in 1 .. Len(ready) : ready[i] = ready[j] => i = j
  /\ \A t, u \in Threads : \A i \in 1 .. Len(running[t]), j \in 1 .. Len(running[u]) :
       running[t][i] = running[u][j] => t = u /\ i = j

(* The levels rise strictly, even when callbacks of several threads end in   *)
(* another order than they began: so there are never more of them than       *)
(* priorities, and MAX_NESTED_TASKS is not reached.                          *)
LevelsRise ==
  /\ \A i, j \in 1 .. Len(levels) : i < j => levels[i] < levels[j]
  /\ Len(levels) < MaxNested \/ ~Eligible

(* Whatever is started is the best waiting: none of a higher priority waits, *)
(* and none of its own has waited longer.                                    *)
BestFirst ==
  [][Start => LET best == Last(running'[cur])
              IN  \A other \in ToSet(ready') :
                    \/ other.prio < best.prio
                    \/ other.prio = best.prio /\ other.seq > best.seq]_vars

(* Every task that was added is run, to its end, unless a thread has been    *)
(* ended in the middle of a callback: its level is never taken down.         *)
Abandoned == \E t \in Threads \ alive : running[t] # <<>>
EveryTaskRuns ==
  \A n \in 0 .. Arrivals - 1 :
    (\E item \in used : item.seq = n)
      ~> (\A item \in used : item.seq # n) \/ Abandoned
=============================================================================
