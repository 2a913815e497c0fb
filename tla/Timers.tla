------------------------------- MODULE Timers -------------------------------
(***************************************************************************)
(* timer.c: one hardware timer shared by the scheduler's tick and the      *)
(* timeouts of the shell.  Expired timers become tasks of one priority,    *)
(* which TaskQueue runs one after the other in the order they were added,  *)
(* with interrupts on; everything else here runs with interrupts off.      *)
(***************************************************************************)
EXTENDS Integers, FiniteSets, SequencesExt, FiniteSetsExt

CONSTANTS
  Slots,      \* indices of g_timers: 1 .. MAX_TIMERS
  TimerTasks, \* how many of the task slots are left for timers
  Delays,     \* the timeouts that are asked for
  Period,     \* timer_period_ticks
  Overlap,    \* may add_timer run while an expired timer clears its slot?
  Late,       \* bound: how long interrupts are kept off
  Timeouts, AddBy, MaxTime  \* bounds: how many timeouts, asked for until when

ASSUME TimersAssumption ==
  /\ IsFiniteSet(Slots) /\ Slots \subseteq Nat \ {0} /\ TimerTasks \in Nat
  /\ Delays \subseteq Nat /\ Period \in Nat \ {0}
  /\ {Late, Timeouts, AddBy, MaxTime} \subseteq Nat /\ Overlap \in BOOLEAN
  /\ \A d \in Delays : AddBy + d < MaxTime

VARIABLES
  now,         \* rdtime
  periodic,    \* g_periodic_next_fire
  programmed,  \* g_programmed_fire, given to the SBI
  slot,        \* g_timers: used, deadline, the message (0: no callback)
  list,        \* g_timer_head and the next pointers
  tasks,       \* the trampolines in the task queue
  taken,       \* the trampoline that has begun
  asked,       \* the deadlines of all timeouts so far, by message
  said         \* the messages printed so far
timerVars == <<now, periodic, programmed, slot, list, tasks, taken, asked, said>>

Free == [used |-> FALSE, deadline |-> 0, message |-> 0]
Nothing == [pc |-> "none", slot |-> 0, message |-> 0]

TimersInit ==
  /\ now = 0 /\ periodic = Period /\ programmed = Period
  /\ slot = [s \in Slots |-> Free]
  /\ list = <<>> /\ tasks = <<>> /\ taken = Nothing
  /\ asked = <<>> /\ said = <<>>

Tick ==
  /\ now < MaxTime /\ now < programmed + Late
  /\ now' = now + 1
  /\ UNCHANGED <<periodic, programmed, slot, list, tasks, taken, asked, said>>

-----------------------------------------------------------------------------
(* program_next_event_locked, with what the lists are after the operation.   *)
(* Faulty variant: the timers are not looked at.                             *)
ProgramTick == programmed' = Max({periodic', now + 1})
Program ==
  LET events == {periodic'} \cup
                (IF list' = <<>> THEN {} ELSE {slot'[Head(list')].deadline})
  IN  programmed' = Max({Min(events), now + 1})

(* add_timer: behind every timer that is not due later.                      *)
Position(deadline) ==
  Min({Len(list) + 1} \cup
      {i \in 1 .. Len(list) : slot[list[i]].deadline > deadline})

(* Faulty variant: a slot counts as unused as soon as it leaves the list.    *)
UnusedOnList == {s \in Slots : s \notin ToSet(list)}
Unused == {s \in Slots : ~slot[s].used}

AddTimer(delay) ==
  LET s == Min(Unused)
      message == Len(asked) + 1
  IN  /\ Unused # {} /\ Len(asked) < Timeouts /\ now <= AddBy
      /\ Overlap \/ taken.pc \notin {"free", "clear"}
      /\ asked' = Append(asked, now + delay)
      /\ slot' = [slot EXCEPT ![s] =
           [used |-> TRUE, deadline |-> now + delay, message |-> message]]
      /\ list' = InsertAt(list, Position(now + delay), s)
      /\ UNCHANGED <<now, periodic, tasks, taken, said>>
      /\ Program

(* timer_set_periodic_enabled; the message it turns on is left out.          *)
SetPeriodic(enabled) ==
  /\ now <= AddBy
  /\ periodic' = IF enabled /\ periodic <= now THEN now + Period ELSE periodic
  /\ UNCHANGED <<now, slot, list, tasks, taken, asked, said>>
  /\ Program

(* timer_handle_interrupt: the tick catches up; timers leave the front of    *)
(* the list until one is not due and become tasks; those for which there is  *)
(* no task slot are run.                                                     *)
(* Faulty variant: those that are due a tick later leave it too.             *)
ExpiredSoon ==
  SubSeq(list, 1, Min({Len(list)} \cup
    {i \in 0 .. Len(list) - 1 : slot[list[i + 1]].deadline > now + 1}))
Expired ==
  SubSeq(list, 1, Min({Len(list)} \cup
    {i \in 0 .. Len(list) - 1 : slot[list[i + 1]].deadline > now}))

Room == TimerTasks - Len(tasks) - (IF taken = Nothing THEN 0 ELSE 1)

Interrupt ==
  LET queued == SubSeq(Expired, 1, Min({Len(Expired), Max({Room, 0})}))
      direct == SubSeq(Expired, Len(queued) + 1, Len(Expired))
  IN  /\ now >= programmed
      /\ periodic' = Min({t \in now + 1 .. now + Period :
                            (t - periodic) % Period = 0} \cup
                         (IF periodic > now THEN {periodic} ELSE {}))
      /\ list' = SubSeq(list, Len(Expired) + 1, Len(list))
      /\ tasks' = tasks \o queued
      /\ slot' = [s \in Slots |->
                    IF s \in ToSet(direct)
                    THEN [slot[s] EXCEPT !.used = FALSE, !.message = 0]
                    ELSE slot[s]]
      /\ said' = said \o [i \in 1 .. Len(direct) |-> slot[direct[i]].message]
      /\ UNCHANGED <<now, taken, asked>>
      /\ Program

-----------------------------------------------------------------------------
(* timer_task_trampoline, with interrupts on: it reads the callback and      *)
(* gives up the slot ...                                                     *)
(* Faulty variant: the task that came last is taken.                         *)
BeginLast ==
  LET s == Last(tasks)
  IN  /\ taken = Nothing /\ tasks # <<>>
      /\ tasks' = Front(tasks)
      /\ taken' = [pc |-> "free", slot |-> s, message |-> slot[s].message]
      /\ slot' = [slot EXCEPT ![s].used = FALSE]
      /\ UNCHANGED <<now, periodic, programmed, list, asked, said>>

Begin ==
  LET s == Head(tasks)
  IN  /\ taken = Nothing /\ tasks # <<>>
      /\ tasks' = Tail(tasks)
      /\ taken' = [pc |-> "free", slot |-> s, message |-> slot[s].message]
      /\ slot' = [slot EXCEPT ![s].used = FALSE]
      /\ UNCHANGED <<now, periodic, programmed, list, asked, said>>

(* ... clears the callback and its argument ...                              *)
ClearCallback ==
  /\ taken.pc = "free"
  /\ slot' = [slot EXCEPT ![taken.slot].message = 0]
  /\ taken' = [taken EXCEPT !.pc = "clear"]
  /\ UNCHANGED <<now, periodic, programmed, list, tasks, asked, said>>

(* ... and the next pointer: a list the slot is on by now ends there ...     *)
UpTo(s) == IF s \in ToSet(list)
           THEN SubSeq(list, 1, CHOOSE i \in 1 .. Len(list) : list[i] = s)
           ELSE list
ClearNext ==
  /\ taken.pc = "clear"
  /\ list' = UpTo(taken.slot)
  /\ taken' = [taken EXCEPT !.pc = "call"]
  /\ UNCHANGED <<now, periodic, programmed, slot, tasks, asked, said>>

(* ... and calls the callback, which prints the message.                     *)
Call ==
  /\ taken.pc = "call"
  /\ taken' = Nothing
  /\ said' = IF taken.message = 0 THEN said
             ELSE Append(said, taken.message)
  /\ UNCHANGED <<now, periodic, programmed, slot, list, tasks, asked>>

TimersNext ==
  \/ Tick \/ Interrupt \/ Begin \/ ClearCallback \/ ClearNext \/ Call
  \/ \E delay \in Delays : AddTimer(delay)
  \/ \E enabled \in BOOLEAN : SetPeriodic(enabled)

TimersSpec == TimersInit /\ [][TimersNext]_timerVars

(* Time goes on, the interrupt is taken when it is pending, and tasks run.   *)
TimersFairSpec ==
  /\ TimersSpec
  /\ WF_timerVars(Tick) /\ WF_timerVars(Interrupt)
  /\ WF_timerVars(Begin) /\ WF_timerVars(ClearCallback) /\ WF_timerVars(ClearNext) /\ WF_timerVars(Call)
-----------------------------------------------------------------------------
(* The type invariant.                                                       *)
TimersTypeOK ==
  /\ now \in 0 .. MaxTime /\ periodic \in Nat /\ programmed \in Nat
  /\ slot \in [Slots -> [used : BOOLEAN, deadline : Nat, message : 0 .. Timeouts]]
  /\ list \in Seq(Slots) /\ tasks \in Seq(Slots) /\ Len(tasks) <= TimerTasks
  /\ taken.pc \in {"none", "free", "clear", "call"}
  /\ asked \in Seq(Nat)
  /\ said \in Seq(1 .. Timeouts)

(* The hardware is always programmed for the first thing that is due.        *)
WokenInTime ==
  /\ programmed <= Max({periodic, now + 1})
  /\ list # <<>> => programmed <= Max({slot[Head(list)].deadline, now + 1})

(* No message comes early.                                                   *)
NotEarly ==
  [][\A k \in 1 .. Len(said') :
       k > Len(said) => asked[said'[k]] <= now]_timerVars

(* lab4.rst: "The printing order is determined by the command executed time  *)
(* and the user-specified SECONDS."  A message comes before one that is due  *)
(* first only when that one waits for the task queue, which is full.         *)
Before(m, n) == asked[m] < asked[n] \/ (asked[m] = asked[n] /\ m < n)
InOrder ==
  [][\A k \in Len(said) + 1 .. Len(said') :
       \A m \in 1 .. Len(asked) :
         Before(m, said'[k]) /\ m \notin ToSet(SubSeq(said', 1, k - 1))
         => Room' = 0]_timerVars

(* The messages of setTimeout come neither before their time nor before an   *)
(* earlier one's, as long as the queue has room for them.                    *)
PrintedInOrder == NotEarly /\ InOrder

(* lab4.rst: setTimeout "prints MESSAGE after SECONDS".                      *)
EveryTimerFires ==
  \A message \in 1 .. Timeouts :
    Len(asked) >= message ~> message \in ToSet(said)
=============================================================================
