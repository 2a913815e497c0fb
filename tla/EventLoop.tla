------------------------------ MODULE EventLoop ------------------------------
(***************************************************************************)
(* The lab4 kernel, before there were threads: one control stack, on which  *)
(* the shell's loop or the user program lies at the bottom, and above it    *)
(* the traps, the runs of task_run_ready and the callbacks they call, which *)
(* enable interrupts and are interrupted in turn.  Timers queue tasks from  *)
(* the interrupt; a task of higher priority runs before the one it          *)
(* interrupts goes on.                                                      *)
(*                                                                          *)
(* A step is what happens with interrupts off, or one step of a callback.   *)
(* What is typed and printed is Shell's and Uart's subject.                 *)
(***************************************************************************)
EXTENDS Integers, FiniteSets, Sequences, SequencesExt

CONSTANTS
  MaxTasks, MaxTimers, MaxNested,   \* sizes of g_tasks, g_timers, g_priority_stack
  Period,      \* PERIOD_SECONDS
  Seconds,     \* what is passed to setTimeout
  MaxTime, MaxRequests, MaxStack,   \* bounds: time, timeouts asked for, control stack
  LateTraps    \* may a trap come between the restoring of sepc and of sstatus?

VARIABLES
  stack,     \* the activations, innermost last
  sie,       \* sstatus.SIE
  sepc,      \* the depth of the activation that sepc leads back to
  queue,     \* g_tasks (items) and the items from g_ready_head on (ready)
  levels,    \* g_priority_stack up to g_task_depth
  timers,    \* g_timers
  list,      \* the entries from g_timer_head on
  now, next, \* the time, g_periodic_next_fire
  periodic,  \* g_periodic_timer_enabled
  armed,     \* what the hardware timer is set to
  requests   \* struct timeout_request: "none", "kept" or "printed"
timerVars == <<timers, list, next, periodic, armed, requests>>
vars == <<stack, sie, sepc, queue, levels, now, timerVars>>

Priority(c) == CASE c = "print" -> 0 [] c = "trampoline" -> 1 [] c = "P4" -> 10
                 [] c = "P3" -> 20 [] c = "P2" -> 30 [] c = "P1" -> 40 [] c = "report" -> 64
FreeItem == [used |-> FALSE, callback |-> "none", arg |-> 0]
FreeEntry == [used |-> FALSE, deadline |-> 0, request |-> 0]
ShellAt(at) == [is |-> "shell", at |-> at]
User == [is |-> "user"]
Trap(pc) == [is |-> "trap", at |-> "handled", pc |-> pc]
Run(flags) == [is |-> "run", flags |-> flags]
Task(i, at, arg) == [is |-> "task", item |-> i, at |-> at, arg |-> arg]

Init ==
  /\ stack = <<ShellAt("loop")>> /\ sie = TRUE /\ sepc = 0 /\ levels = <<>>
  /\ queue = [items |-> [i \in 1 .. MaxTasks |-> FreeItem], ready |-> <<>>]
  /\ timers = [k \in 1 .. MaxTimers |-> FreeEntry] /\ list = <<>>
  /\ now = 0 /\ next = Period /\ periodic = TRUE /\ armed = Period
  /\ requests = [r \in 1 .. MaxRequests |-> "none"]

Top == Last(stack)
Below == Front(stack)
Height == Len(stack)

-----------------------------------------------------------------------------
(* add_task: into the first free item, behind all it does not outrank.       *)
Room(q) == {i \in 1 .. MaxTasks : ~q.items[i].used}
AddTask(q, c, arg) ==
  LET i == CHOOSE i \in Room(q) : \A j \in Room(q) : i <= j
      before == SelectSeq(q.ready, LAMBDA j : Priority(q.items[j].callback) >= Priority(c))
  IN  IF Room(q) = {} THEN q
      ELSE [items |-> [q.items EXCEPT ![i] = [used |-> TRUE, callback |-> c, arg |-> arg]],
            ready |-> before \o <<i>> \o SubSeq(q.ready, Len(before) + 1, Len(q.ready))]

(* May the first of the ready tasks run above the ones that run already?     *)
(* Faulty variant: an equal priority may, too.                               *)
FirstReady == Priority(queue.items[queue.ready[1]].callback)
MayPreemptEqual == queue.ready # <<>> /\ (levels # <<>> => FirstReady >= Last(levels))
MayPreempt == queue.ready # <<>> /\ (levels # <<>> => FirstReady > Last(levels))

(* task_run_ready, entered with interrupts in the state flags: a callback is *)
(* called with interrupts on, or the run ends.                               *)
TakeTask ==
  LET i == queue.ready[1]
      c == queue.items[i].callback
  IN  /\ Top.is = "run" /\ MayPreempt /\ sie' = TRUE
      /\ queue' = [queue EXCEPT !.ready = Tail(@)]
      /\ levels' = IF Len(levels) < MaxNested THEN Append(levels, Priority(c)) ELSE levels
      /\ stack' = Append(stack, Task(i, 1, queue.items[i].arg))
      /\ UNCHANGED <<sepc, now, timerVars>>
RunEnds == /\ Top.is = "run" /\ ~MayPreempt /\ stack' = Below /\ sie' = Top.flags
           /\ UNCHANGED <<sepc, queue, levels, now, timerVars>>

(* The rest of the loop's body after the callback; outer_flags is read anew. *)
TaskEnds(s) ==
  /\ stack' = [Front(s) EXCEPT ![Len(s) - 1].flags = sie] /\ sie' = FALSE
  /\ levels' = IF levels = <<>> THEN levels ELSE Front(levels)
  /\ queue' = [queue EXCEPT !.items[Last(s).item] = FreeItem]

-----------------------------------------------------------------------------
(* The callbacks: the three of taskbatch that queue the next one and run it, *)
(* and those that print and end.                                             *)
Callback == queue.items[Top.item].callback
InTask(c, at) == Top.is = "task" /\ Callback = c /\ Top.at = at
Queues(c) == CASE c = "P4" -> "P2" [] c = "P2" -> "P3" [] c = "P3" -> "P1"
BatchStart(c) ==
  /\ InTask(c, 1) /\ queue' = AddTask(queue, Queues(c), 0) /\ sie' = FALSE
  /\ stack' = Append([stack EXCEPT ![Height].at = 2], Run(sie))
  /\ UNCHANGED <<sepc, levels, now, timerVars>>
BatchEnd(c) == InTask(c, 2) /\ TaskEnds(stack) /\ UNCHANGED <<sepc, now, timerVars>>
PrintAndEnd(c) == InTask(c, 1) /\ TaskEnds(stack) /\ UNCHANGED <<sepc, now, timerVars>>

(* timer_task_trampoline frees its entry, then calls timeout_print_cb.       *)
TrampolineFrees ==
  LET k == Top.arg
  IN  /\ InTask("trampoline", 1) /\ timers[k].used
      /\ stack' = [stack EXCEPT ![Height].at = 2, ![Height].arg = timers[k].request]
      /\ timers' = [timers EXCEPT ![k] = FreeEntry]
      /\ UNCHANGED <<sie, sepc, queue, levels, now, list, next, periodic, armed, requests>>
TrampolineCalls ==
  /\ InTask("trampoline", 2) /\ requests' = [requests EXCEPT ![Top.arg] = "printed"]
  /\ TaskEnds(stack) /\ UNCHANGED <<sepc, now, timers, list, next, periodic, armed>>

-----------------------------------------------------------------------------
(* program_next_event_locked, for g_periodic_next_fire n and a list l of e.  *)
(* Faulty variant: the list is not looked at.                                *)
NextEventPeriodic(n, l, e) == IF n <= now THEN now + 1 ELSE n
NextEvent(n, l, e) ==
  LET first == IF l # <<>> /\ e[l[1]].deadline < n THEN e[l[1]].deadline ELSE n
  IN  IF first <= now THEN now + 1 ELSE first

(* add_timer: behind the entries that are due no later.                      *)
AddTimer(k, r, sec) ==
  LET e == [timers EXCEPT ![k] = [used |-> TRUE, deadline |-> now + sec, request |-> r]]
      before == SelectSeq(list, LAMBDA j : timers[j].deadline <= now + sec)
      l == before \o <<k>> \o SubSeq(list, Len(before) + 1, Len(list))
  IN  timers' = e /\ list' = l /\ armed' = NextEvent(next, l, e)

(* timer_handle_interrupt: the periodic message as often as it is due, then  *)
(* every timer that is due.  What the task queue has no room for is called   *)
(* at once.                                                                  *)
Missed == IF next <= now THEN (now - next) \div Period + 1 ELSE 0
Messages(q) == IF ~periodic THEN q
               ELSE FoldLeft(LAMBDA r, i : AddTask(r, "print", 0), q, [i \in 1 .. Missed |-> i])
Due == SelectSeq(list, LAMBDA k : timers[k].deadline <= now)
HandleTimer ==
  LET q == Messages(queue)
      called == SubSeq(Due, Cardinality(Room(q)) + 1, Len(Due))
      e == [k \in 1 .. MaxTimers |-> IF k \in ToSet(called) THEN FreeEntry ELSE timers[k]]
      l == SubSeq(list, Len(Due) + 1, Len(list))
      n == next + Missed * Period
  IN  /\ queue' = FoldLeft(LAMBDA r, k : AddTask(r, "trampoline", k), q, Due)
      /\ requests' = [r \in DOMAIN requests |->
                        IF \E k \in ToSet(called) : timers[k].request = r THEN "printed"
                        ELSE requests[r]]
      /\ timers' = e /\ list' = l /\ next' = n /\ armed' = NextEvent(n, l, e)
      /\ UNCHANGED periodic

-----------------------------------------------------------------------------
(* kernel_trap_vector up to the handler's task_run_ready; what is            *)
(* interrupted is Height activations deep.                                   *)
MayTrap == \/ Top.is = "user"
           \/ sie /\ Height < MaxStack /\ (Top.is = "trap" => LateTraps \/ Top.at # "sepc")
Enter == /\ stack' = stack \o <<Trap(Height), Run(FALSE)>>
         /\ sie' = FALSE /\ sepc' = Height /\ UNCHANGED <<levels, now>>
TimerInterrupt == MayTrap /\ armed <= now /\ Enter /\ HandleTimer
ExternalInterrupt == MayTrap /\ Enter /\ UNCHANGED <<queue, timerVars>>
(* An ecall of the user program is reported.                                 *)
Ecall == /\ Top.is = "user" /\ Enter
         /\ queue' = AddTask(queue, "report", 0) /\ UNCHANGED timerVars

(* The way back; after a run that called a task interrupts are on.           *)
InTrap(at) == Top.is = "trap" /\ Top.at = at /\ UNCHANGED <<queue, levels, now, timerVars>>
RestoreSepc == /\ InTrap("handled") /\ stack' = [stack EXCEPT ![Height].at = "sepc"]
               /\ sepc' = Top.pc /\ UNCHANGED sie
RestoreStatus == /\ InTrap("sepc") /\ stack' = [stack EXCEPT ![Height].at = "status"]
                 /\ sie' = FALSE /\ UNCHANGED sepc
Sret == /\ InTrap("status") /\ stack' = SubSeq(stack, 1, sepc)
        /\ sie' = TRUE /\ UNCHANGED sepc

-----------------------------------------------------------------------------
(* start_kernel's loop.                                                      *)
ShellLoop == /\ Top = ShellAt("loop") /\ stack' = <<ShellAt("poll"), Run(sie)>> /\ sie' = FALSE
             /\ UNCHANGED <<sepc, queue, levels, now, timerVars>>
Polls == Top = ShellAt("poll") /\ UNCHANGED <<sie, sepc, levels, now>>
NoCommand == Polls /\ stack' = <<ShellAt("loop")>> /\ UNCHANGED <<queue, timerVars>>
(* setTimeout: what does not fit is given back.                              *)
SetTimeout(sec) ==
  LET r == CHOOSE r \in DOMAIN requests : requests[r] = "none"
      free == {k \in 1 .. MaxTimers : ~timers[k].used}
      k == CHOOSE k \in free : \A j \in free : k <= j
  IN  /\ Polls /\ \E s \in DOMAIN requests : requests[s] = "none"
      /\ free # {} /\ AddTimer(k, r, sec) /\ requests' = [requests EXCEPT ![r] = "kept"]
      /\ stack' = <<ShellAt("loop")>> /\ UNCHANGED <<queue, next, periodic>>
Taskbatch == /\ Polls /\ queue' = AddTask(queue, "P4", 0)
             /\ stack' = <<ShellAt("loop")>> /\ UNCHANGED timerVars
(* heartbeat on and off                                                      *)
SetPeriodicEnabled(on) ==
  LET n == IF on /\ next <= now THEN now + Period ELSE next
  IN  periodic' = on /\ next' = n /\ armed' = NextEvent(n, list, timers)
Heartbeat(on) == /\ Polls /\ SetPeriodicEnabled(on) /\ stack' = <<ShellAt("loop")>>
                 /\ UNCHANGED <<queue, timers, list, requests>>
(* exec: run_user_program and enter_user_mode; nothing ever comes back.      *)
RunUserProgram == stack' = <<User>>
Exec == Polls /\ RunUserProgram /\ UNCHANGED <<queue, timerVars>>

Time == /\ now < MaxTime /\ now' = now + 1
        /\ UNCHANGED <<stack, sie, sepc, queue, levels, timerVars>>

Next ==
  \/ TakeTask \/ RunEnds \/ TrampolineFrees \/ TrampolineCalls
  \/ \E c \in {"P4", "P3", "P2"} : BatchStart(c) \/ BatchEnd(c)
  \/ \E c \in {"P1", "print", "report"} : PrintAndEnd(c)
  \/ TimerInterrupt \/ ExternalInterrupt \/ Ecall \/ RestoreSepc \/ RestoreStatus \/ Sret
  \/ ShellLoop \/ NoCommand \/ Taskbatch \/ Exec
  \/ \E sec \in Seconds : SetTimeout(sec)
  \/ \E on \in BOOLEAN : Heartbeat(on)
  \/ Time
Spec == Init /\ [][Next]_vars

-----------------------------------------------------------------------------
TypeOK == /\ \A i \in ToSet(queue.ready) : i \in 1 .. MaxTasks
          /\ ToSet(list) \subseteq 1 .. MaxTimers
          /\ armed \in Nat /\ sepc \in Nat /\ sie \in BOOLEAN

(* However interrupts come in between, a callback lies only above callbacks  *)
(* of lower priority, g_priority_stack mirrors those on the control stack,   *)
(* an item is in use exactly while its task waits or runs, and a trap that   *)
(* is about to return returns to what it interrupted.  (Not so if a trap     *)
(* comes when sepc is restored and sstatus is not: hence LateTraps.)         *)
Running == SelectSeq(stack, LAMBDA a : a.is = "task")
NestedByPriority ==
  /\ levels = [d \in DOMAIN Running |-> Priority(queue.items[Running[d].item].callback)]
  /\ \A d \in 2 .. Len(levels) : levels[d - 1] < levels[d]
  /\ LET there == queue.ready \o [d \in DOMAIN Running |-> Running[d].item]
     IN  IsInjective(there) /\ ToSet(there) = {i \in 1 .. MaxTasks : queue.items[i].used}
  /\ Top.is = "trap" /\ Top.at = "status" => sepc = Height - 1

(* A timeout that setTimeout has accepted is printed, and its memory freed,  *)
(* once: until then it is in one place, in an entry on the list, in one that *)
(* a queued trampoline will read, or with a trampoline that has read it; and *)
(* the hardware timer is set to no later than the first event there is.      *)
Places(r) ==
  LET reads(i) == queue.items[i].callback = "trampoline" /\ timers[queue.items[i].arg].request = r
  IN  {<<"list", k>> : k \in {j \in ToSet(list) : timers[j].used /\ timers[j].request = r}}
      \cup {<<"queued", i>> : i \in {j \in ToSet(queue.ready) : reads(j)}}
      \cup {<<"running", d>> : d \in {c \in DOMAIN stack :
              /\ stack[c].is = "task" /\ queue.items[stack[c].item].callback = "trampoline"
              /\ IF stack[c].at = 1 THEN reads(stack[c].item) ELSE stack[c].arg = r}}
TimeoutsKept ==
  /\ \A r \in DOMAIN requests : Cardinality(Places(r)) = IF requests[r] = "kept" THEN 1 ELSE 0
  /\ armed <= now + 1 \/ (armed <= next /\ \A k \in ToSet(list) : armed <= timers[k].deadline)
=============================================================================
