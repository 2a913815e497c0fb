------------------------------- MODULE Sched -------------------------------
(***************************************************************************)
(* Threads, the run queue and the process life cycle of the lab7 kernel:   *)
(* sched.c, the process system calls of syscall.c, the interrupt part of   *)
(* trap.c and the two kernel threads of kernel/main.c (idle and shell).    *)
(*                                                                         *)
(* A thread is named by the address of its struct thread (a member of      *)
(* Threads), so freeing and reusing a struct is visible: parent pointers   *)
(* are addresses and may dangle.  One hart runs one thread (current).  An  *)
(* action is a stretch of kernel code that runs with interrupts off; at[t] *)
(* is where thread t continues when it next runs:                          *)
(*   user     U-mode code                                                  *)
(*   ret      kernel path back to U-mode, before signal_deliver            *)
(*   waitpid  syscall_waitpid, just after its schedule()                   *)
(*   usleep   syscall_usleep, just after its schedule()                    *)
(*   reap, yield               the idle loop of start_kernel               *)
(*   poll, pid, enq, fg, note, join   kernel_shell_thread and what it calls *)
(*   work     thread_test_fn                                               *)
(***************************************************************************)
EXTENDS Integers

CONSTANTS
  Slots,      \* addresses alloc() can give a struct thread
  Idle,       \* the static struct of the idle thread
  Shell,      \* the slot of the kernel shell thread, created at boot
  NULL,       \* the null pointer
  Sigs,       \* the signal numbers in use, of 1 .. MAX_SIGNALS - 1
  Commands,   \* the shell commands in use: "exec", "test" (threadtest)
  MaxCreate,  \* bound: threads are created while fewer were, and pids are fewer
  NTest,      \* threads the threadtest command creates (3 in the code)
  NIter,      \* iterations of thread_test_fn (5 in the code)
  StdioFails, \* TRUE: a new process may get no file for its descriptors
  AtomicPid   \* TRUE: no interrupt falls inside "g_next_pid++" of the shell

ASSUME SchedAssumption ==
  /\ Shell \in Slots /\ Idle \notin Slots /\ NULL \notin Slots \cup {Idle}
  /\ Sigs \subseteq 1 .. 31
  /\ Commands \subseteq {"exec", "test"}
  /\ MaxCreate \in Nat /\ NTest \in Nat \ {0} /\ NIter \in Nat
  /\ StdioFails \in BOOLEAN /\ AtomicPid \in BOOLEAN

Threads == Slots \cup {Idle}

Statuses == {"RUNNING", "READY", "WAITING", "SLEEPING", "TERMINATED"}

VARIABLES
  current,     \* the tp register: the thread on the hart
  queued,      \* the threads linked into g_run_queue
  stamp,       \* when each was linked: the ring, from idle, is newest first
  enqueues,    \* threads linked so far
  nextPid,     \* g_next_pid
  foreground,  \* g_foreground_pid
  pid, status, parent, waitingPid, users,
  handlers, pending, active,  \* signal_handlers, pending_signals, signal_active
  due,         \* the thread's wake_time has passed
  at,          \* where the thread continues
  arg,         \* its local: the pid waited for, or the iterations left
  newThread,   \* shell: the struct allocated and not yet enqueued
  loadedPid,   \* shell: the value of g_next_pid it has read
  created,     \* shell: the struct it has enqueued and whose pid it will read
  cmd,         \* shell: the command being executed
  tried,       \* shell: how many threads scheduler_thread_test has created
  testPids     \* shell: their pids, without the -1 of those it could not

queueVars  == <<queued, stamp, enqueues>>
signalVars == <<handlers, pending, active>>
shellVars  == <<newThread, loadedPid, created, cmd, tried,
                testPids>>
birthVars  == <<nextPid, pid, users>>
vars == <<current, queueVars, birthVars, foreground, status, parent,
          waitingPid, signalVars, due, at, arg, shellVars>>

-----------------------------------------------------------------------------
(* State at the head of the loop of start_kernel: idle runs, shell is ready. *)

Init ==
  /\ current = Idle
  /\ queued = {Idle, Shell}
  /\ stamp = [t \in Threads |-> IF t = Shell THEN 1 ELSE 0]
  /\ enqueues = 1
  /\ nextPid = 2
  /\ foreground = -1
  /\ pid = [t \in Threads |-> IF t = Shell THEN 1 ELSE 0]
  /\ status = [t \in Threads |-> CASE t = Idle -> "RUNNING"
                                   [] t = Shell -> "READY"
                                   [] OTHER -> "TERMINATED"]
  /\ parent = [t \in Threads |-> NULL]
  /\ waitingPid = [t \in Threads |-> -1]
  /\ users = {}
  /\ handlers = [t \in Threads |-> {}]
  /\ pending = [t \in Threads |-> {}]
  /\ active = [t \in Threads |-> FALSE]
  /\ due = [t \in Threads |-> FALSE]
  /\ at = [t \in Threads |-> IF t = Idle THEN "reap" ELSE "poll"]
  /\ arg = [t \in Threads |-> 0]
  /\ newThread = NULL
  /\ loadedPid = 0
  /\ created = NULL
  /\ cmd = "none"
  /\ tried = 0
  /\ testPids = {}

-----------------------------------------------------------------------------
(* Operators of sched.c.                                                     *)

Free == Slots \ (queued \cup {newThread})

(* scheduler_find walks the ring from idle, so of two equal pids it finds   *)
(* the thread enqueued last.                                                *)
Holders(p) == {t \in queued : pid[t] = p}
Find(p) ==
  IF Holders(p) = {} THEN NULL
  ELSE IF Idle \in Holders(p) THEN Idle
  ELSE CHOOSE t \in Holders(p) : \A u \in Holders(p) : stamp[u] <= stamp[t]

Finished(p) == Find(p) # NULL => status[Find(p)] = "TERMINATED"

(* The position of u when the ring is walked from t->next: older threads    *)
(* first, idle (stamp 0) after the oldest, then the newest, t itself last.  *)
Distance(t, u) ==
  IF stamp[u] < stamp[t] THEN stamp[t] - stamp[u]
  ELSE stamp[t] + enqueues + 1 - stamp[u]

Runnable(st) == {t \in queued : st[t] \in {"READY", "RUNNING"}}

(* Faulty variant: always the first runnable thread from the head.           *)
IsNextFromHead(st, next) ==
  /\ next \in Runnable(st) \cup {Idle}
  /\ \A u \in Runnable(st) : Distance(Idle, next) <= Distance(Idle, u)

IsNext(st, next) ==
  IF Runnable(st) = {} THEN next = Idle
  ELSE /\ next \in Runnable(st)
       /\ \A u \in Runnable(st) : Distance(current, next) <= Distance(current, u)

(* Faulty variant: the previous thread is left RUNNING.                      *)
ScheduleNoDemote(st) ==
  \E next \in Threads : /\ IsNext(st, next)
                        /\ current' = next
                        /\ status' = [st EXCEPT ![next] = "RUNNING"]

(* schedule(), called by current when the statuses are st.                  *)
Schedule(st) ==
  \E next \in Threads :
    /\ IsNext(st, next)
    /\ current' = next
    /\ status' = [t \in Threads |->
                    IF t = next THEN "RUNNING"
                    ELSE IF t = current /\ st[t] = "RUNNING" THEN "READY"
                    ELSE st[t]]

(* Faulty variants: wake_waiting_parent() is forgotten; or it compares the    *)
(* parent with no pid at all.                                                *)
WokenNever(child) == {}
WokenByAny(child) == {p \in Threads : p = parent[child] /\ status[p] = "WAITING"}

(* child->status = THREAD_TERMINATED; wake_waiting_parent(child)            *)
Woken(child) == {p \in Threads : /\ p = parent[child]
                                 /\ status[p] = "WAITING"
                                 /\ waitingPid[p] = pid[child]}
(* Faulty variant: the parent is not told.                                   *)
EndedSilently(child) == [status EXCEPT ![child] = "TERMINATED"]

Ended(child) == [t \in Threads |-> IF t = child THEN "TERMINATED"
                                   ELSE IF t \in Woken(child) THEN "READY"
                                   ELSE status[t]]
WaitingAfter(child) ==
  [t \in Threads |-> IF t \in Woken(child) THEN -1 ELSE waitingPid[t]]

(* thread_exit(), by current: also the foreground pid is given up.          *)
ThreadExit ==
  /\ foreground' = IF pid[current] = foreground THEN -1 ELSE foreground
  /\ waitingPid' = WaitingAfter(current)
  /\ Schedule(Ended(current))

(* Another thread is terminated: stop and the default action of a signal.   *)
TerminateOther(t) ==
  /\ status' = Ended(t)
  /\ waitingPid' = WaitingAfter(t)
  /\ UNCHANGED <<current, foreground>>

-----------------------------------------------------------------------------
(* System calls, by a user thread running in U-mode.                         *)

InUser(t) == current = t /\ t \in users /\ at[t] = "user"

Return(t) == at' = [at EXCEPT ![t] = "ret"]

(* syscall_fork: the child starts on the way out of the trap.                *)
Fork(t, s) ==
  /\ InUser(t) /\ s \in Free /\ enqueues < MaxCreate
  /\ pid' = [pid EXCEPT ![s] = nextPid]
  /\ nextPid' = nextPid + 1
  /\ users' = users \cup {s}
  /\ status' = [status EXCEPT ![s] = "READY"]
  /\ parent' = [parent EXCEPT ![s] = t]
  /\ waitingPid' = [waitingPid EXCEPT ![s] = -1]
  /\ handlers' = [handlers EXCEPT ![s] = handlers[t]]
  /\ pending' = [pending EXCEPT ![s] = {}]
  /\ active' = [active EXCEPT ![s] = FALSE]
  /\ due' = [due EXCEPT ![s] = FALSE]
  /\ at' = [at EXCEPT ![s] = "ret", ![t] = "ret"]
  /\ arg' = [arg EXCEPT ![s] = 0]
  /\ queued' = queued \cup {s}
  /\ enqueues' = enqueues + 1
  /\ stamp' = [stamp EXCEPT ![s] = enqueues + 1]
  /\ UNCHANGED <<current, foreground, shellVars>>

(* syscall_exec: the same thread; clear_signal_runtime, handlers are kept.   *)
Exec(t) ==
  /\ InUser(t)
  /\ pending' = [pending EXCEPT ![t] = {}]
  /\ active' = [active EXCEPT ![t] = FALSE]
  /\ Return(t)
  /\ UNCHANGED <<current, queueVars, birthVars, foreground, status, parent,
                 waitingPid, handlers, due, arg, shellVars>>

(* target->parent = 0: the caller has collected its zombie.                  *)
Collect(p) ==
  parent' = IF Find(p) # NULL /\ status[Find(p)] = "TERMINATED"
            THEN [parent EXCEPT ![Find(p)] = NULL] ELSE parent

(* syscall_waitpid on a thread that is gone or finished returns at once.     *)
WaitpidNow(t, p) ==
  /\ InUser(t) /\ Find(p) # Idle /\ Finished(p)
  /\ Collect(p)
  /\ Return(t)
  /\ UNCHANGED <<current, queueVars, birthVars, foreground, status,
                 waitingPid, signalVars, due, arg, shellVars>>

(* Otherwise the caller waits for any live thread, its child or not.         *)
WaitpidBlock(t, p) ==
  /\ InUser(t) /\ ~Finished(p) /\ Find(p) # Idle
  /\ waitingPid' = [waitingPid EXCEPT ![t] = p]
  /\ arg' = [arg EXCEPT ![t] = p]
  /\ at' = [at EXCEPT ![t] = "waitpid"]
  /\ Schedule([status EXCEPT ![t] = "WAITING"])
  /\ UNCHANGED <<queueVars, birthVars, foreground, parent, signalVars, due,
                 shellVars>>

WaitpidReturn(t) ==
  /\ current = t /\ at[t] = "waitpid"
  /\ Collect(arg[t])
  /\ arg' = [arg EXCEPT ![t] = 0]
  /\ Return(t)
  /\ UNCHANGED <<current, queueVars, birthVars, foreground, status,
                 waitingPid, signalVars, due, shellVars>>

(* syscall_exit, and the exit of a thread that faults.                       *)
Exit(t) ==
  /\ InUser(t)
  /\ ThreadExit
  /\ UNCHANGED <<queueVars, birthVars, parent, signalVars, due, at, arg,
                 shellVars>>

(* syscall_stop: any thread but idle, kernel threads and zombies included.   *)
Stop(t, p) ==
  LET target == Find(p)
  IN  /\ InUser(t) /\ target \notin {NULL, Idle}
      /\ IF target = t
           THEN ThreadExit /\ UNCHANGED at
           ELSE TerminateOther(target) /\ Return(t)
      /\ UNCHANGED <<queueVars, birthVars, parent, signalVars, due, arg,
                     shellVars>>

(* syscall_display, and the polling of syscall_uart_read: give up the hart.  *)
Yield(t) ==
  /\ InUser(t)
  /\ Schedule(status)
  /\ Return(t)
  /\ UNCHANGED <<queueVars, birthVars, foreground, parent, waitingPid,
                 signalVars, due, arg, shellVars>>

(* syscall_usleep.  Its loop never goes round again: only the clock and a    *)
(* signal make a sleeper runnable, and either one ends it.                   *)
Usleep(t) ==
  /\ InUser(t) /\ pending[t] = {}
  /\ due' = [due EXCEPT ![t] = FALSE]
  /\ at' = [at EXCEPT ![t] = "usleep"]
  /\ Schedule([status EXCEPT ![t] = "SLEEPING"])
  /\ UNCHANGED <<queueVars, birthVars, foreground, parent, waitingPid,
                 signalVars, arg, shellVars>>

(* usleep(0), usleep with a signal pending, and every call that fails.       *)
ReturnAtOnce(t) ==
  /\ InUser(t)
  /\ Return(t)
  /\ UNCHANGED <<current, queueVars, birthVars, foreground, status, parent,
                 waitingPid, signalVars, due, arg, shellVars>>

UsleepReturn(t) ==
  /\ current = t /\ at[t] = "usleep" /\ (due[t] \/ pending[t] # {})
  /\ due' = [due EXCEPT ![t] = FALSE]
  /\ Return(t)
  /\ UNCHANGED <<current, queueVars, birthVars, foreground, status, parent,
                 waitingPid, signalVars, arg, shellVars>>

(* The clock reaches the wake_time of a thread in syscall_usleep.            *)
TimePasses(t) ==
  /\ t \in queued /\ at[t] = "usleep" /\ ~due[t]
  /\ status[t] # "TERMINATED"
  /\ due' = [due EXCEPT ![t] = TRUE]
  /\ UNCHANGED <<current, queueVars, birthVars, foreground, status, parent,
                 waitingPid, signalVars, at, arg, shellVars>>

-----------------------------------------------------------------------------
(* Signals.                                                                  *)

(* syscall_signal: registers a handler, or resets it with a null one.        *)
Signal(t, sig) ==
  /\ InUser(t)
  /\ \E set \in {handlers[t] \cup {sig}, handlers[t] \ {sig}} :
       handlers' = [handlers EXCEPT ![t] = set]
  /\ Return(t)
  /\ UNCHANGED <<current, queueVars, birthVars, foreground, status, parent,
                 waitingPid, pending, active, due, arg, shellVars>>

(* syscall_kill, the target has a handler: a sleeper or waiter is woken.     *)
KillHandled(t, p, sig) ==
  LET target == Find(p)
  IN  /\ InUser(t) /\ target \in users /\ status[target] # "TERMINATED"
      /\ sig \in handlers[target]
      /\ pending' = [pending EXCEPT ![target] = @ \cup {sig}]
      /\ IF status[target] \in {"SLEEPING", "WAITING"}
           THEN /\ status' = [status EXCEPT ![target] = "READY"]
                /\ waitingPid' = [waitingPid EXCEPT ![target] = -1]
           ELSE UNCHANGED <<status, waitingPid>>
      /\ Return(t)
      /\ UNCHANGED <<current, queueVars, birthVars, foreground, parent,
                     handlers, active, due, arg, shellVars>>

(* syscall_kill, no handler: terminate_thread_for_signal.                    *)
KillDefault(t, p, sig) ==
  LET target == Find(p)
  IN  /\ InUser(t) /\ target \in users /\ status[target] # "TERMINATED"
      /\ sig \notin handlers[target]
      /\ IF target = t
           THEN ThreadExit /\ UNCHANGED at
           ELSE TerminateOther(target) /\ Return(t)
      /\ UNCHANGED <<queueVars, birthVars, parent, signalVars, due, arg,
                     shellVars>>

SigReturn(t) ==
  /\ InUser(t) /\ active[t]
  /\ active' = [active EXCEPT ![t] = FALSE]
  /\ Return(t)
  /\ UNCHANGED <<current, queueVars, birthVars, foreground, status, parent,
                 waitingPid, handlers, pending, due, arg, shellVars>>

(* ret_from_exception: signal_deliver, then sret.  A signal is delivered     *)
(* only when no handler runs, the lowest number first; without memory for    *)
(* the signal stack it stays pending.                                        *)
AtReturn(t) == current = t /\ t \in users /\ at[t] = "ret"
Deliverable(t) == IF active[t] THEN {} ELSE pending[t]
Lowest(S) == CHOOSE sig \in S : \A other \in S : sig <= other

ReturnPlain(t) ==
  /\ AtReturn(t)
  /\ Deliverable(t) # {} =>                        \* no signal stack
       Lowest(Deliverable(t)) \in handlers[t]
  /\ at' = [at EXCEPT ![t] = "user"]
  /\ UNCHANGED <<current, queueVars, birthVars, foreground, status, parent,
                 waitingPid, signalVars, due, arg, shellVars>>

ReturnToHandler(t) ==
  /\ AtReturn(t) /\ Deliverable(t) # {}
  /\ Lowest(Deliverable(t)) \in handlers[t]
  /\ pending' = [pending EXCEPT ![t] = @ \ {Lowest(Deliverable(t))}]
  /\ active' = [active EXCEPT ![t] = TRUE]
  /\ at' = [at EXCEPT ![t] = "user"]
  /\ UNCHANGED <<current, queueVars, birthVars, foreground, status, parent,
                 waitingPid, handlers, due, arg, shellVars>>

ReturnTerminated(t) ==
  /\ AtReturn(t) /\ Deliverable(t) # {}
  /\ Lowest(Deliverable(t)) \notin handlers[t]
  /\ pending' = [pending EXCEPT ![t] = @ \ {Lowest(Deliverable(t))}]
  /\ ThreadExit
  /\ UNCHANGED <<queueVars, birthVars, parent, handlers, active, due, at,
                 arg, shellVars>>

-----------------------------------------------------------------------------
(* Kernel threads.                                                           *)

AtKernel(t, pc) == current = t /\ t \in queued \ users /\ at[t] = pc

(* Faulty variant: only the children of terminated parents are reaped.       *)
ZombiesOfDead(reused) ==
  {t \in queued \ {Idle} :
     /\ status[t] = "TERMINATED" /\ parent[t] # NULL
     /\ status[parent[t]] = "TERMINATED"}

(* kill_zombies.  The parent pointer may dangle: a freed struct keeps its    *)
(* last status until the memory is used again, by another object (reused)    *)
(* with any bytes or by a new thread.                                        *)
Zombies(reused) ==
  {t \in queued \ {Idle} :
     /\ status[t] = "TERMINATED"
     /\ \/ parent[t] \in {NULL, Idle}
        \/ status[parent[t]] = "TERMINATED" /\ parent[t] \notin reused}

Reap(reused) ==
  LET dead == Zombies(reused)
  IN  /\ AtKernel(Idle, "reap")
      /\ queued' = queued \ dead
      /\ users' = users \ dead
      /\ stamp' = [t \in Threads |-> IF t \in dead THEN 0 ELSE stamp[t]]
      /\ pid' = [t \in Threads |-> IF t \in dead THEN 0 ELSE pid[t]]
      /\ parent' = [t \in Threads |-> IF t \in dead THEN NULL ELSE parent[t]]
      /\ waitingPid' =
           [t \in Threads |-> IF t \in dead THEN -1 ELSE waitingPid[t]]
      /\ handlers' = [t \in Threads |-> IF t \in dead THEN {} ELSE handlers[t]]
      /\ pending' = [t \in Threads |-> IF t \in dead THEN {} ELSE pending[t]]
      /\ active' = [t \in Threads |-> t \notin dead /\ active[t]]
      /\ due' = [t \in Threads |-> t \notin dead /\ due[t]]
      /\ arg' = [t \in Threads |-> IF t \in dead THEN 0 ELSE arg[t]]
      /\ at' = [t \in Threads |-> IF t = Idle THEN "yield"
                                  ELSE IF t \in dead THEN "poll" ELSE at[t]]
      /\ UNCHANGED <<current, enqueues, nextPid, foreground, status, shellVars>>

KernelSchedule ==
  /\ Schedule(status)
  /\ UNCHANGED <<queueVars, birthVars, parent, waitingPid, signalVars, due>>

IdleYield ==
  /\ AtKernel(Idle, "yield")
  /\ at' = [at EXCEPT ![Idle] = "reap"]
  /\ KernelSchedule
  /\ UNCHANGED <<foreground, arg, shellVars>>

(* scheduler_foreground_active, which forgets a foreground pid that is gone. *)
ForegroundActive == foreground >= 0 /\ ~Finished(foreground)

ForegroundAfter == IF ForegroundActive THEN foreground ELSE -1

(* One turn of kernel_shell_thread that runs no command.                     *)
ShellTurn ==
  /\ AtKernel(Shell, "poll") /\ cmd = "none"
  /\ foreground' = ForegroundAfter
  /\ KernelSchedule
  /\ UNCHANGED <<at, arg, shellVars>>

(* A command line is read, only while no process is in the foreground.       *)
ShellBegin(c) ==
  /\ AtKernel(Shell, "poll") /\ cmd = "none" /\ ~ForegroundActive
  /\ foreground' = -1
  /\ cmd' = c
  /\ UNCHANGED <<current, queueVars, birthVars, status, parent, waitingPid,
                 signalVars, due, at, arg, newThread, loadedPid, created,
                 tried, testPids>>

(* thread_create and user_process_create_from_image run with interrupts on:  *)
(* t = alloc(), then the load, the store of g_next_pid++, then enqueue.      *)
ShellAlloc(s) ==
  /\ AtKernel(Shell, "poll") /\ cmd # "none"
  /\ s \in Free /\ enqueues < MaxCreate /\ nextPid <= MaxCreate
  /\ newThread' = s
  /\ loadedPid' = nextPid
  /\ at' = [at EXCEPT ![Shell] = "pid"]
  /\ UNCHANGED <<current, queueVars, birthVars, foreground, status, parent,
                 waitingPid, signalVars, due, arg, created, cmd, tried,
                 testPids>>

ShellStorePid ==
  /\ AtKernel(Shell, "pid")
  /\ nextPid' = loadedPid + 1
  /\ at' = [at EXCEPT ![Shell] = "enq"]
  /\ UNCHANGED <<current, queueVars, pid, users, foreground, status, parent,
                 waitingPid, signalVars, due, arg, shellVars>>

EnqueueNew ==
  /\ AtKernel(Shell, "enq")
  /\ pid' = [pid EXCEPT ![newThread] = loadedPid]
  /\ status' = [status EXCEPT ![newThread] = "READY"]
  /\ queued' = queued \cup {newThread}
  /\ enqueues' = enqueues + 1
  /\ stamp' = [stamp EXCEPT ![newThread] = enqueues + 1]
  /\ newThread' = NULL /\ created' = newThread
  /\ UNCHANGED <<current, nextPid, foreground, waitingPid, signalVars, due,
                 loadedPid, cmd, tried, testPids>>

EnqueueProcess ==
  /\ EnqueueNew /\ cmd = "exec"
  /\ users' = users \cup {newThread}
  /\ parent' = [parent EXCEPT ![newThread] = Shell]
  /\ at' = [at EXCEPT ![newThread] = "ret", ![Shell] = "fg"]
  /\ UNCHANGED arg

(* vfs_thread_init_stdio fails: the struct is freed, its pid is used up.     *)
NoStdio ==
  /\ AtKernel(Shell, "enq") /\ cmd = "exec" /\ StdioFails
  /\ newThread' = NULL /\ loadedPid' = 0 /\ cmd' = "none"
  /\ at' = [at EXCEPT ![Shell] = "poll"]
  /\ UNCHANGED <<current, queueVars, birthVars, foreground, status, parent,
                 waitingPid, signalVars, due, arg, created, tried, testPids>>

EnqueueTestThread ==
  /\ EnqueueNew /\ cmd = "test"
  /\ at' = [at EXCEPT ![newThread] = "work", ![Shell] = "note"]
  /\ arg' = [arg EXCEPT ![newThread] = NIter]
  /\ UNCHANGED <<users, parent>>

(* t->pid is read after t was enqueued: by then t may have run, ended and    *)
(* been freed.  The memory holds the pid until it is used again: by a thread, *)
(* or by something else of that size, whose bytes the model takes to be 0.   *)
PidRead == IF created \in queued THEN {pid[created]} ELSE {loadedPid, 0}

(* user_process_create_from_file sets g_foreground_pid; the shell yields.    *)
ShellForeground ==
  /\ AtKernel(Shell, "fg")
  /\ foreground' \in PidRead
  /\ created' = NULL /\ loadedPid' = 0 /\ cmd' = "none"
  /\ at' = [at EXCEPT ![Shell] = "poll"]
  /\ KernelSchedule
  /\ UNCHANGED <<arg, newThread, tried, testPids>>

(* pid[i] of scheduler_thread_test is filled; then the next i, or the wait.  *)
Note(pids) ==
  /\ testPids' = testPids \cup pids /\ tried' = tried + 1
  /\ at' = [at EXCEPT ![Shell] = IF tried + 1 < NTest THEN "poll" ELSE "join"]

ShellNote ==
  /\ AtKernel(Shell, "note")
  /\ \E p \in PidRead : Note({p})
  /\ created' = NULL /\ loadedPid' = 0
  /\ UNCHANGED <<current, queueVars, birthVars, foreground, status, parent,
                 waitingPid, signalVars, due, arg, newThread, cmd>>

(* The wait loop of scheduler_thread_test.                                   *)
ShellJoin ==
  /\ AtKernel(Shell, "join")
  /\ IF \A p \in testPids : Finished(p)
       THEN /\ testPids' = {} /\ tried' = 0 /\ cmd' = "none"
            /\ at' = [at EXCEPT ![Shell] = "poll"]
       ELSE UNCHANGED <<testPids, tried, cmd, at>>
  /\ KernelSchedule
  /\ UNCHANGED <<foreground, arg, newThread, loadedPid, created>>

(* A command that cannot allocate (or whose file is absent) is given up;     *)
(* threadtest notes -1 and goes on with its next thread.                     *)
ShellGiveUp ==
  /\ AtKernel(Shell, "poll") /\ cmd # "none"
  /\ IF cmd = "test" THEN Note({}) /\ UNCHANGED cmd
                     ELSE cmd' = "none" /\ UNCHANGED <<at, tried, testPids>>
  /\ UNCHANGED <<current, queueVars, birthVars, foreground, status, parent,
                 waitingPid, signalVars, due, arg, newThread, loadedPid,
                 created>>

(* thread_test_fn: NIter times print and schedule(), then thread_exit().     *)
TestTurn(t) ==
  /\ AtKernel(t, "work")
  /\ IF arg[t] > 0
       THEN /\ arg' = [arg EXCEPT ![t] = @ - 1]
            /\ Schedule(status)
            /\ UNCHANGED <<foreground, waitingPid>>
       ELSE ThreadExit /\ UNCHANGED arg
  /\ UNCHANGED <<queueVars, birthVars, parent, signalVars, due, at, shellVars>>

-----------------------------------------------------------------------------
(* Interrupts.  They are taken in U-mode and wherever the kernel runs with   *)
(* SIE set: kernel threads, and tasks run on the way back to U-mode.         *)

Interruptible ==
  /\ at[current] \notin {"waitpid", "usleep"}
  /\ at[current] = "pid" => ~AtomicPid

Interrupt(st) ==
  /\ Interruptible
  /\ Schedule(st)
  /\ at' = IF at[current] = "user" THEN [at EXCEPT ![current] = "ret"] ELSE at
  /\ UNCHANGED <<queueVars, birthVars, foreground, parent, waitingPid,
                 signalVars, due, arg, shellVars>>

(* Faulty variant: whoever slept is made READY.                              *)
AwakeAnyDue == [t \in Threads |-> IF t \in queued /\ due[t] THEN "READY"
                                  ELSE status[t]]

(* scheduler_wake_sleepers, then schedule()                                  *)
Awake == [t \in Threads |-> IF /\ t \in queued
                               /\ status[t] = "SLEEPING" /\ due[t]
                            THEN "READY" ELSE status[t]]
TimerInterrupt == Interrupt(Awake)
ExternalInterrupt == Interrupt(status)

-----------------------------------------------------------------------------
Pids == 0 .. enqueues + 1

UserCall(t) ==
  \/ \E s \in Slots : Fork(t, s)
  \/ \E p \in Pids : WaitpidNow(t, p) \/ WaitpidBlock(t, p) \/ Stop(t, p)
  \/ \E p \in Pids, sig \in Sigs : KillHandled(t, p, sig) \/ KillDefault(t, p, sig)
  \/ \E sig \in Sigs : Signal(t, sig)
  \/ Exec(t) \/ Exit(t) \/ Yield(t) \/ Usleep(t) \/ ReturnAtOnce(t)
  \/ SigReturn(t)

(* What the thread does in the kernel whenever it is on the hart.            *)
KernelStep(t) ==
  \/ WaitpidReturn(t) \/ UsleepReturn(t)
  \/ ReturnPlain(t) \/ ReturnToHandler(t) \/ ReturnTerminated(t)
  \/ TestTurn(t)

ShellStep ==
  \/ \E s \in Slots : ShellAlloc(s)
  \/ ShellTurn \/ ShellStorePid
  \/ EnqueueProcess \/ NoStdio \/ EnqueueTestThread
  \/ ShellForeground \/ ShellNote
  \/ ShellJoin \/ ShellGiveUp

IdleStep == (\E reused \in SUBSET Free : Reap(reused)) \/ IdleYield

Next ==
  \/ \E t \in Slots : UserCall(t) \/ KernelStep(t) \/ TimePasses(t)
  \/ \E c \in Commands : ShellBegin(c)
  \/ ShellStep \/ IdleStep
  \/ TimerInterrupt \/ ExternalInterrupt

Spec == Init /\ [][Next]_vars

(* A pending timer interrupt stays pending until SIE is set, so the timer is *)
(* taken again and again (strong fairness).  A kernel path is far shorter    *)
(* than a tick: a thread that gets the hart again and again in the kernel    *)
(* does not repeat one instruction for ever.  User code may do anything,     *)
(* loop for ever included: no system call is fair.                           *)
Fairness ==
  /\ SF_vars(TimerInterrupt)
  /\ SF_vars(ShellStep) /\ SF_vars(IdleStep)
  /\ \A t \in Slots : SF_vars(KernelStep(t)) /\ WF_vars(TimePasses(t))

FairSpec == Spec /\ Fairness
-----------------------------------------------------------------------------
(* The type invariant.                                                       *)
TypeOK ==
  /\ current \in Threads
  /\ queued \subseteq Threads /\ users \subseteq Slots
  /\ stamp \in [Threads -> Nat] /\ enqueues \in Nat
  /\ nextPid \in Nat /\ foreground \in Int
  /\ pid \in [Threads -> Nat]
  /\ status \in [Threads -> Statuses]
  /\ parent \in [Threads -> Threads \cup {NULL}]
  /\ waitingPid \in [Threads -> Int]
  /\ handlers \in [Threads -> SUBSET Sigs]
  /\ pending \in [Threads -> SUBSET Sigs]
  /\ active \in [Threads -> BOOLEAN]
  /\ due \in [Threads -> BOOLEAN]
  /\ at \in [Threads -> {"user", "ret", "waitpid", "usleep", "reap", "yield",
                         "poll", "pid", "enq", "fg", "note", "join", "work"}]
  /\ arg \in [Threads -> Nat]
  /\ newThread \in Slots \cup {NULL} /\ loadedPid \in Nat
  /\ created \in Slots \cup {NULL}
  /\ cmd \in {"none", "exec", "test"}
  /\ tried \in Nat /\ testPids \subseteq Nat

(* Exactly the thread on the hart is RUNNING and it is in the run queue:     *)
(* kill_zombies never frees the stack in use, and no path through            *)
(* thread_exit, stop, kill and the wakeups leaves two RUNNING threads.       *)
OneRunning ==
  /\ current \in queued
  /\ \A t \in Threads : status[t] = "RUNNING" <=> t = current

(* No wakeup is lost between parent and child: a parent asleep in waitpid    *)
(* on one of its children never has that child finished, by exit, stop,      *)
(* kill or a signal's default action.                                        *)
NoLostWakeup ==
  \A t, c \in queued :
    /\ status[t] = "WAITING"
    /\ parent[c] = t /\ pid[c] = waitingPid[t]
    => status[c] # "TERMINATED"

(* waitpid is left early only for a signal: once the waiter is runnable      *)
(* again the thread it waited for is finished, or a signal is pending.       *)
WaitEndsWithTarget ==
  \A t \in queued :
    at[t] = "waitpid" /\ status[t] \in {"READY", "RUNNING"}
    => Finished(arg[t]) \/ pending[t] # {}

(* A signal wakes its target out of usleep: nobody sleeps on a pending one.  *)
SleeperHasNoSignal ==
  \A t \in queued : status[t] = "SLEEPING" => pending[t] = {}

(* So a blocked thread runs again for no other reason than what it waits for *)
(* or a signal, and a signal always makes it.                                *)
WokenRightly == WaitEndsWithTarget /\ SleeperHasNoSignal

(* A terminated thread never becomes runnable again, by a late wakeup, a     *)
(* signal or schedule(); its struct may only be freed.                       *)
NoRevival ==
  [][\A t \in queued : status[t] = "TERMINATED" =>
       status'[t] = "TERMINATED" \/ t \notin queued']_vars

ShellAlive == Shell \in queued \ users /\ status[Shell] # "TERMINATED"
Gone(t) == t \notin queued \/ status[t] = "TERMINATED"

(* Round robin starves nobody: a READY thread gets the hart, however the     *)
(* others fork (new threads enter at the head of the ring), exit and sleep.  *)
ReadyRuns ==
  \A t \in Slots : status[t] = "READY" ~> status[t] # "READY"

(* A sleeper returns from usleep: its time comes, a tick wakes it, it runs.  *)
SleeperReturns ==
  \A t \in Slots : at[t] = "usleep" ~> at[t] # "usleep" \/ Gone(t)

(* A parent whose child finished returns from waitpid.                       *)
ParentReturns ==
  \A t \in Slots :
    (/\ at[t] = "waitpid"
     /\ \E c \in queued : /\ parent[c] = t /\ pid[c] = arg[t]
                          /\ status[c] = "TERMINATED")
    ~> at[t] # "waitpid" \/ Gone(t)

(* A zombie that nobody is left to wait for (collected, or without a         *)
(* parent) is freed by the idle thread.                                      *)
CollectedFreed ==
  \A t \in Slots :
    (t \in queued /\ status[t] = "TERMINATED" /\ parent[t] = NULL)
    ~> t \notin queued

(* When the foreground process is gone the shell notices, however it ended,  *)
(* and gives itself the console again.                                       *)
ShellTakesOver ==
  (foreground > 0 /\ Finished(foreground)) ~> (foreground = -1 \/ ~ShellAlive)

(* The threadtest command comes back to the prompt, unless a pid it read     *)
(* from a struct already freed names someone else's thread.                  *)
OwnPid(p) == p < nextPid /\ (Find(p) = NULL \/ at[Find(p)] = "work")
ThreadTestReturns ==
  (at[Shell] = "join" /\ \A p \in testPids : OwnPid(p))
  ~> at[Shell] # "join" \/ ~ShellAlive

(* Whoever blocks in the kernel comes back.                                  *)
BlockedReturns == SleeperReturns /\ ParentReturns /\ ThreadTestReturns

(* The end of a thread is noticed: by the idle thread and by the shell.      *)
EndIsNoticed == CollectedFreed /\ ShellTakesOver
=============================================================================
