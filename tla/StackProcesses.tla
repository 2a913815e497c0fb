--------------------------- MODULE StackProcesses ---------------------------
(***************************************************************************)
(* The processes of the lab5 kernel, which has no virtual memory: every     *)
(* process has a stack of its own in the one address space, fork copies it, *)
(* and a handler gets a further one.  What can go wrong is that a register  *)
(* or a word of a copied stack still points into a stack that belongs to    *)
(* someone else, or to nobody any more.                                     *)
(*                                                                          *)
(* Of the registers the model keeps those fork adjusts, sp and s0, and of   *)
(* the stacks the saved frame pointers; an address is the block it lies in. *)
(* System calls run with interrupts off and are one action.  A block is     *)
(* named after whom and what for it is allocated; any alloc may fail.       *)
(***************************************************************************)
EXTENDS Integers, FiniteSets, FiniteSetsExt, Sequences, SequencesExt, Functions

CONSTANTS
  Procs,           \* addresses of the structs of user processes
  Shell, Idle, NoThread,
  Signals,         \* signal numbers in use
  Calls,           \* bound: calls in progress on one stack
  PlainFork        \* is fork called only by the program, below no other frame?

ASSUME StackProcessesAssumption ==
  /\ IsFiniteSet(Procs) /\ Shell # Idle /\ {Shell, Idle, NoThread} \cap Procs = {}
  /\ Signals \subseteq Nat /\ Calls \in Nat

VARIABLES
  procs,    \* struct thread of every process; Shell and Idle never block
  ring,     \* the circular run queue from g_run_queue on
  running,  \* the thread on the hart
  used,     \* allocated blocks
  frames    \* frame pointers saved in a stack, the innermost last
stackVars == <<procs, ring, running, used, frames>>

Nothing == <<>>
Stacks == {"user_stack", "signal_stack"}
Kinds == Stacks \cup {"struct", "kernel_stack"}
Blocks == Procs \X Kinds \X {1, 2}
Block(t, k) == <<t, k, CHOOSE n \in {1, 2} : <<t, k, n>> \notin used>>
Granted(t, kinds) == [k \in Kinds |-> IF k \in kinds THEN Block(t, k) ELSE Nothing]
BlocksOf(own) == {own[k] : k \in Kinds} \ {Nothing}

(* asked: whom a waitpid under way was called for; saved: signal_saved_tf.   *)
NoRegs == [sp |-> Nothing, s0 |-> Nothing]
Blank == [status |-> "none", parent |-> NoThread, waits |-> NoThread, asked |-> NoThread,
          at |-> "ret", handlers |-> {}, pending |-> {}, active |-> FALSE,
          regs |-> NoRegs, saved |-> NoRegs, own |-> [k \in Kinds |-> Nothing]]
StacksInit == /\ procs = [t \in Procs |-> Blank] /\ ring = <<Idle, Shell>> /\ running = Idle
        /\ used = {} /\ frames = [b \in Blocks |-> <<>>]

(* What is left in a stack that is freed, or a dead thread's, is of no       *)
(* interest.                                                                 *)
Freed(bs) == [b \in Blocks |-> IF b \in bs THEN <<>> ELSE frames[b]]

Alive(t) == procs[t].status \notin {"none", "TERMINATED"}
InUser(p) == running = p /\ procs[p].at = "user"

-----------------------------------------------------------------------------
(* enqueue_thread: behind the head.                                          *)
Enqueued(t) == <<Head(ring), t>> \o Tail(ring)

(* schedule() when the threads are ts: the next runnable one, from the       *)
(* successor of current on and round the ring to current itself.             *)
Runnable(ts, t) == t \in {Shell, Idle} \/ ts[t].status \in {"READY", "RUNNING"}
NextOf(ts) ==
  LET at == CHOOSE i \in DOMAIN ring : ring[i] = running
      Further(n) == ring[1 + ((at - 1 + n) % Len(ring))]
  IN  Further(Min({n \in 1 .. Len(ring) : Runnable(ts, Further(n))}))
Schedule(ts) ==
  /\ running' = NextOf(ts) /\ UNCHANGED ring
  /\ procs' = [t \in Procs |->
              IF t = NextOf(ts) THEN [ts[t] EXCEPT !.status = "RUNNING"]
              ELSE IF t = running /\ ts[t].status = "RUNNING"
              THEN [ts[t] EXCEPT !.status = "READY"] ELSE ts[t]]

(* status = THREAD_TERMINATED and wake_waiting_parent.  Of a dead thread     *)
(* only its parent and its memory are ever looked at again.                  *)
Dead(s) == [Blank EXCEPT !.status = "TERMINATED", !.parent = s.parent, !.own = s.own]
Ended(t) ==
  [u \in Procs |->
     IF u = t THEN Dead(procs[u])
     ELSE IF u = procs[t].parent /\ procs[u].status = "WAITING" /\ procs[u].waits = t
     THEN [procs[u] EXCEPT !.status = "READY", !.waits = NoThread] ELSE procs[u]]
ThreadExit(p) == Schedule(Ended(p)) /\ frames' = Freed(BlocksOf(procs[p].own)) /\ UNCHANGED used
(* The end of p itself, or of another by stop and kill.                      *)
Terminate(p, t) ==
  IF t = p THEN ThreadExit(p)
  ELSE /\ procs' = [Ended(t) EXCEPT ![p].at = "ret"] /\ frames' = Freed(BlocksOf(procs[t].own))
       /\ UNCHANGED <<ring, running, used>>

Returns(p, s) == procs' = [procs EXCEPT ![p] = [s EXCEPT !.at = "ret"]] /\ UNCHANGED <<ring, running>>

-----------------------------------------------------------------------------
(* user_process_create by the shell; a failure gives back what it got.       *)
Create(t) ==
  LET own == Granted(t, Kinds \ {"signal_stack"})
  IN  /\ running = Shell /\ procs[t].status = "none"
      /\ used' = used \cup BlocksOf(own) /\ ring' = Enqueued(t)
      /\ procs' = [procs EXCEPT ![t] = [Blank EXCEPT
           !.status = "READY", !.parent = Shell, !.own = own,
           !.regs = [sp |-> own["user_stack"], s0 |-> Nothing]]]
      /\ UNCHANGED <<running, frames>>

(* adjust_stack_value                                                        *)
(* Faulty variant: only sp is adjusted, see AdjustedRegs.                    *)
Adjusted(b, old, new) == IF b = old THEN new ELSE b
AdjustedSpOnly(r, old, new) == [r EXCEPT !.sp = Adjusted(@, old, new)]
AdjustedRegs(r, old, new) == [sp |-> Adjusted(r.sp, old, new), s0 |-> Adjusted(r.s0, old, new)]

(* syscall_fork.  The words of the stack are copied as they are.             *)
MayFork(p) == ~PlainFork \/ (/\ procs[p].regs.sp = procs[p].own["user_stack"]
                             /\ \A i \in DOMAIN frames[procs[p].regs.sp] :
                                  frames[procs[p].regs.sp][i] = Nothing)
Fork(p, t) ==
  LET own == Granted(t, Kinds \ {"signal_stack"})
      old == procs[p].own["user_stack"]
      new == own["user_stack"]
  IN  /\ InUser(p) /\ procs[t].status = "none" /\ MayFork(p)
      /\ used' = used \cup BlocksOf(own) /\ ring' = Enqueued(t) /\ UNCHANGED running
      /\ frames' = [frames EXCEPT ![new] = frames[old]]
      /\ procs' = [procs EXCEPT ![p].at = "ret", ![t] =
           [procs[p] EXCEPT !.status = "READY", !.parent = p, !.pending = {}, !.active = FALSE,
             !.saved = NoRegs, !.own = own, !.regs = AdjustedRegs(@, old, new), !.at = "ret"]]
(* What a failed fork has been granted is freed again.                       *)
ForkFails(p, t) ==
  LET all == Kinds \ {"signal_stack"}
  IN  \E got \in SUBSET all \ {all} :
        /\ InUser(p) /\ procs[t].status = "none" /\ MayFork(p)
        /\ used' = (used \cup BlocksOf(Granted(t, got))) \ BlocksOf(Granted(t, got))
        /\ Returns(p, procs[p]) /\ UNCHANGED frames

(* clear_signal_runtime, with what it frees.                                 *)
(* Faulty variant: the signal stack is kept.                                 *)
ClearedButStack(s) == [s EXCEPT !.pending = {}, !.active = FALSE, !.saved = NoRegs]
ClearSignalRuntime(s) ==
  [s EXCEPT !.pending = {}, !.active = FALSE, !.saved = NoRegs, !.own["signal_stack"] = Nothing]
SignalStack(s) == {s.own["signal_stack"]} \ {ClearSignalRuntime(s).own["signal_stack"]}

(* syscall_exec: the new stack is allocated before the old one is freed.     *)
Exec(p) ==
  LET new == Block(p, "user_stack")
      old == {procs[p].own["user_stack"]} \cup SignalStack(procs[p])
  IN  /\ InUser(p)
      /\ used' = (used \cup {new}) \ old /\ frames' = Freed(old)
      /\ Returns(p, [ClearSignalRuntime(procs[p]) EXCEPT
                       !.own["user_stack"] = new, !.regs = [sp |-> new, s0 |-> Nothing]])
ExecFails(p) == InUser(p) /\ Returns(p, procs[p]) /\ UNCHANGED <<used, frames>>

(* syscall_waitpid on any process, a child or not.                           *)
Collected(t) == IF t # NoThread /\ procs[t].status = "TERMINATED"
                THEN [procs EXCEPT ![t].parent = NoThread] ELSE procs
Waitpid(p, t) ==
  /\ InUser(p) /\ procs[t].status # "none" /\ UNCHANGED <<used, frames>>
  /\ IF Alive(t)
     THEN Schedule([procs EXCEPT ![p].status = "WAITING", ![p].waits = t, ![p].asked = t,
                              ![p].at = "waitpid"])
     ELSE procs' = [Collected(t) EXCEPT ![p].at = "ret"] /\ UNCHANGED <<ring, running>>
WaitpidReturns(p) ==
  /\ running = p /\ procs[p].at = "waitpid" /\ UNCHANGED <<ring, running, used, frames>>
  /\ procs' = [Collected(procs[p].asked) EXCEPT ![p].at = "ret", ![p].asked = NoThread]

Exit(p) == InUser(p) /\ ThreadExit(p)
Stop(p, t) == InUser(p) /\ procs[t].status # "none" /\ Terminate(p, t)

(* syscall_usleep: a signal that is pending already keeps it from sleeping.  *)
Usleep(p) ==
  /\ InUser(p) /\ UNCHANGED <<used, frames>>
  /\ IF procs[p].pending = {} THEN Schedule([procs EXCEPT ![p].status = "SLEEPING", ![p].at = "ret"])
     ELSE Returns(p, procs[p])

-----------------------------------------------------------------------------
Signal(p, s) ==
  /\ InUser(p) /\ UNCHANGED <<used, frames>>
  /\ \E set \in {procs[p].handlers \cup {s}, procs[p].handlers \ {s}} :
       Returns(p, [procs[p] EXCEPT !.handlers = set])

(* make_signal_target_runnable                                               *)
MadeRunnable(r) == IF r.status \in {"SLEEPING", "WAITING"}
                   THEN [r EXCEPT !.status = "READY", !.waits = NoThread] ELSE r
Kill(p, t, s) ==
  /\ InUser(p) /\ Alive(t)
  /\ IF s \in procs[t].handlers
     THEN /\ procs' = [[procs EXCEPT ![t] = [MadeRunnable(procs[t]) EXCEPT !.pending = @ \cup {s}]]
                    EXCEPT ![p].at = "ret"]
          /\ UNCHANGED <<ring, running, used, frames>>
     ELSE Terminate(p, t)

Sigreturn(p) ==
  /\ InUser(p) /\ procs[p].active
  /\ used' = used \ {procs[p].own["signal_stack"]}
  /\ frames' = Freed({procs[p].own["signal_stack"]})
  /\ Returns(p, [procs[p] EXCEPT !.regs = procs[p].saved, !.saved = NoRegs, !.active = FALSE,
                              !.own["signal_stack"] = Nothing])

(* signal_deliver, on the way to user mode; s0 stays what it is.             *)
Deliverable(p) == IF procs[p].active THEN {} ELSE procs[p].pending
Deliver(p, s) ==
  LET stack == Block(p, "signal_stack")
  IN  /\ used' = used \cup {stack} /\ UNCHANGED frames
      /\ procs' = [procs EXCEPT ![p] = [procs[p] EXCEPT
           !.pending = @ \ {s}, !.active = TRUE, !.saved = procs[p].regs,
           !.own["signal_stack"] = stack, !.regs.sp = stack, !.at = "user"]]
      /\ UNCHANGED <<ring, running>>
ReturnToUser(p) ==
  LET first == CHOOSE s \in Deliverable(p) : \A r \in Deliverable(p) : s <= r
  IN  /\ running = p /\ procs[p].at = "ret"
      /\ \/ /\ Deliverable(p) # {} /\ first \notin procs[p].handlers
            /\ ThreadExit(p)
         \/ Deliverable(p) # {} /\ first \in procs[p].handlers /\ Deliver(p, first)
         \/ /\ Deliverable(p) # {} => first \in procs[p].handlers   \* the alloc failed
            /\ procs' = [procs EXCEPT ![p].at = "user"] /\ UNCHANGED <<ring, running, used, frames>>

-----------------------------------------------------------------------------
(* A function of the program saves the frame pointer and sets up its own;    *)
(* its return restores it.  Handlers call nothing.                           *)
Call(p) ==
  LET sp == procs[p].regs.sp
  IN  /\ InUser(p) /\ ~procs[p].active /\ Len(frames[sp]) < Calls
      /\ frames' = [frames EXCEPT ![sp] = Append(@, procs[p].regs.s0)]
      /\ procs' = [procs EXCEPT ![p].regs.s0 = sp] /\ UNCHANGED <<ring, running, used>>
Return(p) ==
  LET sp == procs[p].regs.sp
  IN  /\ InUser(p) /\ frames[sp] # <<>>
      /\ procs' = [procs EXCEPT ![p].regs.s0 = Last(frames[sp])]
      /\ frames' = [frames EXCEPT ![sp] = Front(@)] /\ UNCHANGED <<ring, running, used>>

(* The timer, some sleepers being due; threads of the kernel give way.       *)
WakeSleepers(due) == [t \in Procs |-> IF t \in due THEN [procs[t] EXCEPT !.status = "READY"]
                                      ELSE IF t = running THEN [procs[t] EXCEPT !.at = "ret"] ELSE procs[t]]
Interrupt(due) ==
  /\ running \in Procs => procs[running].at = "user"
  /\ \A t \in due : procs[t].status = "SLEEPING"
  /\ Schedule(WakeSleepers(due))
  /\ UNCHANGED <<used, frames>>

(* The ring without some threads, the others in their order.                 *)
Unlinked(dead) ==
  LET left == ToSet(ring) \ dead
      Before(t, u) == \E i, j \in DOMAIN ring : i < j /\ ring[i] = t /\ ring[j] = u
  IN  {q \in [1 .. Cardinality(left) -> left] :
         ToSet(q) = left /\ \A i, j \in DOMAIN q : i < j => Before(q[i], q[j])}

(* kill_zombies.  A freed parent's struct keeps its last status until its    *)
(* memory is used again (reused).                                            *)
IsZombie(t, reused) ==
  /\ procs[t].status = "TERMINATED"
  /\ LET u == procs[t].parent
     IN  \/ u = NoThread
         \/ u \in Procs /\ (procs[u].status = "TERMINATED" \/ (procs[u].status = "none" /\ u \notin reused))
KillZombies(reused) ==
  LET dead == {t \in Procs : IsZombie(t, reused)}
      freed == UNION {BlocksOf(procs[t].own) : t \in dead}
      Forgotten(t) == IF t \in dead THEN NoThread ELSE t
  IN  /\ running = Idle /\ dead # {} /\ UNCHANGED running
      /\ ring' \in Unlinked(dead)
      /\ used' = used \ freed /\ frames' = Freed(freed)
      /\ procs' = [t \in Procs |-> IF t \in dead THEN Blank ELSE
                  [procs[t] EXCEPT !.waits = Forgotten(@), !.asked = Forgotten(@)]]

StacksNext ==
  \/ \E p \in Procs :
       \/ Create(p) \/ Exec(p) \/ ExecFails(p) \/ WaitpidReturns(p) \/ Usleep(p) \/ Exit(p)
       \/ Sigreturn(p) \/ ReturnToUser(p) \/ Call(p) \/ Return(p)
       \/ \E t \in Procs : Fork(p, t) \/ ForkFails(p, t) \/ Waitpid(p, t) \/ Stop(p, t)
       \/ \E s \in Signals : Signal(p, s) \/ \E t \in Procs : Kill(p, t, s)
  \/ \E due \in SUBSET Procs : Interrupt(due)
  \/ \E reused \in SUBSET Procs : KillZombies(reused)
StacksSpec == StacksInit /\ [][StacksNext]_stackVars

-----------------------------------------------------------------------------
StackTypes ==
  /\ used \subseteq Blocks /\ running \in Procs \cup {Shell, Idle}
  /\ \A t \in Procs : BlocksOf(procs[t].own) \subseteq Blocks

(* Every allocated block has one owner, and the ring holds every thread that *)
(* has a struct once: kill_zombies frees nothing that is still linked.       *)
BlocksOwned ==
  LET held == {h \in Procs \X Kinds : procs[h[1]].own[h[2]] # Nothing}
  IN  /\ used = {procs[h[1]].own[h[2]] : h \in held} /\ Cardinality(used) = Cardinality(held)
      /\ ToSet(ring) = {t \in Procs : procs[t].own["struct"] # Nothing} \cup {Shell, Idle}
      /\ IsInjective(ring)

(* Whatever forks, execs, handlers and deaths came before, the registers of  *)
(* a process, and those saved for after its handler, point into stacks of    *)
(* its own.  (Not so if fork is called in a handler, whose stack adjust_     *)
(* stack_value does not know, or below a frame, whose saved frame pointer is *)
(* copied unadjusted: hence PlainFork.)                                      *)
OwnStacks ==
  \A t \in Procs : Alive(t) =>
    /\ {procs[t].regs.sp, procs[t].regs.s0, procs[t].saved.sp, procs[t].saved.s0}
         \subseteq {procs[t].own[k] : k \in Stacks} \cup {Nothing}
    /\ procs[t].active <=> procs[t].own["signal_stack"] # Nothing
    /\ procs[t].regs.sp # Nothing

(* The two together: what a process holds, and where it points to.           *)
StacksSound == StackTypes /\ BlocksOwned /\ OwnStacks
=============================================================================
