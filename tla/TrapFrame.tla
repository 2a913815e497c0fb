------------------------------ MODULE TrapFrame ------------------------------
(***************************************************************************)
(* trap_entry.S: what the registers and kernel stacks of the threads go    *)
(* through when traps nest and schedule() switches between them.  The      *)
(* control registers, sscratch among them, belong to the hart and are      *)
(* shared.  The entry runs with interrupts off and is one step, as are the *)
(* instructions after sstatus is restored; between the handler and there   *)
(* interrupts may be on, and the return is taken apart.                    *)
(***************************************************************************)
EXTENDS Integers, SequencesExt

CONSTANTS
  UserThreads, KernelThreads, Boot,  \* Boot: the one that runs first
  NoStack,   \* sscratch = 0
  Depth,     \* bound: how many traps nest on a stack
  Onward     \* bound: is a behaviour followed after an interrupt in a window?

Threads == UserThreads \cup KernelThreads
ASSUME TrapFrameAssumption ==
  /\ Depth \in Nat \ {0} /\ Boot \in KernelThreads
  /\ Onward \in BOOLEAN
  /\ UserThreads \cap KernelThreads = {} /\ NoStack \notin Threads \X Int

(* A stack pointer <<t, n>> has n trap frames above it on t's kernel stack;  *)
(* n = User is an address of the process.                                    *)
User == -1
FrameSlots == Threads \X (1 .. Depth)

VARIABLES
  cur, pc, mode,         \* where each thread is, and in U or S mode
  sp, t0, t1,            \* registers that live across the steps below
  flags,                 \* what schedule() has saved for each thread
  sscratch, sepc, spp, spie, sie,
  frame,                 \* the trap frames in memory
  owed,                  \* history: what each unfinished trap is to resume
  spoilt                 \* history: an interrupt has hit a window of the return
threadVars == <<pc, mode, sp, t0, t1>>
csrs == <<sscratch, sepc, spp, spie, sie>>
vars == <<cur, threadVars, flags, csrs, frame, owed, spoilt>>

Status(p, pie, ie) == [spp |-> p, spie |-> pie, sie |-> ie]
NoStatus == Status("U", FALSE, FALSE)
Frame(s, e, st, a, b) == [sp |-> s, sepc |-> e, status |-> st, t0 |-> a, t1 |-> b]
Resume(p, m, s, a, b) == [pc |-> p, mode |-> m, sp |-> s, t0 |-> a, t1 |-> b]

(* user_process_create: the frame of a trap that never happened.             *)
First(t) == Frame(<<t, User>>, "user", Status("U", TRUE, FALSE), "zero", NoStatus)
Init ==
  /\ cur = Boot
  /\ pc = [t \in Threads |-> IF t \in UserThreads THEN "exit" ELSE "thread"]
  /\ mode = [t \in Threads |-> "S"]
  /\ sp = [t \in Threads |-> <<t, IF t \in UserThreads THEN 1 ELSE 0>>]
  /\ t0 = [t \in Threads |-> "zero"] /\ t1 = [t \in Threads |-> NoStatus]
  /\ flags = [t \in Threads |-> Status("U", FALSE, t \in KernelThreads)]
  /\ sscratch = NoStack /\ sepc = "user" /\ spp = "U" /\ spie = FALSE /\ sie = TRUE
  /\ frame = [s \in FrameSlots |-> First(s[1])]
  /\ owed = [t \in Threads |-> IF t \in UserThreads
               THEN <<Resume("user", "U", <<t, User>>, "zero", NoStatus)>> ELSE <<>>]
  /\ spoilt = FALSE

-----------------------------------------------------------------------------
(* A trap: from user mode at any time, from the kernel while interrupts are  *)
(* on.  kernel_trap_vector takes its stack from sscratch unless that is      *)
(* null, saves everything and clears sscratch.                               *)
(* Faulty variant: every trap starts at the top of its thread's stack.       *)
BaseOwn == <<cur, 0>>
Base == IF sscratch # NoStack THEN sscratch ELSE sp[cur]

(* From where sscratch is set (line 108) a trap takes the kernel for a       *)
(* process, and from where sepc is set (113) it replaces it.                 *)
Window == \/ pc[cur] \in {"load", "sepc"} /\ sscratch # NoStack
          \/ pc[cur] = "sstatus"

(* Faulty variant: sscratch is left as it is.                                *)
ScratchAfterKept == IF sscratch = NoStack THEN NoStack ELSE sp[cur]
ScratchAfter == NoStack

Enter ==
  LET to == <<Base[1], Base[2] + 1>> IN
  /\ mode[cur] = "U" \/ sie
  /\ to \in FrameSlots
  /\ frame' = [frame EXCEPT ![to] =
       Frame(sp[cur], pc[cur], Status(mode[cur], sie, FALSE), t0[cur], t1[cur])]
  /\ sepc' = pc[cur] /\ spp' = mode[cur] /\ spie' = sie /\ sie' = FALSE
  /\ sp' = [sp EXCEPT ![cur] = to]
  /\ pc' = [pc EXCEPT ![cur] = "handler"] /\ mode' = [mode EXCEPT ![cur] = "S"]
  /\ sscratch' = ScratchAfter
  /\ owed' = [owed EXCEPT ![cur] =
       Append(@, Resume(pc[cur], mode[cur], sp[cur], t0[cur], t1[cur]))]
  /\ spoilt' = (spoilt \/ Window)
  /\ UNCHANGED <<cur, t0, t1, flags>>

(* trap_handler.  Once task_run_ready has run a callback interrupts are on   *)
(* until sstatus is restored: it leaves with the flags it has read after the *)
(* callback.                                                                 *)
RunTasks ==
  /\ pc[cur] = "handler" /\ sie' = TRUE
  /\ UNCHANGED <<cur, threadVars, flags, sscratch, sepc, spp, spie, frame, owed, spoilt>>

Handled ==
  /\ pc[cur] = "handler" /\ pc' = [pc EXCEPT ![cur] = "exit"]
  /\ UNCHANGED <<cur, mode, sp, t0, t1, flags, csrs, frame, owed, spoilt>>

(* schedule(), in a handler or called by a thread of the kernel: the flags   *)
(* are those of the thread that continues, except that one that has never    *)
(* run starts at ret_from_exception with those of schedule() itself.         *)
Switch(t) ==
  /\ t # cur /\ pc[cur] \in {"handler", "thread"}
  /\ cur' = t
  /\ flags' = [flags EXCEPT ![cur] = Status(spp, spie, sie)]
  /\ IF pc[t] = "exit"
     THEN sie' = FALSE /\ UNCHANGED <<spp, spie>>
     ELSE spp' = flags[t].spp /\ spie' = flags[t].spie /\ sie' = flags[t].sie
  /\ UNCHANGED <<threadVars, sscratch, sepc, frame, owed, spoilt>>

(* ret_from_exception: a return to user mode leaves the top of the kernel    *)
(* stack in sscratch ...                                                     *)
ToUser == frame[sp[cur]].status.spp = "U"
RestoreScratch ==
  /\ pc[cur] = "exit" /\ sp[cur] \in FrameSlots
  /\ pc' = [pc EXCEPT ![cur] = "load"]
  /\ sscratch' = IF ToUser THEN <<sp[cur][1], sp[cur][2] - 1>> ELSE sscratch
  /\ UNCHANGED <<cur, mode, sp, t0, t1, flags, sepc, spp, spie, sie, frame, owed, spoilt>>

Load ==
  /\ pc[cur] = "load" /\ sp[cur] \in FrameSlots
  /\ pc' = [pc EXCEPT ![cur] = "sepc"]
  /\ t0' = [t0 EXCEPT ![cur] = frame[sp[cur]].sepc]
  /\ t1' = [t1 EXCEPT ![cur] = frame[sp[cur]].status]
  /\ UNCHANGED <<cur, mode, sp, flags, csrs, frame, owed, spoilt>>

WriteSepc ==
  /\ pc[cur] = "sepc" /\ pc' = [pc EXCEPT ![cur] = "sstatus"]
  /\ sepc' = t0[cur]
  /\ UNCHANGED <<cur, mode, sp, t0, t1, flags, sscratch, spp, spie, sie, frame, owed,
                 spoilt>>

(* ... and sstatus, whose saved copy has interrupts off, the registers, and  *)
(* sret.                                                                     *)
Sret ==
  /\ pc[cur] = "sstatus" /\ sp[cur] \in FrameSlots /\ owed[cur] # <<>>
  /\ LET f == frame[sp[cur]] IN
     /\ pc' = [pc EXCEPT ![cur] = sepc] /\ mode' = [mode EXCEPT ![cur] = t1[cur].spp]
     /\ sie' = t1[cur].spie /\ spp' = "U" /\ spie' = TRUE
     /\ sp' = [sp EXCEPT ![cur] = f.sp]
     /\ t0' = [t0 EXCEPT ![cur] = f.t0] /\ t1' = [t1 EXCEPT ![cur] = f.t1]
  /\ owed' = [owed EXCEPT ![cur] = Front(@)]
  /\ UNCHANGED <<cur, flags, sscratch, sepc, frame, spoilt>>

Next ==
  /\ spoilt => Onward
  /\ \/ Enter \/ RunTasks \/ Handled \/ RestoreScratch \/ Load \/ WriteSepc \/ Sret
     \/ \E t \in Threads : Switch(t)

Spec == Init /\ [][Next]_vars
-----------------------------------------------------------------------------
(* lab4.rst on nested interrupts: "besides general-purpose registers, you    *)
(* should also save sstatus and sepc so the previously saved data are        *)
(* preserved".  Every trap resumes exactly what it interrupted.              *)
Returned ==
  LET what == Last(owed[cur])
  IN  /\ pc'[cur] = what.pc /\ mode'[cur] = what.mode /\ sp'[cur] = what.sp
      /\ t0'[cur] = what.t0 /\ t1'[cur] = what.t1
DataPreserved == [][Sret => Returned]_vars

(* That holds of every trap until an interrupt arrives between the writing   *)
(* of sscratch or sepc and the writing of sstatus (lines 108 to 114).        *)
Resumes == [][Sret /\ ~spoilt => Returned]_vars
=============================================================================
