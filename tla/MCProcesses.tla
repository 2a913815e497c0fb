---------------------------- MODULE MCProcesses ----------------------------
(* The processes of the earlier kernels and the way into and out of the       *)
(* kernel: the lab4 kernel's one control stack (EventLoop), lab5's processes  *)
(* (StackProcesses), the page tables (PageTable), and the registers that a    *)
(* trap saves and a switch changes (TrapFrame).  These are different          *)
(* programs, or different depths of one: each behaviour is one of one of      *)
(* them, and the others' variables are not there, or keep their initial       *)
(* values (TrapFrame's and StackProcesses's, which have only one).            *)
EXTENDS TrapFrame, StackProcesses, TLC

CONSTANTS
  NoFrame, KernelRoot, KernelPmd,          \* page tables
  MaxTasks, MaxTimers, MaxNested, Period, Seconds, MaxTime, MaxRequests, MaxStack   \* lab4

VARIABLES part,
  stack, interrupts, back, tasks, levels, timers, list, now, fire, periodic, armed, requests,
  mem, free, root, recorded, asked, walked, sound
loopVars == <<stack, interrupts, back, tasks, levels, timers, list, now, fire, periodic,
              armed, requests>>
tableVars == <<mem, free, root, recorded, asked, walked, sound>>

Loop == INSTANCE EventLoop WITH
  LateTraps <- FALSE, sie <- interrupts, sepc <- back, queue <- tasks, next <- fire
Tables == INSTANCE PageTable WITH
  Spaces <- Procs, AllFrames <- 1 .. 7, LowSlots <- {0, 1}, HighSlot <- 2,
  SigPages <- <<<<1, 0, 0>>, <<1, 0, 1>>>>,
  Pages <- {<<0, 0, 0>>, <<1, 0, 0>>, <<1, 0, 1>>}, Perms <- {{}, {"r", "w"}},
  data <- recorded, satp <- walked
ASSUME ProcessesAssumption == Tables!PageTableAssumption

(* What is not there.                                                         *)
NoLoop ==
  /\ stack = 0 /\ interrupts = 0 /\ back = 0 /\ tasks = 0 /\ levels = 0 /\ timers = 0
  /\ list = 0 /\ now = 0 /\ fire = 0 /\ periodic = 0 /\ armed = 0 /\ requests = 0
NoTables ==
  /\ mem = 0 /\ free = 0 /\ root = 0 /\ recorded = 0 /\ asked = 0 /\ walked = 0 /\ sound = 0

MCInit ==
  /\ part \in {"stacks", "loop", "frames", "tables"} /\ Init /\ StacksInit
  /\ IF part = "loop" THEN Loop!Init ELSE NoLoop
  /\ IF part = "tables" THEN Tables!Init ELSE NoTables
MCNext ==
  \/ /\ part = "stacks" /\ StacksNext
     /\ UNCHANGED <<part, loopVars, vars, tableVars>>
  \/ /\ part = "loop" /\ Loop!Next
     /\ UNCHANGED <<part, stackVars, vars, tableVars>>
  \/ /\ part = "frames" /\ UNCHANGED <<part, stackVars, loopVars, tableVars>>
     /\ \/ Next
        \/ spoilt /\ UNCHANGED vars    \* such a behaviour is not followed
  \/ /\ part = "tables" /\ Tables!Next
     /\ UNCHANGED <<part, stackVars, loopVars, vars>>
MCSpec == MCInit /\ [][MCNext]_<<part, stackVars, loopVars, vars, tableVars>>

ProcSymmetry == Permutations(Procs)

-----------------------------------------------------------------------------
(* In lab4 the tasks nest by priority, a trap returns to what it interrupted, *)
(* and a timeout is printed once and never lost.                              *)
LoopSound ==
  part = "loop" => Loop!TypeOK /\ Loop!NestedByPriority /\ Loop!TimeoutsKept

(* Every walk finds what was mapped, and every frame is accounted for.        *)
TablesExact == part = "tables" => Tables!TablesExact
=============================================================================
