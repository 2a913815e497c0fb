--------------------------- MODULE ProcessMemory ---------------------------
(***************************************************************************)
(* The processes of the lab6 kernel and the memory each of them holds, put  *)
(* together: creation by the shell, fork with its failures, exec, signals,  *)
(* page faults and mmap on one side, waiting, the switch between threads    *)
(* and the idle thread's kill_zombies on the other.  Sched and UserVm look  *)
(* at one side each (in lab7); here every block that alloc gives out has an *)
(* owner: the struct and kernel stack of a thread, the root, the lower      *)
(* tables and the arrays of an address space, and its pages.                *)
(*                                                                          *)
(* System calls and faults run with interrupts off and are one action; the  *)
(* shell's allocations are too (Buddy shows what happens if they are not).  *)
(* An area has one page, and one block stands for the tables on the way to  *)
(* it.  What a call finds free is whatever the rest of the system leaves,   *)
(* any number of blocks; a block is named after whom it is first given to   *)
(* and what for, and sharing keeps it in the same use.                      *)
(* Which of the runnable threads is next is Sched's subject.                *)
(***************************************************************************)
EXTENDS Integers, FiniteSets, FiniteSetsExt

CONSTANTS
  Procs,         \* addresses of the structs of user processes
  Shell, Idle, NoThread,
  Sigs,          \* signal numbers in use
  Room,          \* bound: free blocks at a call, enough for the longest
  Areas,         \* bound: the areas programs touch: "image", "stack", "mmap"
  ForkInHandler  \* may a signal handler call fork?

Threads == Procs \cup {Shell, Idle}
Nothing == <<>>
ProcessMemoryAssumption ==
  /\ Room \in Nat /\ Sigs \subseteq 1 .. 31 /\ Areas \subseteq {"image", "stack", "mmap"}
  /\ IsFiniteSet(Procs) /\ {Shell, Idle, NoThread} \cap Procs = {}

VARIABLES
  th,    \* struct thread of every process; Shell and Idle never block
  refs,  \* g_frames[b].ref_count; 0 in a free block
  cur,   \* the thread on the hart
  satp   \* the root the hart translates by; Nothing: the kernel's
memoryVars == <<th, refs, cur, satp>>

(* What a thread owns: struct, kernel stack, pgd, user_image_pages and       *)
(* user_stack_pages, tables, the region of mmap and its frames, the frames   *)
(* recorded for the pages, and signal_stack.                                 *)
Pages == Areas \cup {"sig"}
TableOf(v) == IF v = "image" THEN "low table"
              ELSE IF v = "mmap" THEN "mmap table" ELSE "high table"
SpaceFields == {"root", "images", "stacks"} \cup Pages \cup {TableOf(v) : v \in Pages}
               \cup (IF "mmap" \in Areas THEN {"region", "frames"} ELSE {})
Fields == SpaceFields \cup {"struct", "kernel stack"}
Names == 1 .. Cardinality(Procs) + 1    \* enough, each owner having one block of a use
Blocks == Procs \X Fields \X Names
NoBlocks == [f \in Fields |-> Nothing]
NoEntry == [to |-> Nothing, w |-> FALSE, cow |-> FALSE]
Unmapped == [v \in Pages |-> NoEntry]

(* asked: whom a waitpid under way was called for; regs: whether the user's  *)
(* registers are in the main program or in the handler; saved: what          *)
(* signal_saved_tf holds; rw: r->prot of the region.                         *)
Blank == [status |-> "none", parent |-> NoThread, waits |-> NoThread,
          asked |-> NoThread, at |-> "ret",
          handlers |-> {}, pending |-> {}, active |-> FALSE, regs |-> "main",
          saved |-> "none", own |-> NoBlocks, pte |-> Unmapped, rw |-> FALSE]

MemoryInit == /\ th = [t \in Procs |-> Blank] /\ refs = [b \in Blocks |-> 0]
              /\ cur = Idle /\ satp = Nothing

-----------------------------------------------------------------------------
(* alloc and free.  A job m is a call under way for m.for: how many blocks   *)
(* are left, the counts, the owner's blocks and entries, whether every       *)
(* allocation succeeded so far, and in a fork the parent's entries.          *)
NewJob(t, left) == [for |-> t, left |-> left, ok |-> TRUE, refs |-> refs,
                    own |-> NoBlocks, pte |-> Unmapped, par |-> Unmapped]
Job(t, left) == [NewJob(t, left) EXCEPT !.own = th[t].own, !.pte = th[t].pte]

Got(m, f) ==
  LET n == CHOOSE n \in Names : m.refs[<<m.for, f, n>>] = 0
  IN  IF m.ok /\ m.left > 0
      THEN [m EXCEPT !.left = @ - 1, !.refs[<<m.for, f, n>>] = 1,
                     !.own[f] = <<m.for, f, n>>]
      ELSE [m EXCEPT !.ok = FALSE]
Got2(m, f, g) == Got(Got(m, f), g)

(* free and mm_page_put: the last owner's put frees.                         *)
Put(m, fs) ==
  [m EXCEPT !.refs = [b \in Blocks |-> IF b[2] \in fs /\ m.own[b[2]] = b
                                       THEN @[b] - 1 ELSE @[b]],
            !.own = [f \in Fields |-> IF f \in fs THEN Nothing ELSE @[f]]]
(* mm_page_get                                                               *)
Shared(m, f, b) == [m EXCEPT !.refs[b] = @ + 1, !.own[f] = b]

(* map_pages of one page: its table is there, or is allocated and stays.     *)
Mapped(m, v, e) ==
  LET n == IF m.own[TableOf(v)] = Nothing THEN Got(m, TableOf(v)) ELSE m
  IN  IF n.ok THEN [n EXCEPT !.pte[v] = e] ELSE n
(* unmap_pages                                                               *)
Cleared(m, vs) == [m EXCEPT !.pte = [v \in Pages |-> IF v \in vs THEN NoEntry ELSE @[v]]]

(* user_mmap_destroy and user_address_space_destroy                          *)
(* Faulty variant: the signal stack is forgotten.                            *)
DestroyedButSig(m) == Cleared(Put(m, SpaceFields \ {"sig"}), Pages)
RegionFields == {"region", "frames", "mmap"} \cap SpaceFields
MmapDestroyed(m) == Cleared(Put(m, RegionFields), {"mmap"})
Destroyed(m) == Cleared(Put(MmapDestroyed(m), SpaceFields), Pages)

(* user_address_space_init: the tables' root and the arrays of frames.       *)
SpaceInit(m) ==
  LET n == Got2(Got(m, "root"), "images", "stacks")
  IN  IF n.ok THEN n ELSE Destroyed(n)

-----------------------------------------------------------------------------
(* schedule() when the threads are ts: current gives way, RUNNING or not.    *)
Runnable(ts) == {t \in Procs : ts[t].status \in {"READY", "RUNNING"}} \cup {Shell, Idle}
Schedule(ts) ==
  \E next \in Runnable(ts) :
    /\ cur' = next
    /\ th' = [t \in Procs |->
                IF t = next THEN [ts[t] EXCEPT !.status = "RUNNING"]
                ELSE IF t = cur /\ ts[t].status = "RUNNING"
                THEN [ts[t] EXCEPT !.status = "READY"] ELSE ts[t]]
    /\ satp' = IF next = cur THEN satp
               ELSE IF next \in Procs THEN ts[next].own["root"] ELSE Nothing

(* child->status = THREAD_TERMINATED and wake_waiting_parent.  Of a dead     *)
(* thread only its parent and its memory are ever looked at again.           *)
Dead(s) == [Blank EXCEPT !.status = "TERMINATED", !.parent = s.parent, !.own = s.own,
                         !.pte = s.pte]
Ended(t) ==
  [u \in Procs |->
     IF u = t THEN Dead(th[u])
     ELSE IF u = th[t].parent /\ th[u].status = "WAITING" /\ th[u].waits = t
     THEN [th[u] EXCEPT !.status = "READY", !.waits = NoThread] ELSE th[u]]
ThreadExit(t) == Schedule(Ended(t)) /\ UNCHANGED refs

(* terminate_thread_for_signal and the end of another by stop.               *)
Terminate(p, t) ==
  IF t = p THEN ThreadExit(p)
  ELSE th' = [Ended(t) EXCEPT ![p].at = "ret"] /\ UNCHANGED <<refs, cur, satp>>

InUser(p) == p \in Procs /\ cur = p /\ th[p].at = "user"
(* The call returns; only the caller's struct has changed, to s.             *)
Returns(p, s) == th' = [th EXCEPT ![p] = [s EXCEPT !.at = "ret"]] /\ cur' = cur
Alive(t) == th[t].status \notin {"none", "TERMINATED"}

-----------------------------------------------------------------------------
(* user_process_create_from_image, by the shell.                             *)
Create(t, left) ==
  LET m == SpaceInit(Got2(NewJob(t, left), "struct", "kernel stack"))
  IN  /\ cur = Shell /\ th[t].status = "none" /\ m.ok
      /\ refs' = m.refs /\ UNCHANGED <<cur, satp>>
      /\ th' = [th EXCEPT ![t] = [Blank EXCEPT
                   !.status = "READY", !.parent = Shell, !.own = m.own]]
CreateFails(t, left) ==
  LET m == SpaceInit(Got2(NewJob(t, left), "struct", "kernel stack"))
  IN  /\ cur = Shell /\ th[t].status = "none" /\ ~m.ok
      /\ refs' = Put(m, {"struct", "kernel stack"}).refs /\ UNCHANGED <<th, cur, satp>>

(* share_user_page and user_mmap_share_page: the parent's entry is marked    *)
(* first, the frame is counted before it is mapped.                          *)
MakeCow(e) == IF e.w THEN [e EXCEPT !.w = FALSE, !.cow = TRUE] ELSE e
SharePage(m, p, v) ==
  IF v \notin Areas THEN m ELSE
  LET e == MakeCow(m.par[v])
      n == Mapped(Shared([m EXCEPT !.par[v] = e], v, e.to), v, e)
  IN  IF ~m.ok \/ th[p].own[v] = Nothing THEN m
      ELSE IF n.ok THEN n ELSE Put(n, {v})

ShareRegionPage(m, p) == SharePage(m, p, "mmap")

(* user_mmap_clone: a region of its own, then the frames.                    *)
ShareRegion(m, p) ==
  IF "mmap" \notin Areas \/ th[p].own["region"] = Nothing THEN m
  ELSE ShareRegionPage(Got2(m, "region", "frames"), p)

(* user_address_space_clone_cow; the caller destroys what a failure leaves.  *)
CloneCow(m, p) ==
  ShareRegion(SharePage(SharePage(Got2(Got(m, "root"), "images", "stacks"), p, "image"),
                        p, "stack"), p)

(* syscall_fork.  The child has the user's registers, its own struct and     *)
(* kernel stack, and no signal state but the handlers.                       *)
ForkJob(p, t, left) ==
  CloneCow(Got2([NewJob(t, left) EXCEPT !.par = th[p].pte], "struct", "kernel stack"), p)
MayFork(p, t) == /\ InUser(p) /\ th[t].status = "none"
                 /\ ForkInHandler \/ th[p].regs = "main"
Fork(p, t, left) ==
  LET m == ForkJob(p, t, left)
  IN  /\ MayFork(p, t) /\ m.ok
      /\ refs' = m.refs /\ UNCHANGED <<cur, satp>>
      /\ th' = [th EXCEPT
           ![p].pte = m.par, ![p].at = "ret",
           ![t] = [th[p] EXCEPT !.status = "READY", !.parent = p, !.pending = {},
                     !.active = FALSE, !.saved = "none", !.own = m.own, !.pte = m.pte,
                     !.at = "ret"]]
ForkFails(p, t, left) ==
  LET m == ForkJob(p, t, left)
  IN  /\ MayFork(p, t) /\ ~m.ok
      /\ refs' = Put(Destroyed(m), {"struct", "kernel stack"}).refs
      /\ Returns(p, [th[p] EXCEPT !.pte = m.par]) /\ UNCHANGED satp

(* clear_signal_runtime, and the registers' reset: a handler ends with the   *)
(* program that called it, the table of handlers stays.                      *)
(* Faulty variant: it is left out.                                           *)
KeepSignalRuntime(s) == s
ClearSignalRuntime(s) ==
  [s EXCEPT !.pending = {}, !.active = FALSE, !.saved = "none", !.regs = "main"]

(* syscall_exec: the new space is built and switched to, then the old one is *)
(* destroyed.                                                                *)
SpaceOf(p, left) ==
  SpaceInit([Job(p, left) EXCEPT !.pte = Unmapped, !.own =
               [f \in Fields |-> IF f \in SpaceFields THEN Nothing ELSE @[f]]])
Exec(p, left) ==
  LET m == SpaceOf(p, left)
  IN  /\ InUser(p) /\ m.ok
      /\ satp' = m.own["root"] /\ UNCHANGED cur
      /\ refs' = Destroyed([m EXCEPT !.own = th[p].own]).refs
      /\ th' = [th EXCEPT ![p] = [ClearSignalRuntime(@) EXCEPT
                   !.own = m.own, !.pte = Unmapped, !.rw = FALSE, !.at = "ret"]]
ExecFails(p, left) ==
  LET m == SpaceOf(p, left)
  IN  InUser(p) /\ ~m.ok /\ refs' = m.refs /\ UNCHANGED satp /\ Returns(p, th[p])

-----------------------------------------------------------------------------
(* syscall_waitpid on any process, a child or not.                           *)
Collected(ts, t) == IF t # NoThread /\ ts[t].status = "TERMINATED"
                    THEN [ts EXCEPT ![t].parent = NoThread] ELSE ts
Waitpid(p, t) ==
  /\ InUser(p) /\ th[t].status # "none"
  /\ IF Alive(t)
     THEN Schedule([th EXCEPT ![p].status = "WAITING", ![p].waits = t, ![p].asked = t,
                              ![p].at = "waitpid"])
     ELSE th' = [Collected(th, t) EXCEPT ![p].at = "ret"] /\ UNCHANGED <<cur, satp>>
  /\ UNCHANGED refs
WaitpidReturns(p) ==
  /\ cur = p /\ th[p].at = "waitpid"
  /\ th' = [Collected(th, th[p].asked) EXCEPT ![p].at = "ret", ![p].asked = NoThread]
  /\ UNCHANGED <<refs, cur, satp>>

(* syscall_usleep: a signal that is pending already keeps it from sleeping.  *)
Usleep(p) ==
  /\ InUser(p) /\ UNCHANGED refs
  /\ IF th[p].pending = {}
     THEN Schedule([th EXCEPT ![p].status = "SLEEPING", ![p].at = "ret"])
     ELSE Returns(p, th[p]) /\ UNCHANGED satp

Exit(p) == InUser(p) /\ ThreadExit(p)
Stop(p, t) == InUser(p) /\ th[t].status # "none" /\ Terminate(p, t)

Signal(p, s) ==
  /\ InUser(p) /\ UNCHANGED <<refs, satp>>
  /\ \E set \in {th[p].handlers \cup {s}, th[p].handlers \ {s}} :
       Returns(p, [th[p] EXCEPT !.handlers = set])

MadeRunnable(s) ==
  IF s.status \in {"SLEEPING", "WAITING"}
  THEN [s EXCEPT !.status = "READY", !.waits = NoThread] ELSE s
Kill(p, t, s) ==
  /\ InUser(p) /\ Alive(t)
  /\ IF s \in th[t].handlers
     THEN /\ th' = [[th EXCEPT ![t] = [MadeRunnable(th[t]) EXCEPT !.pending = @ \cup {s}]]
              EXCEPT ![p].at = "ret"]
          /\ UNCHANGED <<refs, cur, satp>>
     ELSE Terminate(p, t)

Sigreturn(p) ==
  LET m == Put(Cleared(Job(p, 0), {"sig"}), {"sig"})
  IN  /\ InUser(p) /\ th[p].active
      /\ refs' = m.refs /\ UNCHANGED satp
      /\ Returns(p, [th[p] EXCEPT !.own = m.own, !.pte = m.pte, !.active = FALSE,
                                  !.regs = th[p].saved, !.saved = "none"])

(* ret_from_exception: signal_deliver, then user mode.                       *)
AtReturn(p) == p \in Procs /\ cur = p /\ th[p].at = "ret"
Deliverable(p) == IF th[p].active THEN {} ELSE th[p].pending
Entry(b, w) == [to |-> b, w |-> w, cow |-> FALSE]
ToUser(p, m, s) == /\ refs' = m.refs /\ UNCHANGED <<cur, satp>>
                   /\ th' = [th EXCEPT ![p] = [s EXCEPT !.own = m.own, !.pte = m.pte,
                                                         !.at = "user"]]
ReturnPlain(p) ==
  AtReturn(p) /\ Deliverable(p) = {} /\ ToUser(p, Job(p, 0), th[p])
ReturnSignalled(p, left) ==
  LET s == Min(Deliverable(p))
      given == Got(Job(p, left), "sig")
      m == Mapped(given, "sig", Entry(given.own["sig"], TRUE))
      delivered == [th[p] EXCEPT !.pending = @ \ {s}, !.active = TRUE, !.regs = "handler",
                                 !.saved = th[p].regs]
  IN  /\ AtReturn(p) /\ Deliverable(p) # {}
      /\ IF s \notin th[p].handlers
         THEN ThreadExit(p)
         ELSE IF m.ok THEN ToUser(p, m, delivered)
         ELSE ToUser(p, Put(m, {"sig"}), th[p])

-----------------------------------------------------------------------------
(* syscall_mmap: one region; what cannot be completed is undone.             *)
RegionUndone(m) == Cleared(Put(m, {"region", "frames", "mmap"}), {"mmap"})
Populated(m, rw) ==
  LET n == Got(m, "mmap") IN Mapped(n, "mmap", Entry(n.own["mmap"], rw))
CreateRegion(p, rw, populate, left) ==
  LET region == Got2(Job(p, left), "region", "frames")
      m == IF populate THEN Populated(region, rw) ELSE region
  IN  IF m.ok THEN m ELSE RegionUndone(m)
Mmap(p, rw, populate, left) ==
  LET n == CreateRegion(p, rw, populate, left)
  IN  /\ InUser(p) /\ "mmap" \in Areas /\ th[p].own["region"] = Nothing
      /\ refs' = n.refs /\ UNCHANGED satp
      /\ Returns(p, [th[p] EXCEPT !.own = n.own, !.pte = n.pte, !.rw = n.ok /\ rw])

(* The four handlers of page faults, or the end of the process.              *)
MayWrite(p, v) == v # "mmap" \/ th[p].rw
Demanded(p, v, left) ==
  LET n == Got(Job(p, left), v) IN Mapped(n, v, Entry(n.own[v], MayWrite(p, v)))
Replaced(n, v, old) ==
  [n EXCEPT !.pte[v] = Entry(n.own[v], TRUE), !.refs[old] = @ - 1]
Copied(p, v, left) ==
  LET n == Got(Job(p, left), v)
  IN  IF n.ok THEN Replaced(n, v, th[p].pte[v].to) ELSE n
Kept(p, v) == [Job(p, 0) EXCEPT !.pte[v] = Entry(@.to, TRUE)]

(* Which of them serves the access, and what it leaves.                      *)
Faults(p, v, store) ==
  InUser(p) /\ v \in Areas /\ (th[p].pte[v] = NoEntry \/ (store /\ ~th[p].pte[v].w))
IsDemand(p, v, store) == /\ th[p].pte[v] = NoEntry
                         /\ v = "mmap" => th[p].own["region"] # Nothing
                         /\ store => MayWrite(p, v)
IsCow(p, v, store) == store /\ th[p].pte[v].cow
Tried(p, v, store, left) ==
  IF IsDemand(p, v, store) THEN Demanded(p, v, left)
  ELSE IF ~IsCow(p, v, store) THEN [Job(p, 0) EXCEPT !.ok = FALSE]
  ELSE IF refs[th[p].pte[v].to] <= 1 THEN Kept(p, v) ELSE Copied(p, v, left)

ServedFault(p, v, store, left) ==
  LET m == Tried(p, v, store, left)
  IN  /\ Faults(p, v, store) /\ m.ok /\ refs' = m.refs /\ UNCHANGED satp
      /\ Returns(p, [th[p] EXCEPT !.own = m.own, !.pte = m.pte])
(* What the attempt allocated goes back, but for the tables.                 *)
SegmentationFault(p, v, store, left) ==
  LET m == Tried(p, v, store, left)
      n == IF IsDemand(p, v, store) THEN Put(m, {v}) ELSE m
  IN  /\ Faults(p, v, store) /\ ~m.ok /\ refs' = n.refs
      /\ Schedule([Ended(p) EXCEPT ![p].own = n.own, ![p].pte = n.pte])

-----------------------------------------------------------------------------
(* The timer: some sleepers are due; threads of the kernel just give way.    *)
WakeSleepers(due) ==
  [t \in Procs |-> IF t \in due THEN [th[t] EXCEPT !.status = "READY"]
                   ELSE IF t = cur THEN [th[t] EXCEPT !.at = "ret"] ELSE th[t]]
Interrupt(due) ==
  /\ cur \in Procs => th[cur].at = "user"
  /\ due \subseteq {t \in Procs : th[t].status = "SLEEPING"}
  /\ Schedule(WakeSleepers(due))
  /\ UNCHANGED refs

(* kill_zombies.  A freed parent's struct keeps its last status until its    *)
(* memory is used again (reused).                                            *)
Zombies(reused) ==
  {t \in Procs :
     /\ th[t].status = "TERMINATED"
     /\ \/ th[t].parent = NoThread
        \/ /\ th[t].parent \in Procs
           /\ \/ th[th[t].parent].status = "TERMINATED"
              \/ th[th[t].parent].status = "none" /\ th[t].parent \notin reused}
Buried(t) == Put(Destroyed(Job(t, 0)), {"struct", "kernel stack"}).refs
Reap(reused) ==
  LET dead == Zombies(reused)
      Forgotten(t) == IF t \in dead THEN NoThread ELSE t
  IN  /\ cur = Idle /\ dead # {}
      /\ refs' = [b \in Blocks |-> refs[b] - Cardinality({t \in dead : Buried(t)[b] < refs[b]})]
      /\ th' = [t \in Procs |->
                  IF t \in dead THEN Blank
                  ELSE [th[t] EXCEPT !.waits = Forgotten(th[t].waits),
                                     !.asked = Forgotten(th[t].asked)]]
      /\ UNCHANGED <<cur, satp>>

(* Fewer blocks than the n that a call needs.                                *)
Short(n) == 0 .. n - 1

MemoryNext ==
  \/ \E p \in Procs : Create(p, Room) \/ \E left \in Short(5) : CreateFails(p, left)
  \/ \E p \in Procs : Exec(p, Room) \/ \E left \in Short(3) : ExecFails(p, left)
  \/ \E p, t \in Procs : Fork(p, t, Room) \/ \E left \in Short(Room) : ForkFails(p, t, left)
  \/ \E p \in Procs : \E left \in Short(2) \cup {Room} : ReturnSignalled(p, left)
  \/ \E p \in Procs, rw, populate \in BOOLEAN :
       \E left \in Short(4) \cup {Room} : Mmap(p, rw, populate, left)
  \/ \E p \in Procs, v \in Areas, store \in BOOLEAN :
       \/ ServedFault(p, v, store, Room)
       \/ \E left \in Short(2) : SegmentationFault(p, v, store, left)
  \/ \E p \in Procs : \/ WaitpidReturns(p) \/ Usleep(p) \/ Exit(p) \/ Sigreturn(p)
                      \/ ReturnPlain(p)
                      \/ \E t \in Procs : Waitpid(p, t) \/ Stop(p, t)
                      \/ \E s \in Sigs : Signal(p, s) \/ \E t \in Procs : Kill(p, t, s)
  \/ \E due \in SUBSET Procs : Interrupt(due)
  \/ \E reused \in SUBSET Procs : Reap(reused)
MemorySpec == MemoryInit /\ [][MemoryNext]_memoryVars

-----------------------------------------------------------------------------
MemoryTypes ==
  /\ \A t \in Procs, f \in Fields : th[t].own[f] \in {Nothing} \cup (Procs \X {f} \X Names)
  /\ refs \in [Blocks -> Nat] /\ cur \in Threads /\ satp \in Blocks \cup {Nothing}

(* No block is leaked, freed early or freed twice, on any path through fork  *)
(* and exec and their failures, faults, signals, death and kill_zombies: the *)
(* count of every block is the number of its owners, a process maps what it  *)
(* owns, and a block that one can write to has no other owner.               *)
Owners(b) == {t \in Procs : th[t].own[b[2]] = b}
MemoryExact ==
  /\ \A b \in Blocks : refs[b] = Cardinality(Owners(b))
  /\ \A t \in Procs, v \in Pages :
       LET e == th[t].pte[v]
       IN  e # NoEntry => e.to = th[t].own[v] /\ (e.w => refs[e.to] = 1)

(* Whatever switches, execs, deaths and reaping have happened, the hart runs *)
(* on memory that is still allocated: it translates by the tables of the     *)
(* thread it runs, whose struct, kernel stack and root are its own; and a    *)
(* process executes its handler only while the signal stack is mapped, with  *)
(* its program's registers saved to come back to.  (Not so for the child if  *)
(* a handler forks, hence ForkInHandler.)                                    *)
HandlerSound(p) ==
  LET s == th[p].own["sig"]
  IN  /\ th[p].active <=> s # Nothing
      /\ th[p].active <=> th[p].pte["sig"] = [to |-> s, w |-> TRUE, cow |-> FALSE]
      /\ th[p].regs = "handler" => th[p].active /\ th[p].saved = "main"
ContextSound ==
  /\ IF cur \in Procs
     THEN /\ th[cur].status = "RUNNING" /\ satp = th[cur].own["root"]
          /\ \A f \in {"struct", "kernel stack", "root"} : th[cur].own[f] # Nothing
     ELSE satp = Nothing
  /\ \A p \in Procs : Alive(p) => HandlerSound(p)

(* The two together: what a process holds, and what the hart runs on.        *)
MemorySound == MemoryTypes /\ MemoryExact /\ ContextSound
=============================================================================
