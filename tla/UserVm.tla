------------------------------- MODULE UserVm -------------------------------
(***************************************************************************)
(* The address spaces of user processes: user_vm.c, mmap.c and the system  *)
(* calls and traps that reach them.  Pages are filled on the first access, *)
(* fork shares them, the first store to a shared page copies it.           *)
(*                                                                         *)
(* System calls and page faults run with interrupts off, so each of them   *)
(* is one step; the instruction that faulted is tried again in a later     *)
(* step, and other processes may run in between.  The three-level page     *)
(* table is a function from pages to entries; which free frame an          *)
(* allocation gets does not matter.                                        *)
(***************************************************************************)
EXTENDS Integers, FiniteSets

CONSTANTS
  Procs,       \* slots for user processes
  Programs,    \* the programs of the initrd
  Image,       \* Image[prog]: the contents of its pages, by page
  StackPages, MmapPages,
  Prots,       \* the protections mmap is asked for
  Frames,      \* page frames
  Values, Zero,
  NoFrame, NoMemory, Idle

ImagePages == UNION {DOMAIN Image[prog] : prog \in Programs}
Pages == ImagePages \cup StackPages \cup MmapPages
Kinds == {"fetch", "load", "store"}

ASSUME UserVmAssumption ==
  /\ IsFiniteSet(Procs) /\ IsFiniteSet(Pages)
  /\ \A prog \in Programs : Image[prog] \in [DOMAIN Image[prog] -> Values]
  /\ ImagePages \cap StackPages = {}
  /\ MmapPages \cap (ImagePages \cup StackPages) = {}
  /\ Programs # {} /\ Zero \in Values /\ NoFrame \notin Frames
  /\ Prots \subseteq SUBSET {"r", "w", "x"}
  /\ \A S \in SUBSET Pages : NoMemory \notin [S -> Values]

NoProt == {"unmapped"}

VARIABLES
  life,    \* none, runs or zombie
  prog,    \* user_image: the program, while there is an address space
  prot,    \* the protection of each page; of mmap regions, their prot
  frame,   \* user_image_pages, user_stack_pages, mmap_region.frames
  pte,     \* the page table: frame, what it allows, PTE_COW
  sig,     \* signal_stack: its block of frames, taken as one
  refs,    \* g_frames[f].ref_count
  data,    \* what is in a frame
  access   \* the instruction a process is trying to complete

tables == <<prog, prot, frame, pte, sig>>
vars == <<life, tables, refs, data, access>>

NoEntry == [frame |-> NoFrame, allow |-> {}, cow |-> FALSE]
Unmapped == [v \in Pages |-> NoEntry]
NoFrames == [v \in Pages |-> NoFrame]

Init ==
  /\ life = [p \in Procs |-> "none"]
  /\ prog = [p \in Procs |-> CHOOSE first \in Programs : TRUE]
  /\ prot = [p \in Procs |-> [v \in Pages |-> NoProt]]
  /\ frame = [p \in Procs |-> NoFrames]
  /\ pte = [p \in Procs |-> Unmapped]
  /\ sig = [p \in Procs |-> NoFrame]
  /\ refs = [f \in Frames |-> 0]
  /\ data = [f \in Frames |-> Zero]
  /\ access = [p \in Procs |-> Idle]

-----------------------------------------------------------------------------
(* alloc(PAGE_SIZE): any frame nobody refers to.                            *)
FreeFrames == {f \in Frames : refs[f] = 0}
Fresh == CHOOSE f \in FreeFrames : TRUE

(* mmap_pte_prot, PROT_USER_RWX and PROT_USER_RW: the accesses an entry lets *)
(* through, and mmap_prot_allows_fault, stack_fault_allowed and              *)
(* image_fault_allowed: the accesses a page is filled for.                   *)
Allowed(rights) ==
  {k \in Kinds : \/ k = "fetch" /\ "x" \in rights
                 \/ k = "load" /\ rights \cap {"r", "w"} # {}
                 \/ k = "store" /\ "w" \in rights}

Entry(f, rights) == [frame |-> f, allow |-> Allowed(rights), cow |-> FALSE]

(* user_address_space_init: tables, and no page.                             *)
Fields(new) ==
  [v \in Pages |-> IF v \in DOMAIN Image[new] THEN {"r", "w", "x"}
                   ELSE IF v \in StackPages THEN {"r", "w"}
                   ELSE NoProt]

NewSpace(p, new) ==
  /\ prog' = [prog EXCEPT ![p] = new]
  /\ prot' = [prot EXCEPT ![p] = Fields(new)]
  /\ frame' = [frame EXCEPT ![p] = NoFrames]
  /\ pte' = [pte EXCEPT ![p] = Unmapped]
  /\ sig' = [sig EXCEPT ![p] = NoFrame]

Owned(p) == ({frame[p][v] : v \in Pages} \cup {sig[p]}) \ {NoFrame}

(* mm_page_put of everything a process owns.                                 *)
(* Faulty variant: what is shared is not put.                                *)
PutAllUnshared(p) ==
  refs' = [f \in Frames |-> IF f \in Owned(p) /\ refs[f] = 1 THEN 0 ELSE refs[f]]
PutAll(p) ==
  refs' = [f \in Frames |-> IF f \in Owned(p) THEN refs[f] - 1 ELSE refs[f]]

-----------------------------------------------------------------------------
(* user_process_create_from_image                                            *)
Start(p, new) ==
  /\ life[p] = "none"
  /\ life' = [life EXCEPT ![p] = "runs"]
  /\ NewSpace(p, new)
  /\ UNCHANGED <<refs, data, access>>

(* syscall_exec: the new space is made before the old one is destroyed; when *)
(* that fails nothing has changed.                                           *)
Exec(p, new) ==
  /\ life[p] = "runs" /\ access[p] = Idle
  /\ PutAll(p)
  /\ NewSpace(p, new)
  /\ UNCHANGED <<life, data, access>>

(* pte_make_cow                                                              *)
(* Faulty variants: the entry stays writable; it is not marked as shared.    *)
MarkNot(e) == [e EXCEPT !.allow = @ \ {"store"}]
MarkOnly(e) == IF "store" \in e.allow THEN [e EXCEPT !.cow = TRUE] ELSE e
MakeCow(e) ==
  IF "store" \in e.allow THEN [e EXCEPT !.allow = @ \ {"store"}, !.cow = TRUE]
  ELSE e

(* share_user_page and user_mmap_share_page: one entry for parent and child, *)
(* and one reference more to every frame that a page or a region has.        *)
SharePages(p, child) ==
  LET shared == [v \in Pages |-> MakeCow(pte[p][v])]
  IN  pte' = [pte EXCEPT ![p] = shared, ![child] = shared]
CloneFrames(p, child) ==
  /\ frame' = [frame EXCEPT ![child] = frame[p]]
  /\ refs' = [f \in Frames |->
                IF \E v \in Pages : frame[p][v] = f THEN refs[f] + 1 ELSE refs[f]]

(* syscall_fork.  The child is not given the signal stack.                   *)
Fork(p, child) ==
  /\ life[p] = "runs" /\ access[p] = Idle /\ life[child] = "none"
  /\ life' = [life EXCEPT ![child] = "runs"]
  /\ prog' = [prog EXCEPT ![child] = prog[p]]
  /\ prot' = [prot EXCEPT ![child] = prot[p]]
  /\ SharePages(p, child) /\ CloneFrames(p, child)
  /\ sig' = [sig EXCEPT ![child] = NoFrame]
  /\ UNCHANGED <<data, access>>

(* An allocation fails half way: what the child had is put back, but the     *)
(* parent's entries up to there stay marked.                                 *)
ForkFails(p, reached) ==
  /\ life[p] = "runs" /\ access[p] = Idle
  /\ pte' = [pte EXCEPT ![p] = [v \in Pages |->
               IF v \in reached THEN MakeCow(pte[p][v]) ELSE pte[p][v]]]
  /\ UNCHANGED <<life, prog, prot, frame, sig, refs, data, access>>

(* user_mmap_anonymous: a region over pages where nothing is mapped.  With   *)
(* MAP_POPULATE every page is filled now, or the region is undone.           *)
Region(p, new, rights) ==
  /\ life[p] = "runs" /\ access[p] = Idle
  /\ new # {} /\ new \subseteq MmapPages
  /\ \A v \in new : prot[p][v] = NoProt
  /\ prot' = [prot EXCEPT ![p] =
                [v \in Pages |-> IF v \in new THEN rights ELSE prot[p][v]]]
  /\ UNCHANGED <<life, prog, sig, access>>

Mmap(p, new, rights) ==
  /\ Region(p, new, rights)
  /\ UNCHANGED <<frame, pte, refs, data>>

Fill(p, new, rights, fill) ==
  /\ frame' = [frame EXCEPT ![p] =
                 [v \in Pages |-> IF v \in new THEN fill[v] ELSE frame[p][v]]]
  /\ pte' = [pte EXCEPT ![p] =
               [v \in Pages |-> IF v \in new THEN Entry(fill[v], rights)
                                ELSE pte[p][v]]]
  /\ refs' = [f \in Frames |-> IF \E v \in new : fill[v] = f THEN 1 ELSE refs[f]]

Distinct(new) ==
  {fill \in [new -> FreeFrames] :
     \A v, w \in new : v # w => fill[v] # fill[w]}

Populate(p, new, rights) ==
  LET fill == CHOOSE chosen \in Distinct(new) : TRUE
  IN  /\ Region(p, new, rights) /\ Distinct(new) # {}
      /\ Fill(p, new, rights, fill)
      /\ data' = [f \in Frames |->
                    IF \E v \in new : fill[v] = f THEN Zero ELSE data[f]]

-----------------------------------------------------------------------------
(* An instruction i of a process fetches, loads or stores.  It completes, or *)
(* its fault is handled before anything else runs and the same instruction   *)
(* is tried again later.                                                     *)
Instructions ==
  {i \in [page : Pages, kind : Kinds, value : Values] :
     i.kind # "store" => i.value = Zero}

Executes(p, i) == life[p] = "runs" /\ access[p] \in {Idle, i}
Passes(p, i) == i.kind \in pte[p][i.page].allow
Retry(p, i) == access' = [access EXCEPT ![p] = i]

Complete(p, i) ==
  /\ Executes(p, i) /\ Passes(p, i)
  /\ data' = IF i.kind = "store"
               THEN [data EXCEPT ![pte[p][i.page].frame] = i.value] ELSE data
  /\ access' = [access EXCEPT ![p] = Idle]
  /\ UNCHANGED <<life, tables, refs>>

Faults(p, i) == Executes(p, i) /\ ~Passes(p, i)

(* user_cow_handle_page_fault: the last sharer gets the page back ...        *)
OnCow(p, i) == i.kind = "store" /\ pte[p][i.page].cow
Sharers(p, i) == refs[pte[p][i.page].frame]

Writable(f, e) == [frame |-> f, allow |-> e.allow \cup {"store"}, cow |-> FALSE]

(* Faulty variant: two sharers are taken for one.                            *)
CowRestoreShared(p, i) ==
  /\ Faults(p, i) /\ OnCow(p, i) /\ Sharers(p, i) <= 2
  /\ pte' = [pte EXCEPT ![p][i.page] = Writable(@.frame, @)]
  /\ Retry(p, i)
  /\ UNCHANGED <<life, prog, prot, frame, sig, refs, data>>

CowRestore(p, i) ==
  /\ Faults(p, i) /\ OnCow(p, i) /\ Sharers(p, i) <= 1
  /\ pte' = [pte EXCEPT ![p][i.page] = Writable(@.frame, @)]
  /\ Retry(p, i)
  /\ UNCHANGED <<life, prog, prot, frame, sig, refs, data>>

(* ... any other gets a copy.  user_replace_owned_frame asks an mmap region  *)
(* for PROT_WRITE (user_mmap_replace_frame).                                 *)
RegionReplaceable(p, v) == "w" \in prot[p][v]
Replaceable(p, v) == /\ frame[p][v] = pte[p][v].frame
                     /\ v \in MmapPages => RegionReplaceable(p, v)
CanCopy(p, i) ==
  /\ OnCow(p, i) /\ Sharers(p, i) > 1
  /\ FreeFrames # {} /\ Replaceable(p, i.page)

CowCopy(p, i) ==
  LET v == i.page
  IN  /\ Faults(p, i) /\ CanCopy(p, i)
      /\ frame' = [frame EXCEPT ![p][v] = Fresh]
      /\ pte' = [pte EXCEPT ![p][v] = Writable(Fresh, @)]
      /\ data' = [data EXCEPT ![Fresh] = data[frame[p][v]]]
      /\ refs' = [refs EXCEPT ![Fresh] = 1, ![frame[p][v]] = @ - 1]
      /\ Retry(p, i)
      /\ UNCHANGED <<life, prog, prot, sig>>

(* The demand paging handlers act on a page with no entry that its area      *)
(* allows to be accessed this way.  Such a page has no frame yet.  *)
OnDemand(p, i) ==
  pte[p][i.page] = NoEntry /\ i.kind \in Allowed(prot[p][i.page])

(* The frame is zeroed, and filled from the image.                           *)
Initial(p, v) == IF v \in DOMAIN Image[prog[p]] THEN Image[prog[p]][v] ELSE Zero

(* user_image_handle_page_fault, user_stack_handle_page_fault and            *)
(* user_mmap_handle_page_fault.                                              *)
Demand(p, i) ==
  /\ Faults(p, i) /\ OnDemand(p, i) /\ FreeFrames # {}
  /\ Fill(p, {i.page}, prot[p][i.page], [v \in {i.page} |-> Fresh])
  /\ data' = [data EXCEPT ![Fresh] = Initial(p, i.page)]
  /\ Retry(p, i)
  /\ UNCHANGED <<life, prog, prot, sig>>

(* No handler serves the access: "[Segmentation fault]: Kill Process".  A    *)
(* handler that cannot get memory does not serve it either.                  *)
Served(p, i) ==
  \/ OnCow(p, i) /\ Sharers(p, i) <= 1
  \/ CanCopy(p, i)
  \/ OnDemand(p, i) /\ FreeFrames # {}

Ended(p) ==
  /\ life' = [life EXCEPT ![p] = "zombie"]
  /\ access' = [access EXCEPT ![p] = Idle]
  /\ UNCHANGED <<tables, refs, data>>

SegmentationFault(p, i) == Faults(p, i) /\ ~Served(p, i) /\ Ended(p)

-----------------------------------------------------------------------------
(* signal_deliver and syscall_sigreturn: the handler's stack.                *)
Deliver(p) ==
  /\ life[p] = "runs" /\ access[p] = Idle /\ sig[p] = NoFrame /\ FreeFrames # {}
  /\ sig' = [sig EXCEPT ![p] = Fresh]
  /\ refs' = [refs EXCEPT ![Fresh] = 1]
  /\ UNCHANGED <<life, prog, prot, frame, pte, data, access>>

SigReturn(p) ==
  /\ life[p] = "runs" /\ access[p] = Idle /\ sig[p] # NoFrame
  /\ refs' = [refs EXCEPT ![sig[p]] = @ - 1]
  /\ sig' = [sig EXCEPT ![p] = NoFrame]
  /\ UNCHANGED <<life, prog, prot, frame, pte, data, access>>

(* exit, stop and kill leave the address space for kill_zombies.             *)
End(p) == life[p] = "runs" /\ Ended(p)

Forgotten(p) ==
  /\ prot' = [prot EXCEPT ![p] = [v \in Pages |-> NoProt]]
  /\ frame' = [frame EXCEPT ![p] = NoFrames]
Reap(p) ==
  /\ life[p] = "zombie"
  /\ life' = [life EXCEPT ![p] = "none"]
  /\ PutAll(p) /\ Forgotten(p)
  /\ pte' = [pte EXCEPT ![p] = Unmapped]
  /\ sig' = [sig EXCEPT ![p] = NoFrame]
  /\ UNCHANGED <<prog, data, access>>

Execute(p, i) ==
  \/ Complete(p, i) \/ CowRestore(p, i) \/ CowCopy(p, i) \/ Demand(p, i)
  \/ SegmentationFault(p, i)

Next ==
  \E p \in Procs :
    \/ \E new \in Programs : Start(p, new) \/ Exec(p, new)
    \/ \E child \in Procs : Fork(p, child)
    \/ \E reached \in SUBSET Pages : ForkFails(p, reached)
    \/ \E new \in SUBSET MmapPages, rights \in Prots :
         Mmap(p, new, rights) \/ Populate(p, new, rights)
    \/ \E i \in Instructions : Execute(p, i)
    \/ Deliver(p) \/ SigReturn(p) \/ End(p) \/ Reap(p)

Spec == Init /\ [][Next]_vars
-----------------------------------------------------------------------------
(* The type invariant.                                                       *)
TypeOK ==
  /\ life \in [Procs -> {"none", "runs", "zombie"}]
  /\ prog \in [Procs -> Programs]
  /\ prot \in [Procs -> [Pages -> (SUBSET {"r", "w", "x"}) \cup {NoProt}]]
  /\ frame \in [Procs -> [Pages -> Frames \cup {NoFrame}]]
  /\ pte \in [Procs -> [Pages ->
        [frame : Frames \cup {NoFrame}, allow : SUBSET Kinds, cow : BOOLEAN]]]
  /\ sig \in [Procs -> Frames \cup {NoFrame}]
  /\ refs \in [Frames -> Nat] /\ data \in [Frames -> Values]
  /\ access \in [Procs -> Instructions \cup {Idle}]

(* A frame's count is the number of address spaces that own it, through      *)
(* sharing, copying, failing forks, signals, exec and death: none is freed   *)
(* while it is mapped and none is lost.                                      *)
RefsExact ==
  \A f \in Frames : refs[f] = Cardinality({p \in Procs : f \in Owned(p)})

(* No process can write what another one, or another page, maps.             *)
WritableIsPrivate ==
  \A p, q \in Procs, v, w \in Pages :
    /\ "store" \in pte[p][v].allow
    /\ <<q, w>> # <<p, v>>
    => pte[q][w].frame # pte[p][v].frame

(* An access its area permits is never answered by killing the process,      *)
(* unless memory has run out.                                                *)
PermittedIsServed ==
  \A p \in Procs, i \in Instructions :
    Faults(p, i) /\ i.kind \in Allowed(prot[p][i.page]) =>
      Served(p, i) \/ FreeFrames = {}

(* The frames' counts follow their owners, and an access that is permitted   *)
(* is served as long as there is memory.                                     *)
PagesSound == RefsExact /\ PermittedIsServed

(* Each process has a memory of its own (PrivateMemory).  The signal stack   *)
(* is left out: fork does not give it to the child.                         *)
Content(p, v) == IF frame[p][v] = NoFrame THEN Initial(p, v) ELSE data[frame[p][v]]
LoadImage(new) == [v \in (DOMAIN Image[new]) \cup StackPages |->
                  IF v \in DOMAIN Image[new] THEN Image[new][v] ELSE Zero]

Private == INSTANCE PrivateMemory WITH
  MapPages <- MmapPages,
  Images <- {LoadImage(new) : new \in Programs},
  mem <- [p \in Procs |->
            IF life[p] = "runs"
            THEN [v \in {w \in Pages : prot[p][w] # NoProt} |-> Content(p, v)]
            ELSE NoMemory]
KeepsPrivate == Private!Spec
=============================================================================
