------------------------------ MODULE PageTable ------------------------------
(***************************************************************************)
(* The page tables of the processes (vm.c): trees of three levels in       *)
(* frames of the same allocator that the pages come from, the upper part   *)
(* of every root shared with the kernel.  UserVm takes a table as a        *)
(* function from pages to entries; this module says why it may.  A call    *)
(* runs with interrupts off from its first to its last access, and ends    *)
(* with a flush of the translations the processor remembers, so it is one  *)
(* action here too.                                                        *)
(***************************************************************************)
EXTENDS Integers, Sequences, FiniteSets, FiniteSetsExt, SequencesExt

CONSTANTS
  Spaces,     \* address spaces: threads with a pgd
  NoFrame,
  AllFrames,     \* frames the allocator gives out, numbered
  KernelRoot, KernelPmd,  \* g_kernel_pgd and what its upper half points to
  LowSlots,   \* slots below PGD_KERNEL_BASE
  HighSlot,   \* a slot of the upper half
  Pages,      \* user pages: the slots <<vpn 2, vpn 1, vpn 0>>
  SigPages,   \* the pages of the signal stack, in order
  Perms       \* what pages may permit; {} is a page nobody may touch

Slots == LowSlots \cup {HighSlot}
SigSet == ToSet(SigPages)

PageTableAssumption ==
  /\ AllFrames \subseteq Nat /\ HighSlot \notin LowSlots
  /\ {KernelRoot, KernelPmd, NoFrame} \cap AllFrames = {} /\ KernelRoot # KernelPmd
  /\ NoFrame \notin {KernelRoot, KernelPmd}
  /\ Pages \subseteq LowSlots \X Slots \X Slots /\ SigSet \subseteq Pages
  /\ Perms \subseteq SUBSET {"r", "w"}

VARIABLES
  mem,    \* frames as tables: what each slot would be read as
  free,   \* frames the allocator has
  root,   \* pgd of each space
  data,   \* the frames the kernel has recorded for each page: user_image_pages,
          \* user_stack_pages, r->frames, signal_stack
  asked,  \* history: the entry each page was last given
  satp,   \* the root the processor translates by
  sound   \* history: nothing was freed twice, no page was taken for a table
vars == <<mem, free, root, data, asked, satp, sound>>

Entry(f, p) == [to |-> f, perms |-> p]
NoEntry == Entry(NoFrame, {})      \* not PTE_V
Valid(e) == e.to # NoFrame
Leaf(e) == e.perms # {}            \* pte_is_leaf

Zeroed == [i \in Slots |-> NoEntry]
(* What a page of a process may contain when it is read as a table.          *)
Junk(f) == [i \in Slots |-> Entry(f, {})]

Init ==
  /\ mem = [f \in AllFrames \cup {KernelRoot, KernelPmd} |->
              IF f = KernelRoot THEN [Zeroed EXCEPT ![HighSlot] = Entry(KernelPmd, {})]
              ELSE IF f = KernelPmd THEN [i \in Slots |-> Entry(KernelRoot, {"r", "w"})]
              ELSE Junk(f)]
  /\ free = AllFrames
  /\ root = [s \in Spaces |-> NoFrame]
  /\ data = [s \in Spaces |-> [v \in Pages |-> NoFrame]]
  /\ asked = [s \in Spaces |-> [v \in Pages |-> NoEntry]]
  /\ satp = KernelRoot /\ sound = TRUE

-----------------------------------------------------------------------------
(* The calls of vm.c take and return the memory m: its frames, and those     *)
(* that are free; "ok" is what they return.                                  *)
Memory == [mem |-> mem, free |-> free, ok |-> TRUE]
Failed(m) == [m EXCEPT !.ok = FALSE]

(* alloc(PAGE_SIZE): which free frame it is does not matter.                 *)
Picked(m) == Min(m.free)
Take(m) == [m EXCEPT !.free = @ \ {Picked(m)}]

(* zero_page.  Faulty variant: a new table keeps what was in the frame.      *)
CleanNot(m, f) == m
Clean(m, f) == [m EXCEPT !.mem[f] = Zeroed]

(* next_table, when it may allocate.                                         *)
NextTable(m, table, slot) ==
  IF ~m.ok \/ Valid(m.mem[table][slot]) THEN m
  ELSE IF m.free = {} THEN Failed(m)
  ELSE LET f == Picked(m) IN [Clean(Take(m), f) EXCEPT !.mem[table][slot] = Entry(f, {})]

(* vm_get_pte: the table of the last level, NoFrame when there is none.      *)
Below(m, table, slot) == IF table = NoFrame THEN NoFrame ELSE m.mem[table][slot].to
LastTable(m, r, v) == Below(m, Below(m, r, v[1]), v[2])
Pte(m, r, v) == LET t == LastTable(m, r, v)
                IN IF t = NoFrame THEN NoEntry ELSE m.mem[t][v[3]]

(* map_pages, of one page: it stops where a table cannot be had, and leaves  *)
(* the tables it has made.                                                   *)
SetPte(m, r, v, e) == [m EXCEPT !.mem[LastTable(m, r, v)][v[3]] = e]
MapPage(m, r, v, e) ==
  LET upper == NextTable(m, r, v[1])
      lower == NextTable(upper, Below(upper, r, v[1]), v[2])
  IN  IF upper.ok /\ lower.ok THEN SetPte(lower, r, v, e) ELSE Failed(lower)
MapPages(m, r, vs, fs, p) ==
  FoldLeft(LAMBDA n, k : IF n.ok THEN MapPage(n, r, vs[k], Entry(fs[k], p)) ELSE n,
           m, [k \in 1..Len(vs) |-> k])

(* unmap_pages, and the entry make_cow and the copy of a page write.         *)
Unmap(m, r, vs) ==
  [m EXCEPT !.mem = [f \in DOMAIN @ |-> [i \in Slots |->
     IF \E v \in vs : f = LastTable(m, r, v) /\ i = v[3] THEN NoEntry ELSE @[f][i]]]]

(* vm_create_user_pgd.                                                       *)
CreateRoot(m) ==
  LET f == Picked(m) IN
  [Clean(Take(m), f) EXCEPT !.mem[f][HighSlot] = m.mem[KernelRoot][HighSlot]]

(* free_low_half_tables: below the kernel's half of a root, whatever a valid *)
(* entry that is no leaf leads to is a table, and so are those below it.     *)
(* Faulty variant: the kernel's half is not spared.                          *)
Children(m, t, slots) ==
  {m.mem[t][i].to : i \in {j \in slots : Valid(m.mem[t][j]) /\ ~Leaf(m.mem[t][j])}}
Below1(m, ts) == UNION {Children(m, t, Slots) : t \in ts}
HalfWhole == Slots
Half == LowSlots
TreeOf(m, r) ==
  LET pmds == Children(m, r, Half)
      ptes == Below1(m, pmds)
  IN  {r} \cup pmds \cup ptes \cup Below1(m, ptes)

-----------------------------------------------------------------------------
(* What a step leaves behind: the memory m, in which the frames fs that were *)
(* in use are free.  Their next owner must not rely on what they contain.    *)
Frees(m, fs) ==
  /\ mem' = [f \in DOMAIN m.mem |-> IF f \in fs THEN Junk(f) ELSE m.mem[f]]
  /\ free' = m.free \cup fs
Leaves(m, fs) ==
  /\ Frees(m, fs)
  /\ sound' = (sound /\ fs \cap (m.free \cup {KernelRoot, KernelPmd}) = {})
Live == {s \in Spaces : root[s] # NoFrame}
Current == {s \in Spaces : root[s] # NoFrame /\ root[s] = satp}

Records(d, s) == {d[s][v] : v \in Pages} \ {NoFrame}
Sharers(f) == {s \in Spaces : f \in Records(data, s)}
Blank == [v \in Pages |-> NoFrame]
Unasked == [v \in Pages |-> NoEntry]
NewPage(m, f) == [m EXCEPT !.mem[f] = Junk(f)]

(* user_address_space_destroy: the pages are unmapped before the tables are  *)
(* freed.  d are the pages recorded for a space with the root r, of which    *)
(* fs nobody else uses.  Faulty variant: the other way round.                *)
FreedTablesFirst(m, r, fs) == <<Unmap(m, r, Pages), TreeOf(m, r), fs>>
Freed(m, r, fs) ==
  LET n == Unmap(m, r, Pages) IN <<n, TreeOf(n, r), fs>>
Destroys(m, r, fs) ==
  LET d == Freed(m, r, fs) IN
  /\ Frees(d[1], d[2] \cup d[3])
  /\ sound' = (sound /\ d[2] \cap (d[1].free \cup {KernelRoot, KernelPmd}) = {}
                     /\ d[2] \cap UNION {Records(data, s) : s \in Spaces} = {})
OnlyOf(s) == {f \in Records(data, s) : Sharers(f) = {s}}

(* A process starts: vm_create_user_pgd.                                     *)
Create(s) ==
  /\ root[s] = NoFrame /\ free # {}
  /\ Leaves(CreateRoot(Memory), {})
  /\ root' = [root EXCEPT ![s] = Picked(Memory)]
  /\ UNCHANGED <<data, asked, satp>>

(* A page gets a frame of its own on a fault or by MAP_POPULATE; the frame   *)
(* goes back when the page cannot be mapped.                                 *)
Populate(s, v, p) ==
  /\ s \in Current /\ v \notin SigSet /\ data[s][v] = NoFrame /\ free # {}
  /\ LET f == Picked(Memory)
         m == MapPage(NewPage(Take(Memory), f), root[s], v, Entry(f, p)) IN
     IF m.ok
     THEN /\ Leaves(m, {})
          /\ data' = [data EXCEPT ![s][v] = f]
          /\ asked' = [asked EXCEPT ![s][v] = Entry(f, p)]
     ELSE Leaves(m, {f}) /\ UNCHANGED <<data, asked>>
  /\ UNCHANGED <<root, satp>>

(* signal_deliver maps a block of frames as the signal stack.                *)
Block == CHOOSE fs \in [1..Len(SigPages) -> free] : \A k \in DOMAIN fs :
           Cardinality({f \in free : f < fs[k]}) = k - 1
Deliver(s) ==
  /\ s \in Current /\ data[s][SigPages[1]] = NoFrame
  /\ Cardinality(free) >= Len(SigPages)
  /\ LET fs == Block
         m0 == FoldLeft(NewPage, [Memory EXCEPT !.free = @ \ ToSet(fs)], fs)
         m == MapPages(m0, root[s], SigPages, fs, {"r", "w"})
         at == [v \in SigSet |-> fs[CHOOSE k \in DOMAIN fs : SigPages[k] = v]] IN
     IF m.ok
     THEN /\ Leaves(m, {})
          /\ data' = [data EXCEPT ![s] = at @@ @]
          /\ asked' = [asked EXCEPT ![s] = [v \in SigSet |-> Entry(at[v], {"r", "w"})] @@ @]
     ELSE Leaves(m, ToSet(fs)) /\ UNCHANGED <<data, asked>>
  /\ UNCHANGED <<root, satp>>

(* sigreturn.                                                                *)
Sigreturn(s) ==
  /\ s \in Current /\ data[s][SigPages[1]] # NoFrame
  /\ Leaves(Unmap(Memory, root[s], SigSet), {data[s][v] : v \in SigSet})
  /\ data' = [data EXCEPT ![s] = [v \in SigSet |-> NoFrame] @@ @]
  /\ asked' = [asked EXCEPT ![s] = [v \in SigSet |-> NoEntry] @@ @]
  /\ UNCHANGED <<root, satp>>

(* user_address_space_clone_cow: each page of the parent loses its write     *)
(* permission and is mapped for the child; when that fails the child's space *)
(* is destroyed, and the parent keeps what it has.                           *)
Cow(p) == IF "w" \in p THEN (p \ {"w"}) \cup {"c"} ELSE p
CowEntry(e) == Entry(e.to, Cow(e.perms))
Shared(m, from, to, v) ==
  LET e == CowEntry(Pte(m, from, v)) IN MapPage(SetPte(m, from, v, e), to, v, e)
(* Pages of the parent, in the order in which they are shared.               *)
ToShare(s) == SetToSeq({v \in Pages \ SigSet : data[s][v] # NoFrame})
Clone(s, t) ==
  /\ s \in Current /\ root[t] = NoFrame /\ free # {}
  /\ LET r == Picked(Memory)
         todo == ToShare(s)
         Step(m, v) == IF m.ok THEN [Shared(m, root[s], r, v) EXCEPT !.done = @ + 1] ELSE m
         m == FoldLeft(Step, CreateRoot(Memory) @@ [done |-> 0], todo)
         cow == {todo[k] : k \in 1..m.done} IN
     /\ asked' = [asked EXCEPT
          ![s] = [v \in Pages |-> IF v \in cow THEN CowEntry(@[v]) ELSE @[v]],
          ![t] = IF m.ok THEN [v \in Pages |-> IF v \in cow THEN CowEntry(asked[s][v])
                                              ELSE NoEntry]
                 ELSE Unasked]
     /\ IF m.ok
        THEN /\ Leaves(m, {})
             /\ root' = [root EXCEPT ![t] = r]
             /\ data' = [data EXCEPT ![t] =
                  [v \in Pages |-> IF v \in cow THEN data[s][v] ELSE NoFrame]]
        ELSE Destroys(m, r, {}) /\ UNCHANGED <<root, data>>
  /\ UNCHANGED satp

(* user_cow_handle_page_fault: a page that nobody shares any more gets its   *)
(* write permission back, another is copied.                                 *)
Store(s, v) ==
  /\ s \in Current /\ "c" \in asked[s][v].perms
  /\ LET old == data[s][v]
         alone == Sharers(old) = {s}
         f == IF alone THEN old ELSE Picked(Memory)
         e == Entry(f, {"r", "w"}) IN
     /\ alone \/ free # {}
     /\ Leaves(SetPte(IF alone THEN Memory ELSE NewPage(Take(Memory), f), root[s], v, e), {})
     /\ data' = [data EXCEPT ![s][v] = f]
     /\ asked' = [asked EXCEPT ![s][v] = e]
  /\ UNCHANGED <<root, satp>>

(* exec: the new root is in use before the old tables are freed.             *)
(* Faulty variant: only after.                                               *)
ExecSatpLate(s, r) == satp
ExecSatp(s, r) == r
Exec(s) ==
  /\ s \in Current /\ free # {}
  /\ LET r == Picked(Memory) IN
     /\ Destroys(CreateRoot(Memory), root[s], OnlyOf(s))
     /\ root' = [root EXCEPT ![s] = r]
     /\ satp' = ExecSatp(s, r)
  /\ data' = [data EXCEPT ![s] = Blank]
  /\ asked' = [asked EXCEPT ![s] = Unasked]

(* kill_zombies, in another thread.                                          *)
Reap(s) ==
  /\ root[s] \notin {NoFrame, satp}
  /\ Destroys(Memory, root[s], OnlyOf(s))
  /\ root' = [root EXCEPT ![s] = NoFrame]
  /\ data' = [data EXCEPT ![s] = Blank]
  /\ asked' = [asked EXCEPT ![s] = Unasked]
  /\ UNCHANGED satp

(* switch_vm: threads of the kernel have the kernel's table.                 *)
SwitchVm(r) ==
  /\ r # satp /\ r \in {KernelRoot} \cup {root[s] : s \in Live}
  /\ satp' = r
  /\ UNCHANGED <<mem, free, root, data, asked, sound>>

Next ==
  \/ \E s \in Spaces :
       \/ Create(s) \/ Deliver(s) \/ Sigreturn(s) \/ Exec(s) \/ Reap(s)
       \/ \E v \in Pages : Store(s, v) \/ \E p \in Perms : Populate(s, v, p)
       \/ \E t \in Spaces : Clone(s, t)
  \/ \E r \in AllFrames \cup {KernelRoot} : SwitchVm(r)

Spec == Init /\ [][Next]_vars

-----------------------------------------------------------------------------
(* The three levels are a function: a walk finds for each page of each space *)
(* the entry it was last given, and nothing where nothing was mapped,        *)
(* whatever was mapped, shared, unmapped, refused for lack of memory, freed  *)
(* and used again in between (map_pages, next_table, unmap_pages).           *)
WalkAsMapped ==
  \A s \in Live, v \in Pages : Pte(Memory, root[s], v) = asked[s][v]

(* Every frame is free, or a table of one space that one entry leads to, or  *)
(* a recorded page; the teardown neither leaks nor frees twice, and never    *)
(* takes a page of a process for a table - which a valid entry without       *)
(* permissions, as mmap makes for PROT_NONE, would be (free_low_half_tables).*)
(* The processor never translates by a freed table (switch_vm before         *)
(* user_address_space_destroy in syscall_exec).                              *)
TablesIn(s) ==
  LET pmds == {mem[root[s]][i].to : i \in LowSlots} \ {NoFrame}
  IN  {root[s]} \cup pmds \cup ({mem[t][i].to : t \in pmds, i \in Slots} \ {NoFrame})
EveryFrameOnce ==
  LET tables == UNION {TablesIn(s) : s \in Live}
      pages == UNION {Records(data, s) : s \in Spaces} IN
  /\ sound /\ satp \in tables \cup {KernelRoot}
  /\ free \cup tables \cup pages = AllFrames
  /\ free \cap (tables \cup pages) = {} /\ tables \cap pages = {}
  /\ \A s, t \in Live : s # t => TablesIn(s) \cap TablesIn(t) = {}

(* So a table may be taken for a function from pages to entries.             *)
TablesExact == WalkAsMapped /\ EveryFrameOnce
=============================================================================
