------------------------------- MODULE KernelMap -------------------------------
(***************************************************************************)
(* How the kernel gets into the upper half: start.S and setup_vm (vm.c).    *)
(* It is loaded low and runs low until it has built its tables, goes on low *)
(* while they map it twice, jumps, moves its stack, and drops the lower     *)
(* mapping.  Later every process shares the upper half (PageTable).         *)
(* An address is the number of its page, as the tables see it.              *)
(***************************************************************************)
EXTENDS Integers, FiniteSets, SequencesExt

CONSTANTS
  Entries,      \* PT_ENTRIES
  HighBase,     \* PGD_KERNEL_BASE
  HighSlots,    \* how many tables there are for the upper half: g_kernel_pmd
  LowGiants,    \* how many giants (BLOCK_1G_SIZE) of memory are mapped
  EarlyTables,  \* EARLY_PTE_PAGES
  Boards,       \* where the devices may be: sequences of <<first page, pages>>
  Image         \* a page of the loaded kernel; Image + 1 has the stack

Giant == Entries ^ 2
Offset == HighBase * Giant   \* KERNEL_OFFSET
Addresses == 0 .. Entries * Giant - 1
PagesOf(device) == [k \in 1 .. device[2] |-> device[1] + k - 1]
DevicePages(ds) == UNION {ToSet(PagesOf(ds[i])) : i \in DOMAIN ds}

(* The devices lie behind the memory, where the upper half has tables, and   *)
(* in no more blocks than there are early tables: map_4k_range_early is not  *)
(* asked whether it succeeded.                                               *)
KernelMapAssumption ==
  /\ HighBase + HighSlots <= Entries /\ LowGiants \in 1 .. HighSlots
  /\ Image \in 0 .. Giant - 2
  /\ \A b \in Boards :
       /\ DevicePages(b) \subseteq LowGiants * Giant .. HighSlots * Giant - 1
       /\ Cardinality({pa \div Entries : pa \in DevicePages(b)}) <= EarlyTables

VARIABLES
  board,
  tables,   \* the static tables
  early,    \* g_early_pte_next
  paging,   \* is satp set?
  pc, sp    \* the pages the hart fetches from and has its stack in
vars == <<board, tables, early, paging, pc, sp>>

Root == <<"pgd", 0>>
Identity == <<"identity", 0>>
High(i) == <<"pmd", i>>
Early(n) == <<"early", n>>
Tables == {Root, Identity} \cup {High(i) : i \in 0 .. HighSlots - 1}
            \cup {Early(n) : n \in 0 .. EarlyTables - 1}

Absent == [is |-> "none"]
Table(t) == [is |-> "table", to |-> t]
Leaf(pa, x) == [is |-> "leaf", pa |-> pa, x |-> x]

(* _start clears .bss, where the tables are.                                 *)
Init ==
  /\ board \in Boards /\ early = 0
  /\ tables = [t \in Tables |-> [i \in 0 .. Entries - 1 |-> Absent]]
  /\ paging = FALSE /\ pc = Image /\ sp = Image + 1

-----------------------------------------------------------------------------
Index(va, level) == (va \div (Entries ^ level)) % Entries

(* map_2m_range, of a giant: one leaf for each of its blocks.                *)
MapGiant(m, pmd, va, pa) ==
  [m EXCEPT !.tables[Root][Index(va, 2)] = Table(pmd),
            !.tables[pmd] = [i \in 0 .. Entries - 1 |-> Leaf(pa + i * Entries, TRUE)]]

(* One page of map_4k_range_early; what it finds in pmd is taken for a table.*)
MapDevicePage(m, pa) ==
  LET slot == Index(pa + Offset, 2)
      pmd == High(slot - HighBase)
      block == Index(pa + Offset, 1)
      old == m.tables[pmd][block]
      pte == IF old = Absent THEN Early(m.early) ELSE old.to
  IN  [m EXCEPT !.tables[Root][slot] = Table(pmd),
                !.tables[pmd][block] = Table(pte),
                !.tables[pte][Index(pa, 0)] = Leaf(pa, FALSE),
                !.early = IF old = Absent THEN @ + 1 ELSE @]

(* setup_vm                                                                  *)
Memory(m) == FoldLeft(LAMBDA r, i : MapGiant(r, High(i), Offset + i * Giant, i * Giant),
                      MapGiant(m, Identity, 0, 0), [i \in 1 .. LowGiants |-> i - 1])
Devices(m) == FoldLeft(LAMBDA r, d : FoldLeft(MapDevicePage, r, PagesOf(d)), m, board)
SetupVm ==
  LET m == Devices(Memory([tables |-> tables, early |-> 0]))
  IN  /\ ~paging /\ paging' = TRUE
      /\ tables' = m.tables /\ early' = m.early
      /\ UNCHANGED <<board, pc, sp>>

(* The jump to higher_half_start, and the first instruction there.           *)
Jump == paging /\ pc < Offset /\ pc' = pc + Offset /\ UNCHANGED <<board, tables, early, paging, sp>>
MoveStack ==
  pc >= Offset /\ sp < Offset /\ sp' = sp + Offset /\ UNCHANGED <<board, tables, early, paging, pc>>

DropIdentityMap ==
  /\ sp >= Offset /\ tables[Root][0] # Absent
  /\ tables' = [tables EXCEPT ![Root][0] = Absent]
  /\ UNCHANGED <<board, early, paging, pc, sp>>

Next == SetupVm \/ Jump \/ MoveStack \/ DropIdentityMap
Spec == Init /\ [][Next]_vars

-----------------------------------------------------------------------------
(* vm_translate, and what the hart does: the page and whether it may be      *)
(* fetched from.                                                             *)
Translate(va) ==
  LET Walk[level \in 0 .. 2, t \in Tables] ==
        LET e == tables[t][Index(va, level)]
        IN  IF e.is = "table" THEN IF level = 0 THEN Absent ELSE Walk[level - 1, e.to]
            ELSE IF e.is = "leaf" THEN Leaf(e.pa + (va % (Entries ^ level)), e.x) ELSE e
  IN  Walk[2, Root]

(* At every instruction since satp was set the hart finds its code and its   *)
(* stack; and in the end all of memory and the devices' registers, which     *)
(* nobody executes, are mapped at their offset, and nothing else is, though  *)
(* devices share tables and do not begin or end where their blocks do        *)
(* (start.S, map_2m_range, map_4k_range_early, drop_identity_map).           *)
MapsKernel ==
  /\ paging => /\ Translate(pc) = Leaf(Image, TRUE)
               /\ Translate(sp) = Leaf(Image + 1, TRUE)
  /\ paging /\ tables[Root][0] = Absent =>
       \A va \in Addresses :
         LET pa == va - Offset
         IN  Translate(va) = IF pa \in 0 .. LowGiants * Giant - 1 THEN Leaf(pa, TRUE)
                             ELSE IF pa \in DevicePages(board) THEN Leaf(pa, FALSE)
                             ELSE Absent
=============================================================================
