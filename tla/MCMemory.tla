------------------------------ MODULE MCMemory ------------------------------
(* How memory comes to be in use, in the order of a boot: the bootloader      *)
(* loads a kernel, the kernel maps itself and looks up ranges in the device   *)
(* tree, mm_init sets the managed region up, blocks of frames are granted     *)
(* (Buddy), and alloc and free hand out what is smaller.  lab3's allocator     *)
(* does the last three in one (FrameLists).  A stage shares no variable with the next; each *)
(* behaviour is one of one stage.                                             *)
EXTENDS MCBuddy, Heap

CONSTANTS
  \* BootMemory
  BootPageSize, BootPages, BootOrder, BootWidth, MaxRegions, Base, ArrayBytes,
  \* FrameLists
  ListPages, Grants,
  \* DeviceTree
  Names, ReservedNode, Props, Reg, CellSize, MaxDepth, Length,
  \* Bootloader
  Symbols, Newline, Magic, MaxSize, LineLength, Commands, Streams, Faults

VARIABLES stage,
  fixed, children, todo, regions, array, lists, phase,
  ready, frames, area, bins, held, granted,
  blob, left,
  board, kernelTables, early, paging, fetch, sp,
  line, where, stack, roomTaken, at, typed, words, loaded, sent, commands, altered, lost
bootVars == <<fixed, children, todo, regions, array, lists, phase>>
listVars == <<ready, frames, area, bins, held, granted>>
treeVars == <<blob, left>>
mapVars == <<board, kernelTables, early, paging, fetch, sp>>
loadVars == <<line, where, stack, roomTaken, at, typed, words, loaded, sent, commands,
              altered, lost>>
allVars == <<stage, vars, heapVars, bootVars, listVars, treeVars, mapVars, loadVars>>

MCSpan == [k \in 0 .. HeapOrder |-> 2 ^ k]
MCPoolSizes == <<4, 6>>

(* Ranges that start in a page, at its edge, below and above the region, are  *)
(* empty, and wrap; two that everybody keeps, and up to two of the children.  *)
Ranges == [start : {0, 15, 21, 28, 52, 60}, size : {0, 2, 9, 62}]
Fixed == {<<a, b>> : a, b \in {r \in Ranges : r.size # 0}}
Children == {<<>>} \cup {<<a>> : a \in Ranges}
              \cup {<<a, [start |-> 30, size |-> 3]>> :
                      a \in {r \in Ranges : r.start \in {15, 52}}}
B == INSTANCE BootMemory
       WITH PageSize <- BootPageSize, NumPages <- BootPages, MaxOrder <- BootOrder,
            Width <- BootWidth, free <- lists

(* One range at every kind of place, and one behind it.                       *)
Spans == {0, 12, 15, 20, 30} \X {0, 3, 9, 50}
F == INSTANCE FrameLists
       WITH PageSize <- BootPageSize, NumPages <- ListPages, MaxOrder <- BootOrder,
            PoolSizes <- <<2>>, Base <- 12, Top <- 60, ArrayBytes <- 4,
            Ranges <- {<<a, b>> : a \in Spans, b \in {r \in Spans : r[1] >= 15}},
            Sizes <- {2, 3, 5, 9}, MaxLive <- Grants,
            pools <- bins, reserved <- held, live <- granted

(* One pair of two cells; three of one, the second of size zero.  A block     *)
(* that is in the second child of /reserved-memory is one to go on from.      *)
Values == {<<1, 0, 0, 1>>, <<0, 1, 1, 0, 1, 1>>}
Starts == {<<>>, <<[kind |-> "BEGIN", name |-> "/"],
                   [kind |-> "BEGIN", name |-> ReservedNode],
                   [kind |-> "BEGIN", name |-> "memory"],
                   [kind |-> "PROP", name |-> Reg, value |-> <<0, 1, 1, 0, 1, 1>>],
                   [kind |-> "END_NODE"], [kind |-> "BEGIN", name |-> ReservedNode]>>}
D == INSTANCE DeviceTree WITH Reserved <- ReservedNode

(* A zero at the end, at the front, and an image that holds the magic.        *)
Images == {<<1>>, <<0, 3>>, <<3, 0>>, <<2, 0, 3>>}
L == INSTANCE Bootloader WITH Base <- Symbols

(* One page for the UART and some for the PLIC, in one block or in several.   *)
K == INSTANCE KernelMap
       WITH Entries <- 8, HighBase <- 4, HighSlots <- 4, LowGiants <- 2, EarlyTables <- 4,
            Image <- 9, tables <- kernelTables, pc <- fetch,
            Boards <- {<<<<u, 1>>, <<p, n>>>> : u \in {128, 167, 200, 255},
                                                p \in {168, 191, 196, 201, 238}, n \in {1, 8, 13}}

ASSUME StagesAssumption ==
  /\ NoWrap /\ B!BootAssumption /\ F!FrameListsAssumption
  /\ K!KernelMapAssumption /\ D!DeviceTreeAssumption /\ L!BootloaderAssumption

MCInit ==
  /\ stage \in {"load", "tree", "boot", "frames", "heap", "lists", "paging"}
  /\ Init /\ HeapInit /\ D!Init /\ L!Init /\ (stage = "load" \/ ~roomTaken)
  /\ IF stage = "boot" THEN B!Init
     ELSE /\ fixed = <<>> /\ children = <<>> /\ todo = <<>> /\ regions = <<>>
          /\ array = B!NoRoom /\ lists = <<>> /\ phase = "record"
  /\ IF stage = "lists" THEN F!Init
     ELSE ready = 0 /\ frames = 0 /\ area = 0 /\ bins = 0 /\ held = 0 /\ granted = 0
  /\ IF stage = "paging" THEN K!Init
     ELSE board = 0 /\ kernelTables = 0 /\ early = 0 /\ paging = FALSE /\ fetch = 0 /\ sp = 0

Frame(A) == stage = "frames" /\ A
              /\ UNCHANGED <<stage, heapVars, bootVars, listVars, treeVars, mapVars, loadVars>>
MCNext ==
  \/ Frame(Next)
  \/ stage = "heap" /\ HeapNext
       /\ UNCHANGED <<stage, vars, bootVars, listVars, treeVars, mapVars, loadVars>>
  \/ stage = "boot" /\ B!Next
       /\ UNCHANGED <<stage, vars, heapVars, listVars, treeVars, mapVars, loadVars>>
  \/ stage = "tree" /\ D!Next
       /\ UNCHANGED <<stage, vars, heapVars, bootVars, listVars, mapVars, loadVars>>
  \/ stage = "load" /\ L!Next
       /\ UNCHANGED <<stage, vars, heapVars, bootVars, listVars, treeVars, mapVars>>
  \/ stage = "lists" /\ F!Next
       /\ UNCHANGED <<stage, vars, heapVars, bootVars, treeVars, mapVars, loadVars>>
  \/ stage = "paging" /\ K!Next
       /\ UNCHANGED <<stage, vars, heapVars, bootVars, listVars, treeVars, loadVars>>
MCSpec == MCInit /\ [][MCNext]_allVars

(* What frees have undone is as if it had never been: when all is freed the  *)
(* buddy lists hold the maximal blocks, after mm_init the lists hold what is *)
(* not reserved, and lab3's frame array says of every frame what it is.      *)
FramesExact ==
  /\ AllFreedMaximal
  /\ stage = "boot" => B!BootedWell
  /\ stage = "lists" => F!ListsExact
(* The kernel that is started is the one that was sent, and it is mapped as  *)
(* it goes on to assume at every instruction of its start.                   *)
KernelStarts ==
  /\ stage = "load" => L!JumpsToWhatWasSent
  /\ stage = "paging" => K!MapsKernel
LookupsAgree == stage = "tree" => D!LookupsAgree
=============================================================================
