------------------------------ MODULE FrameLists ------------------------------
(***************************************************************************)
(* The first allocator of the repository, mm.c of lab3, which lab4 and lab5 *)
(* carry on unchanged: one file from the device tree's ranges to the        *)
(* chunks.  Buddy and Heap show lab7's descendant with the lists as sets    *)
(* and the frame array left out; here they are what the code walks: a free  *)
(* block is found again, merged and handed out by what the frame array says *)
(* of it, and the chunks of a page by the page's pool and their offset.     *)
(*                                                                          *)
(* There are no threads in lab3; a call is one action.  The frame array     *)
(* takes its frames from the region that it describes.                      *)
(***************************************************************************)
EXTENDS Integers, FiniteSets, Sequences, SequencesExt, FiniteSetsExt

CONSTANTS
  PageSize, NumPages, MaxOrder, PoolSizes,
  Base,        \* g_mm_base
  Top,         \* the largest address there is
  MaxRegions,  \* MAX_RESERVED_REGIONS
  ArrayBytes,  \* g_frame_array_bytes
  Ranges,      \* sequences of <<start, size>> that the device tree may reserve
  Sizes, MaxLive   \* bounds: what is asked of alloc, and how many grants are held at once

Frames == 0 .. NumPages - 1
Limit == Base + NumPages * PageSize
Addresses == Base .. Limit - 1
Orders == 0 .. MaxOrder
FrameListsAssumption ==
  /\ PageSize \in Nat \ {0} /\ NumPages \in Nat \ {0} /\ MaxOrder \in Nat /\ Base % PageSize = 0
  /\ \A p \in DOMAIN PoolSizes : PageSize % PoolSizes[p] = 0

VARIABLES
  ready,     \* g_mm_ready
  frames,    \* g_frames
  area,      \* g_free_area: frames, the first of each list first
  pools,     \* g_pools: free chunks
  reserved,  \* history: the frames mm_init reserved
  live       \* history: what has been granted and not freed, with its size
vars == <<ready, frames, area, pools, reserved, live>>

-----------------------------------------------------------------------------
(* record_reserved_range: the pages that the range touches, of those that    *)
(* are managed.  A range that wraps goes to the end of memory.               *)
Down(a) == a - (a % PageSize)
Up(a) == Down(a + PageSize - 1)
Clipped(start, size) ==
  LET end == IF start + size > Top THEN Top ELSE start + size
  IN  <<Down(IF start < Base THEN Base ELSE start), IF end > Limit THEN Limit ELSE end>>
Recorded(regions, r) ==
  LET c == Clipped(r[1], r[2])
  IN  IF Len(regions) >= MaxRegions \/ r[2] = 0 \/ r[1] >= Limit \/ c[1] >= c[2] THEN regions
      ELSE Append(regions, <<c[1], Min({Up(c[2]), Limit})>>)

(* The device tree itself, the kernel's image, the initial ramdisk and the   *)
(* children of /reserved-memory, in this order.                              *)
Known(ranges) == FoldLeft(Recorded, <<>>, ranges)

(* startup_alloc of the frame array: behind all that is in the way of the    *)
(* place tried, and again.  Limit if there is no room.                       *)
Conflicts(regions, a) ==
  {regions[i] : i \in {j \in DOMAIN regions : a < regions[j][2] /\ regions[j][1] < a + ArrayBytes}}
ArrayAt(regions) ==
  LET from[a \in Base .. Limit] ==
        IF a + ArrayBytes > Limit THEN Limit
        ELSE IF Conflicts(regions, a) = {} THEN a
        ELSE from[Max({r[2] : r \in Conflicts(regions, a)})]
  IN  from[Base]

Index(a) == (a - Base) \div PageSize
PagesOf(regions) == UNION {Index(regions[i][1]) .. Index(regions[i][2] - 1) : i \in DOMAIN regions}

-----------------------------------------------------------------------------
(* The frame array and the lists; m is both.                                 *)
Frame(k, state) == [order |-> k, state |-> state, pool |-> 0]
SetBlock(m, i, k, head, tail) ==
  [m EXCEPT !.frames = [j \in Frames |-> IF j = i THEN Frame(k, head)
                                         ELSE IF j \in i + 1 .. i + 2 ^ k - 1 THEN Frame(-1, tail)
                                         ELSE @[j]]]
SetFree(m, i, k) == SetBlock(m, i, k, "free head", "free tail")
AddFree(m, i, k) == [SetFree(m, i, k) EXCEPT !.area[k] = <<i>> \o @]
RemoveFree(m, i, k) == [m EXCEPT !.area[k] = SelectSeq(@, LAMBDA j : j # i)]

(* build_initial_free_lists                                                  *)
LargestAt(i, held) == Max({k \in Orders : i % (2 ^ k) = 0 /\ i + 2 ^ k <= NumPages
                                          /\ (i .. i + 2 ^ k - 1) \cap held = {}})
InitialLists(m, held) ==
  LET blocks[i \in 0 .. NumPages] ==
        IF i = NumPages THEN <<>>
        ELSE IF i \in held THEN blocks[i + 1]
        ELSE <<<<i, LargestAt(i, held)>>>> \o blocks[i + 2 ^ LargestAt(i, held)]
  IN  FoldLeft(LAMBDA r, b : AddFree(r, b[1], b[2]), m, blocks[0])

(* buddy_alloc_order: the first block of the least order there is; the upper *)
(* halves go to the lists.                                                   *)
Fitting(m, k) == {c \in k .. MaxOrder : m.area[c] # <<>>}
BuddyAlloc(m, k) ==
  LET c == Min(Fitting(m, k))
      i == Head(m.area[c])
      halves == FoldLeft(LAMBDA r, o : AddFree(SetFree(r, i, o), i + 2 ^ o, o),
                         RemoveFree(m, i, c), [n \in 1 .. c - k |-> c - n])
  IN  SetBlock(halves, i, k, "alloc head", "alloc tail")
BuddyAllocAt(m, k) == Head(m.area[Min(Fitting(m, k))])

(* buddy_free_idx: merging as far as it goes.                                *)
CanMerge(m, b, k) ==
  b < NumPages /\ m.frames[b].state = "free head" /\ m.frames[b].order = k
BuddyOf(i, k) == IF (i \div 2 ^ k) % 2 = 0 THEN i + 2 ^ k ELSE i - 2 ^ k
MergedOnce(r, k) ==
  LET b == BuddyOf(r.at, k)
      i == Min({b, r.at})
  IN  IF r.k # k \/ ~CanMerge(r.m, b, k) THEN r
      ELSE [m |-> SetFree(RemoveFree(r.m, b, k), i, k + 1), at |-> i, k |-> k + 1]
BuddyFree(m, i, k) ==
  LET r == FoldLeft(MergedOnce, [m |-> m, at |-> i, k |-> k], [n \in 1 .. MaxOrder |-> n - 1])
  IN  AddFree(r.m, r.at, r.k)

-----------------------------------------------------------------------------
(* mm_init                                                                   *)
Unmarked == [frames |-> [j \in Frames |-> Frame(-1, "alloc tail")],
             area |-> [k \in Orders |-> <<>>]]
Marked(m, held) == [m EXCEPT !.frames = [j \in Frames |-> IF j \in held THEN Frame(-1, "reserved")
                                                          ELSE @[j]]]
Init ==
  \E ranges \in Ranges :
    LET known == Known(ranges)
        a == ArrayAt(known)
        held == PagesOf(Recorded(known, <<a, ArrayBytes>>))
        m == IF a = Limit THEN Unmarked ELSE InitialLists(Marked(Unmarked, held), held)
    IN  /\ ready = (a # Limit) /\ frames = m.frames /\ area = m.area
        /\ reserved = IF a = Limit THEN Frames ELSE held
        /\ pools = [p \in DOMAIN PoolSizes |-> <<>>] /\ live = [x \in {} |-> 0]

Lists == [frames |-> frames, area |-> area]
Becomes(m) == frames' = m.frames /\ area' = m.area
Granted(a, size) ==
  live' = [x \in DOMAIN live \cup {a} |-> IF x = a THEN size ELSE live[x]]

(* pick_pool_id; PoolSizes ascend.                                           *)
PoolsFor(size) == {p \in DOMAIN PoolSizes : size <= PoolSizes[p]}
PageAddress(i) == Base + i * PageSize

(* alloc of what fits a pool: pool_refill cuts a page into chunks, the last  *)
(* becomes the first.                                                        *)
Chunks(i, p) == LET n == PageSize \div PoolSizes[p]
                IN  [c \in 1 .. n |-> PageAddress(i) + (n - c) * PoolSizes[p]]
ChunkAlloc(size) ==
  LET p == Min(PoolsFor(size))
      i == BuddyAllocAt(Lists, 0)
      m == BuddyAlloc(Lists, 0)
      chunks == IF pools[p] # <<>> THEN pools[p] ELSE Chunks(i, p)
  IN  /\ ready /\ size \in 1 .. PageSize - 1 /\ PoolsFor(size) # {}
      /\ pools[p] # <<>> \/ Fitting(Lists, 0) # {}
      /\ pools' = [pools EXCEPT ![p] = Tail(chunks)] /\ Granted(Head(chunks), size)
      /\ IF pools[p] # <<>> THEN UNCHANGED <<frames, area>>
         ELSE Becomes([m EXCEPT !.frames[i] = [order |-> 0, state |-> "chunk", pool |-> p]])
      /\ UNCHANGED <<ready, reserved>>

(* alloc of pages.                                                           *)
OrderOf(size) == LET pages == (size + PageSize - 1) \div PageSize
                 IN  Min({k \in 0 .. NumPages : 2 ^ k >= pages})
PageAlloc(size) ==
  LET k == OrderOf(size)
  IN  /\ ready /\ size # 0 /\ (size < PageSize => PoolsFor(size) = {})
      /\ k <= MaxOrder /\ Fitting(Lists, k) # {}
      /\ Becomes(BuddyAlloc(Lists, k)) /\ Granted(PageAddress(BuddyAllocAt(Lists, k)), size)
      /\ UNCHANGED <<ready, pools, reserved>>

(* free: a chunk, or the head of a block; whatever else is passed to it is   *)
(* ignored.  A chunk that has been freed before is not told from a live one: *)
(* that is left to the callers.                                              *)
IsChunk(a) == LET f == frames[Index(a)]
              IN  f.state = "chunk" /\ (a % PageSize) % PoolSizes[f.pool] = 0
IsBlock(a) == a % PageSize = 0 /\ frames[Index(a)].state = "alloc head"
FreeChunk(a) ==
  /\ ready /\ IsChunk(a) /\ a \in DOMAIN live
  /\ pools' = [pools EXCEPT ![frames[Index(a)].pool] = <<a>> \o @]
  /\ live' = [x \in DOMAIN live \ {a} |-> live[x]]
  /\ UNCHANGED <<ready, frames, area, reserved>>
FreeBlock(a) ==
  /\ ready /\ ~IsChunk(a) /\ IsBlock(a)
  /\ Becomes(BuddyFree(Lists, Index(a), frames[Index(a)].order))
  /\ live' = [x \in DOMAIN live \ {a} |-> live[x]]
  /\ UNCHANGED <<ready, pools, reserved>>

Next == \/ Cardinality(DOMAIN live) < MaxLive /\ \E size \in Sizes : ChunkAlloc(size) \/ PageAlloc(size)
        \/ \E a \in Addresses : FreeChunk(a) \/ FreeBlock(a)
Spec == Init /\ [][Next]_vars

-----------------------------------------------------------------------------
(* The frame array tells what every frame is: the blocks whose heads it      *)
(* marks, free, granted, cut into chunks or reserved, are apart and make up  *)
(* the region; a list holds exactly the free heads of its order, each once;  *)
(* and no two free blocks that could be one are left apart.                  *)
BlockAt(i) == i .. i + 2 ^ frames[i].order - 1
Heads(state) == {i \in Frames : frames[i].state = state}
Blocks == Heads("free head") \cup Heads("alloc head") \cup Heads("chunk")
ArrayExact ==
  /\ \A i, j \in Blocks : i # j => BlockAt(i) \cap BlockAt(j) = {}
  /\ reserved \cup UNION {BlockAt(i) : i \in Blocks} = Frames
  /\ \A i \in Blocks : BlockAt(i) \cap reserved = {}
  /\ \A k \in Orders : IsInjective(area[k])
                       /\ ToSet(area[k]) = {i \in Heads("free head") : frames[i].order = k}
  /\ \A i \in Heads("free head") :
       frames[i].order < MaxOrder => ~CanMerge(Lists, BuddyOf(i, frames[i].order), frames[i].order)

(* What is granted is what the array and the pools do not have: a block's    *)
(* head for pages, with room for what was asked, and each chunk of a page    *)
(* either granted or once in its pool.                                       *)
GrantsExact ==
  LET paged == {a \in DOMAIN live : ~IsChunk(a)}
      cut == UNION {ToSet(Chunks(i, frames[i].pool)) : i \in Heads("chunk")}
  IN  /\ {Index(a) : a \in paged} = Heads("alloc head")
      /\ \A a \in paged : IsBlock(a) /\ live[a] <= PageSize * 2 ^ frames[Index(a)].order
      /\ \A a \in DOMAIN live \ paged : live[a] <= PoolSizes[frames[Index(a)].pool]
      /\ \A p \in DOMAIN pools : IsInjective(pools[p])
                                 /\ \A a \in ToSet(pools[p]) : frames[Index(a)].pool = p
      /\ UNION {ToSet(pools[p]) : p \in DOMAIN pools} = cut \ DOMAIN live

ListsExact == ready => ArrayExact /\ GrantsExact
=============================================================================
