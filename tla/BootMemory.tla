----------------------------- MODULE BootMemory -----------------------------
(***************************************************************************)
(* mm_init, one step per call it makes: the ranges to reserve are          *)
(* recorded, the frame array is placed between them, and what is left of   *)
(* the managed region becomes the free lists.  Addresses are integers      *)
(* below 2^Width; a page has PageSize of them.                             *)
(***************************************************************************)
EXTENDS Startup, Sequences, FiniteSets, SequencesExt

CONSTANTS
  PageSize,    \* PAGE_SIZE
  Width,       \* bits of an unsigned long
  MaxRegions,  \* MAX_RESERVED_REGIONS
  Base,        \* g_mm_base, page aligned
  NumPages,    \* g_num_pages
  ArrayBytes,  \* g_frame_array_bytes, whole pages
  Fixed,       \* the ranges of the blob, the kernel and the initrd: sequences
  Children     \* the ranges of the nodes below /reserved-memory: sequences

End == Base + NumPages * PageSize
BootAssumption ==
  /\ PageSize \in Nat \ {0} /\ Width \in Nat /\ MaxOrder \in Nat /\ MaxRegions \in Nat
  /\ Base \in Nat /\ Base % PageSize = 0 /\ NumPages \in Nat \ {0} /\ End < 2 ^ Width
  /\ ArrayBytes \in Nat \ {0} /\ ArrayBytes % PageSize = 0

VARIABLES
  fixed, children,  \* the ranges of this boot
  todo,     \* those not yet recorded
  regions,  \* g_reserved_regions
  array,    \* where the frame array is, once placed
  free,     \* g_free_area, once built
  phase     \* record, children, place, build, ready or failed
vars == <<fixed, children, todo, regions, array, free, phase>>

NoRoom == -1
Init ==
  /\ fixed \in Fixed /\ children \in Children
  /\ todo = fixed /\ regions = <<>>
  /\ array = NoRoom /\ free = [k \in 0 .. MaxOrder |-> {}]
  /\ phase = "record"

-----------------------------------------------------------------------------
(* align_up adds before it masks: near the top of the address space it wraps *)
AlignDown(v) == v - (v % PageSize)
AlignUp(v) == AlignDown((v + PageSize - 1) % (2 ^ Width))

(* clip_range_to_managed: an end that wraps is the end of memory.            *)
RangeEnd(start, size) == Min({start + size, 2 ^ Width - 1})

(* record_reserved_range: clipped, rounded out to pages, dropped when empty  *)
(* or when the table is full.                                                *)
(* Faulty variant: rounded in.                                               *)
RoundedIn(from, to) == [start |-> AlignUp(from), end |-> AlignDown(to)]
Rounded(from, to) == [start |-> AlignDown(from), end |-> Min({AlignUp(to), End})]
Record(start, size) ==
  LET from == Max({start, Base})
      to == Min({RangeEnd(start, size), End})
      r == Rounded(from, to)
  IN  IF \/ Len(regions) >= MaxRegions \/ size = 0
         \/ from >= to \/ r.start >= r.end
      THEN regions ELSE Append(regions, r)

(* reserve_fdt_blob, reserve_kernel_image and reserve_initrd_from_fdt.       *)
ReserveNext ==
  /\ phase = "record"
  /\ IF todo = <<>>
     THEN phase' = "children" /\ todo' = children /\ UNCHANGED regions
     ELSE /\ regions' = Record(Head(todo).start, Head(todo).size)
          /\ todo' = Tail(todo) /\ UNCHANGED phase
  /\ UNCHANGED <<fixed, children, array, free>>

(* reserve_reserved_memory_children: up to the first range that is empty.    *)
ReserveChild ==
  /\ phase = "children"
  /\ IF todo = <<>> \/ todo[1].size = 0
     THEN phase' = "place" /\ UNCHANGED <<todo, regions>>
     ELSE /\ regions' = Record(Head(todo).start, Head(todo).size)
          /\ todo' = Tail(todo) /\ UNCHANGED phase
  /\ UNCHANGED <<fixed, children, array, free>>

-----------------------------------------------------------------------------
(* startup_find_conflict.                                                    *)
(* Faulty variant: a region that begins where the request ends is hit too.   *)
ConflictsClosed(start, end) ==
  {i \in DOMAIN regions : end >= regions[i].start /\ start < regions[i].end}
Conflicts(start, end) ==
  {i \in DOMAIN regions : end > regions[i].start /\ start < regions[i].end}

(* startup_alloc, from the bump pointer at: behind the farthest region hit.  *)
RECURSIVE StartupAlloc(_)
StartupAlloc(at) ==
  LET start == AlignUp(at)
      end == (start + ArrayBytes) % (2 ^ Width)
      hit == Conflicts(start, end)
  IN  IF end < start \/ end > End THEN NoRoom
      ELSE IF hit = {} THEN start
      ELSE StartupAlloc(Max({regions[i].end : i \in hit}))

(* startup_alloc_frame_array: the array reserves itself.                     *)
(* Faulty variant: it does not.                                              *)
RecordArrayNot(at) == regions
RecordArray(at) == Record(at, ArrayBytes)
PlaceFrameArray ==
  /\ phase = "place"
  /\ array' = StartupAlloc(Base)
  /\ IF array' = NoRoom
       THEN phase' = "failed" /\ UNCHANGED regions
       ELSE phase' = "build" /\ regions' = RecordArray(array')
  /\ UNCHANGED <<fixed, children, todo, free>>

(* apply_reserved_ranges, build_initial_free_lists; g_mm_ready = 1.          *)
Marked == UNION {(r.start - Base) \div PageSize .. (r.end - Base) \div PageSize - 1 :
                 r \in ToSet(regions)}
Build ==
  /\ phase = "build" /\ phase' = "ready"
  /\ free' = BuildInitialFreeLists(NumPages, Marked)
  /\ UNCHANGED <<fixed, children, todo, regions, array>>

Next == ReserveNext \/ ReserveChild \/ PlaceFrameArray \/ Build
Spec == Init /\ [][Next]_vars
-----------------------------------------------------------------------------
(* What this boot is to keep: the bytes of every range, of the reserved      *)
(* children up to one that is empty.                                         *)
Kept == LET last == Min({i \in 1 .. Len(children) + 1 :
                            i = Len(children) + 1 \/ children[i].size = 0})
        IN  ToSet(fixed) \cup {children[i] : i \in 1 .. last - 1}
Bytes(start, size) == start .. RangeEnd(start, size) - 1
KeptBytes == UNION {Bytes(r.start, r.size) : r \in Kept}
FrameBytes(p) == Bytes(Base + p * PageSize, PageSize)
Blocks == {<<i, k>> \in (0 .. NumPages - 1) \X (0 .. MaxOrder) : i \in free[k]}
Frames(b) == b[1] .. b[1] + 2 ^ b[2] - 1

(* lab3.rst: "Reserved or allocated memory should not be allocated again".   *)
(* No byte that is to be kept, and none of the frame array, lies in a block  *)
(* the allocator can hand out, however the ranges overlap, stick out of the  *)
(* region or start in mid-page; and nothing else is withheld: every other    *)
(* frame is in exactly one block.                                            *)
KeptAndNoMore ==
  phase = "ready" =>
    LET held == KeptBytes \cup Bytes(array, ArrayBytes) IN
    \A p \in 0 .. NumPages - 1 :
      Cardinality({b \in Blocks : p \in Frames(b)})
        = IF FrameBytes(p) \cap held = {} THEN 1 ELSE 0

(* The frame array is put, in whole pages, where nothing is to be kept, at   *)
(* the lowest such place, and boot fails only when there is none.            *)
Rooms == {Base + p * PageSize : p \in {q \in 0 .. NumPages - 1 :
            /\ Base + q * PageSize + ArrayBytes <= End
            /\ \A n \in q .. q + ArrayBytes \div PageSize - 1 :
                 FrameBytes(n) \cap KeptBytes = {}}}
FirstFit ==
  /\ phase = "failed" => Rooms = {}
  /\ phase \in {"build", "ready"} => Rooms # {} /\ array = Min(Rooms)
(* mm_init leaves every byte that must be kept reserved, all others free,    *)
(* and the frame array in the first place that had room for it.              *)
BootedWell == KeptAndNoMore /\ FirstFit
=============================================================================
