------------------------------ MODULE MmapArea ------------------------------
(***************************************************************************)
(* Where mmap puts a region: user_mmap_anonymous, user_mmap_find_base and  *)
(* the conflict search, on byte addresses that wrap at Word.  UserVm models *)
(* what happens to the pages of the regions.                               *)
(***************************************************************************)
EXTENDS Integers, FiniteSets, FiniteSetsExt

CONSTANTS
  PageSize,
  Word,       \* how many values an unsigned long has
  MmapBase,   \* USER_MMAP_BASE
  SigBase,    \* USER_SIGNAL_STACK_BASE
  StackBase,  \* USER_STACK_BASE, also the end of the signal stack
  StackTop,   \* USER_STACK_TOP
  ImageEnds,  \* the sizes of program images, in whole pages
  Hints, Lengths

Address == 0 .. Word - 1

ASSUME MmapAreaAssumption ==
  /\ PageSize \in Nat \ {0} /\ Word \in Nat
  /\ {MmapBase, SigBase, StackBase, StackTop} \cup ImageEnds \subseteq Address
  /\ MmapBase < SigBase /\ SigBase < StackBase /\ StackBase < StackTop
  /\ \A a \in {MmapBase, SigBase, Word} \cup ImageEnds : a % PageSize = 0
  /\ \A a \in ImageEnds : a <= MmapBase
  /\ Hints \subseteq Address /\ Lengths \subseteq Address

Wrap(x) == x % Word
AlignUp(v) == Wrap(v + PageSize - 1) - (Wrap(v + PageSize - 1) % PageSize)

VARIABLES
  image,    \* user_image_alloc_size
  handler,  \* is there a signal stack
  regions,  \* mmap_regions
  last      \* the last request, and the address returned
areaVars == <<image, handler, regions, last>>

NoRequest == [hint |-> 0, length |-> 0, base |-> 0]

AreaInit ==
  /\ image \in ImageEnds
  /\ handler = FALSE /\ regions = {} /\ last = NoRequest

-----------------------------------------------------------------------------
(* ranges_overlap                                                            *)
Overlap(a, b) == a.start < b.end /\ b.start < a.end
Area(start, end) == [start |-> start, end |-> end]

(* What user_range_conflict_end compares a range with.                       *)
(* Faulty variant: the image is forgotten.                                   *)
TakenButImage ==
  {Area(StackBase, StackTop)} \cup regions
    \cup (IF handler THEN {Area(SigBase, StackBase)} ELSE {})
Taken ==
  {Area(0, image), Area(StackBase, StackTop)} \cup regions
    \cup (IF handler THEN {Area(SigBase, StackBase)} ELSE {})

EndOf(start, length) == Wrap(start + length)
Conflicts(start, end) == {r \in Taken : Overlap(Area(start, end), r)}

(* user_range_available: inside user space, without wrapping.                *)
(* Faulty variant: the last page of user space is never available.           *)
AvailableBelow(start, length) ==
  LET end == EndOf(start, length)
  IN  /\ length # 0 /\ start <= end /\ end < SigBase
      /\ Conflicts(start, end) = {}
Available(start, length) ==
  LET end == EndOf(start, length)
  IN  /\ length # 0 /\ start <= end /\ end <= SigBase
      /\ Conflicts(start, end) = {}

(* The search of user_mmap_find_base goes on behind whatever is in the way.  *)
Behind(hit) == Max({r.end : r \in hit})
InSpace(candidate, length) ==
  /\ candidate < SigBase /\ candidate <= EndOf(candidate, length)
  /\ EndOf(candidate, length) <= SigBase
Blocking(candidate, length) == Conflicts(candidate, EndOf(candidate, length))
After(candidate, length) == AlignUp(Behind(Blocking(candidate, length)))
GoesOn(candidate, length) ==
  /\ InSpace(candidate, length) /\ Blocking(candidate, length) # {}
  /\ After(candidate, length) \in MmapBase .. SigBase - 1

(* The values its variable takes in the loop: the smallest set that has the  *)
(* first of them and with each the one it goes on with.                      *)
Stops == {MmapBase} \cup {AlignUp(r.end) : r \in Taken}
Candidates(length) ==
  LET stops == Stops \cap (MmapBase .. SigBase - 1)
      moves == {<<c, After(c, length)>> : c \in {d \in stops : GoesOn(d, length)}}
      Closed(S) == MmapBase \in S /\ \A m \in moves : m[1] \in S => m[2] \in S
  IN  {c \in stops : \A S \in SUBSET stops : Closed(S) => c \in S}

(* It ends at the first that nothing blocks, so there is no other.           *)
Found(length) ==
  {c \in Candidates(length) : InSpace(c, length) /\ Blocking(c, length) = {}}
Search(length) ==
  IF Found(length) = {} THEN 0 ELSE CHOOSE c \in Found(length) : TRUE

(* Faulty variant: a hint is taken wherever it points.                       *)
FindBaseAnywhere(hint, length) ==
  IF hint # 0 /\ Available(hint, length) THEN hint ELSE Search(length)
FindBase(hint, length) ==
  IF hint # 0 /\ hint % PageSize = 0 /\ Available(hint, length)
  THEN hint ELSE Search(length)

(* user_mmap_anonymous: lengths that cannot be rounded up are refused.       *)
Length(length) == IF length > Word - PageSize THEN 0 ELSE AlignUp(length)

MmapAnonymous(hint, length) ==
  LET size == Length(length)
      base == IF size = 0 THEN 0 ELSE FindBase(hint, size)
  IN  /\ last' = [hint |-> hint, length |-> length, base |-> base]
      /\ regions' = IF base = 0 THEN regions
                    ELSE regions \cup {Area(base, base + size)}
      /\ UNCHANGED <<image, handler>>

(* signal_deliver and sigreturn.                                             *)
Handle == handler' = ~handler /\ last' = NoRequest /\ UNCHANGED <<image, regions>>

(* exec                                                                      *)
ReplaceImage(size) ==
  /\ image' = size /\ regions' = {} /\ handler' = FALSE /\ last' = NoRequest

AreaNext ==
  \/ \E hint \in Hints, length \in Lengths : MmapAnonymous(hint, length)
  \/ Handle
  \/ \E size \in ImageEnds : ReplaceImage(size)

AreaSpec == AreaInit /\ [][AreaNext]_areaVars
-----------------------------------------------------------------------------
(* Regions stay apart from each other, from the image and from the stacks,   *)
(* the signal stack too though it may be mapped later.                       *)
RegionsApart ==
  /\ \A r, s \in regions : r # s => ~Overlap(r, s)
  /\ \A r \in regions :
       /\ image <= r.start /\ r.start < r.end /\ r.end <= SigBase
       /\ r.start % PageSize = 0 /\ r.end % PageSize = 0

(* A request of that many bytes fits at a.                                   *)
Fits(a, length) ==
  /\ a % PageSize = 0 /\ a + length <= SigBase
  /\ \A r \in regions \cup {Area(0, image)} : r.end <= a \/ a + length <= r.start

(* lab6.rst on mmap: the hint is the exact base if it is aligned and the     *)
(* region fits there; otherwise the kernel chooses, and it finds the lowest  *)
(* place above USER_MMAP_BASE; it refuses only when there is none.           *)
PlacedWell ==
  [][LET want == last'
         rooms == {a \in MmapBase .. SigBase : Fits(a, want.length)}
     IN  want.length # 0 =>
           want.base = IF want.hint # 0 /\ Fits(want.hint, want.length)
                       THEN want.hint
                       ELSE IF rooms = {} THEN 0 ELSE Min(rooms)]_areaVars
=============================================================================
