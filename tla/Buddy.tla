------------------------------- MODULE Buddy -------------------------------
(***************************************************************************)
(* The page frame allocator of mm.c: buddy_alloc_order, buddy_free_idx,    *)
(* the page branch of free(), and the reference counts that copy-on-write  *)
(* shares frames with.                                                     *)
(*                                                                         *)
(* One iteration of the splitting and of the merging loop is one step, so  *)
(* a caller that runs with interrupts on can be preempted between two of   *)
(* them.  The free lists are sets: which block of a list is taken does not *)
(* matter to any property.  Frame 0 is the first of the managed region.    *)
(***************************************************************************)
EXTENDS Integers, FiniteSets

CONSTANTS
  NumPages,     \* g_num_pages
  MaxOrder,     \* MAX_ORDER (10 in the code)
  Size,         \* the frames of a block of each order: 1 << order
  Reserved,     \* the frames mark_reserved_range marked
  InitialFree,  \* what build_initial_free_lists put on each list
  Callers,      \* threads that call alloc and free
  Preemptible,  \* those of them that do so with interrupts on
  MaxRefs       \* bound: sharers of one frame

Pages == 0 .. NumPages - 1
Orders == 0 .. MaxOrder
Frames(i, k) == i .. i + Size[k] - 1

ASSUME BuddyAssumption ==
  /\ NumPages \in Nat /\ MaxOrder \in Nat /\ MaxRefs \in Nat \ {0}
  /\ Size \in [Orders -> Nat \ {0}] /\ Size[0] = 1
  /\ \A k \in Orders : k < MaxOrder => Size[k + 1] = 2 * Size[k]
  /\ Preemptible \subseteq Callers
  /\ Reserved \subseteq Pages

(* build_initial_free_lists covers the unreserved frames with disjoint       *)
(* blocks (MCBuddy!StartsMaximal).                                           *)
ASSUME InitialAssumption ==
  /\ InitialFree \in [Orders -> SUBSET Pages]
  /\ \A k \in Orders : \A i \in InitialFree[k] :
       /\ Frames(i, k) \subseteq Pages
       /\ Frames(i, k) \cap Reserved = {}
       /\ \A l \in Orders : \A j \in InitialFree[l] :
            <<i, k>> # <<j, l>> => Frames(i, k) \cap Frames(j, l) = {}
  /\ \A p \in Pages \ Reserved :
       \E k \in Orders : \E i \in InitialFree[k] : p \in Frames(i, k)

States == {"FREE_HEAD", "FREE_TAIL", "ALLOC_HEAD", "ALLOC_TAIL",
           "CHUNK_PAGE", "RESERVED"}

VARIABLES
  free,   \* g_free_area: the heads on the list of each order
  state,  \* g_frames[i].state
  order,  \* g_frames[i].order
  refs,   \* g_frames[i].ref_count
  pc,     \* where each caller is: out, take, split or merge
  idx,    \* its local idx
  ord,    \* its local order (cur in buddy_alloc_order)
  req     \* its argument req_order

frameVars == <<state, order, refs>>
localVars == <<pc, idx, ord, req>>
vars == <<free, frameVars, localVars>>

-----------------------------------------------------------------------------
(* mm_init: every frame is a tail, then the reserved ones, then the lists.   *)
InitialOrder(p) == {k \in Orders : p \in InitialFree[k]}

Init ==
  /\ free = InitialFree
  /\ state = [p \in Pages |->
                IF p \in Reserved THEN "RESERVED"
                ELSE IF InitialOrder(p) # {} THEN "FREE_HEAD"
                ELSE "FREE_TAIL"]
  /\ order = [p \in Pages |-> IF InitialOrder(p) = {} THEN -1
                              ELSE CHOOSE k \in InitialOrder(p) : TRUE]
  /\ refs = [p \in Pages |-> 0]
  /\ pc = [c \in Callers |-> "out"]
  /\ idx = [c \in Callers |-> 0]
  /\ ord = [c \in Callers |-> 0]
  /\ req = [c \in Callers |-> 0]

(* Faulty variant: mark_tail is not called.                                  *)
SetHeadOnly(i, k, head, tail, n) ==
  /\ state' = [state EXCEPT ![i] = head]
  /\ order' = [order EXCEPT ![i] = k]
  /\ refs' = [refs EXCEPT ![i] = n]

(* block_set_free_head, block_set_alloc_head with their mark_tail.           *)
SetBlock(i, k, head, tail, n) ==
  /\ state' = [p \in Pages |-> IF p = i THEN head
                               ELSE IF p \in Frames(i, k) THEN tail
                               ELSE state[p]]
  /\ order' = [p \in Pages |-> IF p = i THEN k
                               ELSE IF p \in Frames(i, k) THEN -1
                               ELSE order[p]]
  /\ refs' = [p \in Pages |-> IF p = i THEN n
                              ELSE IF p \in Frames(i, k) THEN 0
                              ELSE refs[p]]

SetFreeHead(i, k) == SetBlock(i, k, "FREE_HEAD", "FREE_TAIL", 0)

(* A caller with interrupts off is not interrupted inside the allocator.     *)
Runs(c) == \A d \in Callers \ {c} : pc[d] # "out" => d \in Preemptible

(* The locals of a call go out of scope.                                     *)
Forget(c) ==
  /\ idx' = [idx EXCEPT ![c] = 0]
  /\ ord' = [ord EXCEPT ![c] = 0]
  /\ req' = [req EXCEPT ![c] = 0]

-----------------------------------------------------------------------------
(* buddy_alloc_order                                                         *)

(* The smallest list with a block of at least req_order; the search of the   *)
(* lists and the read of g_free_area[cur].next are one step.                 *)
FirstList(r, k) ==
  /\ k >= r /\ free[k] # {}
  /\ \A l \in Orders : r <= l /\ l < k => free[l] = {}

AllocStart(c, r, k, i) ==
  /\ pc[c] = "out" /\ Runs(c)
  /\ FirstList(r, k) /\ i \in free[k]
  /\ pc' = [pc EXCEPT ![c] = "take"]
  /\ idx' = [idx EXCEPT ![c] = i]
  /\ ord' = [ord EXCEPT ![c] = k]
  /\ req' = [req EXCEPT ![c] = r]
  /\ UNCHANGED <<free, frameVars>>

(* remove_free_block: list_del of a node that is on no list changes nothing. *)
Take(c) ==
  /\ pc[c] = "take" /\ Runs(c)
  /\ free' = [free EXCEPT ![ord[c]] = @ \ {idx[c]}]
  /\ pc' = [pc EXCEPT ![c] = "split"]
  /\ UNCHANGED <<frameVars, idx, ord, req>>

(* Faulty variant: the redundant half is not put back.                       *)
SplitLose(c) ==
  LET k == ord[c] - 1
  IN  /\ pc[c] = "split" /\ ord[c] > req[c] /\ Runs(c)
      /\ ord' = [ord EXCEPT ![c] = k]
      /\ SetFreeHead(idx[c], k)
      /\ UNCHANGED <<free, pc, idx, req>>

(* One split: the upper half goes to the list of the next lower order.       *)
Split(c) ==
  LET k == ord[c] - 1
      upper == idx[c] + Size[k]
  IN  /\ pc[c] = "split" /\ ord[c] > req[c] /\ Runs(c)
      /\ ord' = [ord EXCEPT ![c] = k]
      /\ free' = [free EXCEPT ![k] = @ \cup {upper}]
      /\ state' = [p \in Pages |->
                     IF p \in {idx[c], upper} THEN "FREE_HEAD"
                     ELSE IF p \in Frames(idx[c], ord[c]) THEN "FREE_TAIL"
                     ELSE state[p]]
      /\ order' = [p \in Pages |->
                     IF p \in {idx[c], upper} THEN k
                     ELSE IF p \in Frames(idx[c], ord[c]) THEN -1
                     ELSE order[p]]
      /\ refs' = [p \in Pages |-> IF p \in Frames(idx[c], ord[c]) THEN 0
                                  ELSE refs[p]]
      /\ UNCHANGED <<pc, idx, req>>

(* The block is the caller's, as a block of pages ...                        *)
AllocReturn(c) ==
  /\ pc[c] = "split" /\ ord[c] = req[c] /\ Runs(c)
  /\ SetBlock(idx[c], req[c], "ALLOC_HEAD", "ALLOC_TAIL", 1)
  /\ pc' = [pc EXCEPT ![c] = "out"]
  /\ Forget(c)
  /\ UNCHANGED free

(* ... or as a page of chunks (pool_refill, mark_chunk_page).                *)
RefillReturn(c) ==
  /\ pc[c] = "split" /\ ord[c] = 0 /\ req[c] = 0 /\ Runs(c)
  /\ SetBlock(idx[c], 0, "CHUNK_PAGE", "ALLOC_TAIL", 1)
  /\ pc' = [pc EXCEPT ![c] = "out"]
  /\ Forget(c)
  /\ UNCHANGED free

-----------------------------------------------------------------------------
(* free(), for any page: a pointer that heads no allocated block is ignored. *)
FreeShared(c, p) ==
  /\ pc[c] = "out" /\ Runs(c)
  /\ state[p] = "ALLOC_HEAD" /\ refs[p] > 1
  /\ refs' = [refs EXCEPT ![p] = @ - 1]
  /\ UNCHANGED <<free, state, order, localVars>>

(* Faulty variant: the other sharers are forgotten.                          *)
FreeStartAny(c, p) ==
  /\ pc[c] = "out" /\ Runs(c)
  /\ state[p] = "ALLOC_HEAD"
  /\ refs' = [refs EXCEPT ![p] = 0]
  /\ pc' = [pc EXCEPT ![c] = "merge"]
  /\ idx' = [idx EXCEPT ![c] = p]
  /\ ord' = [ord EXCEPT ![c] = order[p]]
  /\ UNCHANGED <<free, state, order, req>>

FreeStart(c, p) ==
  /\ pc[c] = "out" /\ Runs(c)
  /\ state[p] = "ALLOC_HEAD" /\ refs[p] <= 1
  /\ refs' = [refs EXCEPT ![p] = 0]
  /\ pc' = [pc EXCEPT ![c] = "merge"]
  /\ idx' = [idx EXCEPT ![c] = p]
  /\ ord' = [ord EXCEPT ![c] = order[p]]
  /\ UNCHANGED <<free, state, order, req>>

(* idx ^ (1UL << order)                                                      *)
BuddyOf(i, k) ==
  IF (i \div Size[k]) % 2 = 0 THEN i + Size[k] ELSE i - Size[k]

(* Faulty variants: the order of the buddy is not compared; merging stops    *)
(* one order early.                                                          *)
CanMergeAnyOrder(b, k) == k < MaxOrder /\ b \in Pages /\ state[b] = "FREE_HEAD"
CanMergeBelow(b, k) ==
  k < MaxOrder - 1 /\ b \in Pages /\ state[b] = "FREE_HEAD" /\ order[b] = k
CanMerge(b, k) ==
  k < MaxOrder /\ b \in Pages /\ state[b] = "FREE_HEAD" /\ order[b] = k

(* One turn of the loop of buddy_free_idx.                                   *)
Merge(c) ==
  LET buddy == BuddyOf(idx[c], ord[c])
      low == IF buddy < idx[c] THEN buddy ELSE idx[c]
  IN  /\ pc[c] = "merge" /\ CanMerge(buddy, ord[c]) /\ Runs(c)
      /\ free' = [free EXCEPT ![ord[c]] = @ \ {buddy}]
      /\ idx' = [idx EXCEPT ![c] = low]
      /\ ord' = [ord EXCEPT ![c] = @ + 1]
      /\ SetFreeHead(low, ord[c] + 1)
      /\ UNCHANGED <<pc, req>>

AddFree(c) ==
  /\ pc[c] = "merge" /\ ~CanMerge(BuddyOf(idx[c], ord[c]), ord[c]) /\ Runs(c)
  /\ SetFreeHead(idx[c], ord[c])
  /\ free' = [free EXCEPT ![ord[c]] = @ \cup {idx[c]}]
  /\ pc' = [pc EXCEPT ![c] = "out"]
  /\ Forget(c)

-----------------------------------------------------------------------------
(* mm_page_get: only single, allocated frames gain a reference.              *)
PageGet(c, p) ==
  /\ pc[c] = "out" /\ Runs(c)
  /\ state[p] = "ALLOC_HEAD" /\ order[p] = 0 /\ refs[p] < MaxRefs
  /\ refs' = [refs EXCEPT ![p] = @ + 1]
  /\ UNCHANGED <<free, state, order, localVars>>

Next ==
  \E c \in Callers :
    \/ \E r, k \in Orders : \E i \in Pages : AllocStart(c, r, k, i)
    \/ Take(c) \/ Split(c) \/ AllocReturn(c) \/ RefillReturn(c)
    \/ \E p \in Pages : FreeShared(c, p) \/ FreeStart(c, p) \/ PageGet(c, p)
    \/ Merge(c) \/ AddFree(c)

Spec == Init /\ [][Next]_vars
-----------------------------------------------------------------------------
(* The type invariant.                                                       *)
TypeOK ==
  /\ free \in [Orders -> SUBSET Pages]
  /\ state \in [Pages -> States]
  /\ order \in [Pages -> Orders \cup {-1}]
  /\ refs \in [Pages -> Nat]
  /\ pc \in [Callers -> {"out", "take", "split", "merge"}]
  /\ idx \in [Callers -> Pages \cup {0}]
  /\ ord \in [Callers -> Orders] /\ req \in [Callers -> Orders]

InHand(c) == pc[c] \in {"split", "merge"}
Allocated(p) == state[p] \in {"ALLOC_HEAD", "CHUNK_PAGE"}
Quiet == \A c \in Callers : pc[c] = "out"

(* The blocks there are: free ones, allocated ones, and the one being cut    *)
(* up or merged.                                                             *)
Block(i, k) ==
  \/ i \in free[k]
  \/ Allocated(i) /\ order[i] = k
  \/ \E c \in Callers : InHand(c) /\ idx[c] = i /\ ord[c] = k

Apart(i, k, j, l) == i + Size[k] <= j \/ j + Size[l] <= i

(* Splitting, merging and the tests on neighbouring frames keep all blocks   *)
(* apart, inside the region, and off the reserved frames.                    *)
NoOverlap ==
  \A i \in Pages, k \in Orders : Block(i, k) =>
    /\ i + Size[k] <= NumPages
    /\ \A p \in Reserved : p < i \/ i + Size[k] <= p
    /\ \A j \in Pages, l \in Orders :
         Block(j, l) /\ <<i, k>> # <<j, l>> => Apart(i, k, j, l)

(* No frame is lost: each is reserved or belongs to a block.                 *)
NothingLost ==
  \A p \in Pages \ Reserved :
    \E i \in Pages, k \in Orders : Block(i, k) /\ i <= p /\ p < i + Size[k]

(* can_merge trusts the frame array: a frame marked as the head of a free    *)
(* block is on the list of that order, unless it is in somebody's hands.     *)
MarkedIsListed ==
  \A p \in Pages : state[p] = "FREE_HEAD" =>
    \/ p \in free[order[p]]
    \/ \E c \in Callers : InHand(c) /\ idx[c] = p

(* The allocator implements FrameAlloc: a block being merged is no longer    *)
(* held, one being cut up is not yet held.                                   *)
Holds(p) == Allocated(p) /\ refs[p] > 0
Promise == INSTANCE FrameAlloc WITH
  held <- {<<p, order[p]>> : p \in {q \in Pages : Holds(q)}},
  shares <- [p \in Pages |-> IF Holds(p) THEN refs[p] ELSE 0]
KeepsPromise == Promise!Spec
-----------------------------------------------------------------------------
(* lab3.rst: "Reserved or allocated memory should not be allocated again":   *)
(* two callers never have the same frame in hand.                            *)
NotAllocatedTwice ==
  \A c, d \in Callers :
    c # d /\ pc[c] = "split" /\ pc[d] = "split" =>
      Apart(idx[c], ord[c], idx[d], ord[d])
=============================================================================
