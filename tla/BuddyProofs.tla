---------------------------- MODULE BuddyProofs ----------------------------
(***************************************************************************)
(* Proofs about the allocators of mm.c.  The second part is Heap's.        *)
(*                                                                         *)
(* Proofs about Buddy for every number of frames, orders, callers and      *)
(* every set of reserved frames: blocks never overlap, no frame is lost,   *)
(* and the allocator implements FrameAlloc.  The assumption is that nobody *)
(* is preempted inside the allocator (Preemptible = {}); BuddyRace.cfg     *)
(* shows what happens otherwise.                                           *)
(*                                                                         *)
(* The argument: a frame is the head of a block iff its state says so, and *)
(* its order is then the block's.  So the geometry of the blocks is a fact *)
(* of the frame array alone (Geometry, Cover), and the free lists and the  *)
(* locals of a caller only have to agree with the array (Listed, Marked,   *)
(* Hands).                                                                 *)
(***************************************************************************)
EXTENDS Buddy, Heap, FiniteSetTheorems, SequenceTheorems, WellFoundedInduction, TLAPS

HeadStates == {"FREE_HEAD", "ALLOC_HEAD", "CHUNK_PAGE"}
IsHead(p) == state[p] \in HeadStates

Solo == \A c, d \in Callers : c # d /\ pc[c] # "out" => pc[d] = "out"

Listed ==
  \A k \in Orders : \A i \in free[k] : state[i] = "FREE_HEAD" /\ order[i] = k

Marked ==
  \A p \in Pages : state[p] = "FREE_HEAD" =>
    \/ p \in free[order[p]]
    \/ \E c \in Callers : InHand(c) /\ idx[c] = p

Hands ==
  \A c \in Callers :
    /\ pc[c] = "take" => idx[c] \in free[ord[c]] /\ req[c] <= ord[c]
    /\ InHand(c) => /\ idx[c] \in Pages /\ order[idx[c]] = ord[c]
                    /\ \A k \in Orders : idx[c] \notin free[k]
    /\ pc[c] = "split" => state[idx[c]] = "FREE_HEAD" /\ req[c] <= ord[c]
    /\ pc[c] = "merge" => /\ state[idx[c]] \in {"FREE_HEAD", "ALLOC_HEAD"}
                          /\ refs[idx[c]] = 0

Geometry ==
  \A i \in Pages : IsHead(i) =>
    /\ order[i] \in Orders
    /\ i + Size[order[i]] <= NumPages
    /\ \A p \in Reserved : p < i \/ i + Size[order[i]] <= p
    /\ \A j \in Pages : IsHead(j) /\ i # j => Apart(i, order[i], j, order[j])

Cover ==
  \A p \in Pages \ Reserved :
    \E i \in Pages : IsHead(i) /\ i <= p /\ p < i + Size[order[i]]

(* Whoever has a block has a reference; it is gone once merging began.       *)
Counted ==
  \A p \in Pages : Allocated(p) /\ refs[p] = 0 =>
    \E c \in Callers : pc[c] = "merge" /\ idx[c] = p

BuddyInv == /\ TypeOK /\ Solo /\ Listed /\ Marked /\ Hands
            /\ Geometry /\ Cover /\ Counted

-----------------------------------------------------------------------------
LEMMA SizeFacts ==
  /\ \A k \in Orders : Size[k] \in Nat /\ Size[k] >= 1 /\ k \in Int
  /\ \A k \in Orders : k # 0 => /\ k - 1 \in Orders
                               /\ Size[k] = 2 * Size[k - 1]
  /\ \A k \in Orders : k < MaxOrder => /\ k + 1 \in Orders
                                       /\ Size[k + 1] = 2 * Size[k]
<1>1. \A k \in Orders : Size[k] \in Nat /\ Size[k] >= 1 /\ k \in Int
  BY BuddyAssumption DEF Orders
<1>2. \A k \in Orders : k < MaxOrder => /\ k + 1 \in Orders
                                        /\ Size[k + 1] = 2 * Size[k]
  BY BuddyAssumption DEF Orders
<1>3. ASSUME NEW k \in Orders, k # 0
      PROVE  k - 1 \in Orders /\ Size[k] = 2 * Size[k - 1]
  <2>1. k - 1 \in Orders /\ k - 1 < MaxOrder /\ (k - 1) + 1 = k
    BY <1>3, BuddyAssumption DEF Orders
  <2> QED  BY <2>1, BuddyAssumption
<1> QED  BY <1>1, <1>2, <1>3

(* No frame inside a block is the head of another one.                      *)
LEMMA TailsAreNoHeads ==
  ASSUME BuddyInv, NEW i \in Pages, IsHead(i), NEW p \in Pages,
         p \in Frames(i, order[i]), p # i
  PROVE  ~IsHead(p)
<1>1. SUFFICES ASSUME IsHead(p) PROVE FALSE
  OBVIOUS
<1>2. /\ order[p] \in Orders /\ order[i] \in Orders
      /\ Apart(i, order[i], p, order[p])
  BY <1>1 DEF BuddyInv, Geometry
<1>3. i <= p /\ p < i + Size[order[i]] /\ p \in Int /\ i \in Int
  BY <1>2, SizeFacts DEF Frames, Pages
<1> QED  BY <1>2, <1>3, SizeFacts DEF Apart

(* SetBlock on a whole block moves no head.                                  *)
LEMMA Relabel ==
  ASSUME BuddyInv, NEW i \in Pages, IsHead(i), NEW head \in HeadStates,
         NEW tail \in {"FREE_TAIL", "ALLOC_TAIL"}, NEW n \in Nat,
         SetBlock(i, order[i], head, tail, n)
  PROVE  /\ state' \in [Pages -> States]
         /\ order' \in [Pages -> Orders \cup {-1}]
         /\ refs' \in [Pages -> Nat]
         /\ \A p \in Pages : IsHead(p)' <=> IsHead(p)
         /\ \A p \in Pages : IsHead(p) => order'[p] = order[p]
         /\ \A p \in Pages : IsHead(p) /\ p # i =>
              state'[p] = state[p] /\ refs'[p] = refs[p]
         /\ state'[i] = head /\ refs'[i] = n
<1>1. order[i] \in Orders
  BY DEF BuddyInv, Geometry
<1>2. \A p \in Pages : p \in Frames(i, order[i]) /\ p # i => ~IsHead(p)
  BY TailsAreNoHeads
<1>3. \A p \in Pages :
        /\ state'[p] = IF p = i THEN head
                       ELSE IF p \in Frames(i, order[i]) THEN tail ELSE state[p]
        /\ order'[p] = IF p = i THEN order[i]
                       ELSE IF p \in Frames(i, order[i]) THEN -1 ELSE order[p]
        /\ refs'[p] = IF p = i THEN n
                      ELSE IF p \in Frames(i, order[i]) THEN 0 ELSE refs[p]
  BY DEF SetBlock
<1>4. /\ state' \in [Pages -> States]
      /\ order' \in [Pages -> Orders \cup {-1}]
      /\ refs' \in [Pages -> Nat]
  BY <1>1 DEF SetBlock, BuddyInv, TypeOK, HeadStates, States
<1>5. \A p \in Pages : IsHead(p)' <=> IsHead(p)
  BY <1>2, <1>3 DEF IsHead, HeadStates
<1> QED  BY <1>2, <1>3, <1>4, <1>5

(* Geometry and Cover speak of the heads and their orders only.              *)
LEMMA SameHeads ==
  ASSUME BuddyInv, \A p \in Pages : IsHead(p)' <=> IsHead(p),
         \A p \in Pages : IsHead(p) => order'[p] = order[p]
  PROVE  Geometry' /\ Cover'
<1>1. Geometry'
  BY DEF BuddyInv, Geometry, Apart
<1>2. Cover'
  BY DEF BuddyInv, Cover
<1> QED  BY <1>1, <1>2

-----------------------------------------------------------------------------
LEMMA AllocStartStep ==
  ASSUME NEW c \in Callers, NEW r \in Orders, NEW k \in Orders, NEW i \in Pages, Preemptible = {}, BuddyInv, AllocStart(c, r, k, i)
  PROVE  BuddyInv'
<1> USE SizeFacts, BuddyAssumption DEF BuddyInv
<1>0. \A d \in Callers \ {c} : pc[d] = "out"
  BY DEF AllocStart, Runs
<1>1. TypeOK'
  BY <1>0 DEF AllocStart, TypeOK, States, frameVars, localVars
<1>2. Solo'
  BY <1>0 DEF AllocStart, Solo, TypeOK, frameVars, localVars
<1>3. Listed'
  BY <1>0 DEF AllocStart, Listed, TypeOK, frameVars, localVars
<1>4. Marked'
  BY <1>0 DEF AllocStart, Marked, TypeOK, InHand, frameVars, localVars
<1>5. Hands'
  BY <1>0 DEF AllocStart, Hands, TypeOK, InHand, FirstList, frameVars, localVars
<1>6. Geometry'
  BY <1>0 DEF AllocStart, Geometry, TypeOK, IsHead, HeadStates, frameVars, localVars
<1>7. Cover'
  BY <1>0 DEF AllocStart, Cover, TypeOK, IsHead, HeadStates, frameVars, localVars
<1>8. Counted'
  BY <1>0 DEF AllocStart, Counted, TypeOK, Allocated, frameVars, localVars
<1> QED  BY <1>1, <1>2, <1>3, <1>4, <1>5, <1>6, <1>7, <1>8

LEMMA TakeStep ==
  ASSUME NEW c \in Callers, Preemptible = {}, BuddyInv, Take(c)
  PROVE  BuddyInv'
<1> USE SizeFacts, BuddyAssumption DEF BuddyInv
<1>0. \A d \in Callers \ {c} : pc[d] = "out"
  BY DEF Take, Runs
<1>1. TypeOK'
  BY <1>0 DEF Take, TypeOK, States, frameVars, localVars
<1>2. Solo'
  BY <1>0 DEF Take, Solo, TypeOK, frameVars, localVars
<1>3. Listed'
  BY <1>0 DEF Take, Listed, TypeOK, frameVars, localVars
<1>4. Marked'
  BY <1>0 DEF Take, Marked, TypeOK, InHand, frameVars, localVars
<1>5. Hands'
  <2>1. idx[c] \in free[ord[c]] /\ req[c] <= ord[c] /\ ord[c] \in Orders
    BY DEF Take, Hands, TypeOK
  <2>2. /\ state[idx[c]] = "FREE_HEAD" /\ order[idx[c]] = ord[c]
        /\ idx[c] \in Pages
    BY <2>1 DEF Listed, TypeOK
  <2>3. \A k \in Orders : idx[c] \notin free'[k]
    BY <2>1, <2>2 DEF Take, Listed, TypeOK
  <2> QED  BY <1>0, <2>1, <2>2, <2>3 DEF Take, Hands, TypeOK, InHand, frameVars
<1>6. Geometry'
  BY <1>0 DEF Take, Geometry, TypeOK, IsHead, HeadStates, frameVars, localVars
<1>7. Cover'
  BY <1>0 DEF Take, Cover, TypeOK, IsHead, HeadStates, frameVars, localVars
<1>8. Counted'
  BY <1>0 DEF Take, Counted, TypeOK, Allocated, frameVars, localVars
<1> QED  BY <1>1, <1>2, <1>3, <1>4, <1>5, <1>6, <1>7, <1>8

LEMMA SplitStep ==
  ASSUME NEW c \in Callers, Preemptible = {}, BuddyInv, Split(c)
  PROVE  BuddyInv'
<1> USE SizeFacts, BuddyAssumption DEF BuddyInv
<1>0. \A d \in Callers \ {c} : pc[d] = "out"
  BY DEF Split, Runs
<1> DEFINE i == idx[c]
           k == ord[c] - 1
           upper == i + Size[k]
<1>a. /\ i \in Pages /\ IsHead(i) /\ order[i] = ord[c]
      /\ ord[c] \in Orders /\ state[i] = "FREE_HEAD"
      /\ \A l \in Orders : i \notin free[l]
  BY DEF Split, Hands, TypeOK, InHand, IsHead, HeadStates
<1>b. k \in Orders /\ Size[ord[c]] = 2 * Size[k] /\ req[c] <= k
  <2>1. ord[c] > req[c] /\ req[c] \in Nat /\ ord[c] \in Nat
    BY <1>a DEF Split, TypeOK, Orders
  <2> QED  BY <2>1, <1>a, SizeFacts
<1>c. i + Size[ord[c]] <= NumPages
  BY <1>a DEF Geometry
<1>d. /\ upper \in Pages /\ upper \in Frames(i, ord[c]) /\ upper # i
      /\ i \in Frames(i, ord[c])
  BY <1>a, <1>b, <1>c, SizeFacts DEF Frames, Pages
<1>e. \A p \in Pages : p \in Frames(i, ord[c]) /\ p # i => ~IsHead(p)
  BY <1>a, TailsAreNoHeads
<1>f. \A p \in Pages :
        /\ state'[p] = IF p \in {i, upper} THEN "FREE_HEAD"
                       ELSE IF p \in Frames(i, ord[c]) THEN "FREE_TAIL"
                       ELSE state[p]
        /\ order'[p] = IF p \in {i, upper} THEN k
                       ELSE IF p \in Frames(i, ord[c]) THEN -1 ELSE order[p]
        /\ refs'[p] = IF p \in Frames(i, ord[c]) THEN 0 ELSE refs[p]
  BY DEF Split
<1>g. /\ free' = [free EXCEPT ![k] = @ \cup {upper}]
      /\ pc' = pc /\ idx' = idx /\ req' = req /\ ord' = [ord EXCEPT ![c] = k]
      /\ pc[c] = "split"
  BY DEF Split
<1>h. \A p \in Pages : IsHead(p)' <=> IsHead(p) \/ p = upper
  BY <1>a, <1>d, <1>e, <1>f DEF IsHead, HeadStates
<1>i. \A p \in Pages : IsHead(p) /\ p # i =>
        state'[p] = state[p] /\ order'[p] = order[p] /\ refs'[p] = refs[p]
  BY <1>d, <1>e, <1>f
<1>j. ~IsHead(upper) /\ state'[upper] = "FREE_HEAD" /\ order'[upper] = k
      /\ state'[i] = "FREE_HEAD" /\ order'[i] = k
  BY <1>a, <1>d, <1>e, <1>f
<1> HIDE DEF i, k, upper
<1>1. TypeOK'
  BY <1>a, <1>b, <1>d DEF Split, TypeOK, States, i, k, upper
<1>2. Solo'
  BY <1>0, <1>g DEF Solo
<1>3. Listed'
  <2> SUFFICES ASSUME NEW l \in Orders, NEW j \in free'[l]
               PROVE  state'[j] = "FREE_HEAD" /\ order'[j] = l
    BY DEF Listed
  <2>1. CASE j \in free[l]
    <3>1. j \in Pages /\ IsHead(j) /\ j # i /\ state[j] = "FREE_HEAD" /\ order[j] = l
      BY <2>1, <1>a DEF Listed, TypeOK, IsHead, HeadStates
    <3> QED  BY <3>1, <1>i
  <2>2. CASE j \notin free[l]
    <3>1. l = k /\ j = upper
      BY <2>2, <1>b, <1>g DEF TypeOK
    <3> QED  BY <3>1, <1>j
  <2> QED  BY <2>1, <2>2
<1>4. Marked'
  <2> SUFFICES ASSUME NEW p \in Pages, state'[p] = "FREE_HEAD"
               PROVE  \/ p \in free'[order'[p]]
                      \/ \E d \in Callers : InHand(d)' /\ idx'[d] = p
    BY DEF Marked
  <2>1. CASE p = i
    BY <2>1, <1>g DEF InHand, i
  <2>2. CASE p = upper
    BY <2>2, <1>b, <1>g, <1>j DEF TypeOK
  <2>3. CASE p # i /\ p # upper
    <3>1. IsHead(p)
      BY <2>3, <1>h DEF IsHead, HeadStates
    <3>2. state[p] = "FREE_HEAD" /\ order'[p] = order[p] /\ order[p] \in Orders
      BY <3>1, <2>3, <1>i DEF Geometry
    <3>3. p \in free[order[p]]
      BY <3>2, <2>3, <1>0 DEF Marked, InHand, i
    <3> QED  BY <3>2, <3>3, <1>b, <1>g DEF TypeOK
  <2> QED  BY <2>1, <2>2, <2>3
<1>5. Hands'
  <2>1. \A l \in Orders : i \notin free'[l]
    BY <1>a, <1>b, <1>d, <1>g DEF TypeOK
  <2> QED  BY <2>1, <1>0, <1>a, <1>b, <1>g, <1>j DEF Hands, TypeOK, InHand, i
<1>6. Geometry'
  <2>1. ASSUME NEW p \in Pages, IsHead(p)'
        PROVE  /\ order'[p] \in Orders
               /\ p \in {i, upper} =>
                    i <= p /\ p + Size[order'[p]] <= i + Size[order[i]]
               /\ p \notin {i, upper} => IsHead(p) /\ order'[p] = order[p]
    <3>1. CASE p \in {i, upper}
      BY <3>1, <1>a, <1>b, <1>d, <1>j DEF upper, Pages
    <3>2. CASE p \notin {i, upper}
      <4>1. IsHead(p) /\ order'[p] = order[p]
        BY <3>2, <2>1, <1>h, <1>i
      <4> QED  BY <4>1, <3>2 DEF Geometry
    <3> QED  BY <3>1, <3>2
  <2>2. ASSUME NEW p \in Pages, IsHead(p)'
        PROVE  /\ p + Size[order'[p]] <= NumPages
               /\ \A q \in Reserved : q < p \/ p + Size[order'[p]] <= q
    <3>1. /\ order'[p] \in Orders /\ p \in Int /\ i \in Int /\ NumPages \in Int
          /\ Size[order'[p]] \in Int /\ Size[order[i]] \in Int
      BY <2>1, <2>2, <1>a, SizeFacts DEF Pages
    <3>2. CASE p \in {i, upper}
      <4>1. i <= p /\ p + Size[order'[p]] <= i + Size[order[i]]
        BY <2>1, <2>2, <3>2
      <4>2. /\ i + Size[order[i]] <= NumPages
            /\ \A q \in Reserved : q \in Int /\ (q < i \/ i + Size[order[i]] <= q)
        BY <1>a DEF Geometry, Pages
      <4> QED  BY <3>1, <4>1, <4>2
    <3>3. CASE p \notin {i, upper}
      <4>1. IsHead(p) /\ order'[p] = order[p]
        BY <2>1, <2>2, <3>3
      <4> QED  BY <4>1 DEF Geometry
    <3> QED  BY <3>2, <3>3
  <2>3. ASSUME NEW p \in Pages, IsHead(p)', NEW q \in Pages, IsHead(q)', p # q
        PROVE  Apart(p, order'[p], q, order'[q])
    <3>0. /\ order'[p] \in Orders /\ order'[q] \in Orders
          /\ p \in Int /\ q \in Int /\ i \in Int
          /\ Size[order'[p]] \in Int /\ Size[order'[q]] \in Int
          /\ Size[order[i]] \in Int
      BY <2>1, <2>3, <1>a, SizeFacts DEF Pages
    <3>1. CASE p \in {i, upper} /\ q \in {i, upper}
      BY <3>0, <3>1, <2>3, <1>j, <1>a, <1>b, SizeFacts DEF Apart, upper
    <3>2. CASE p \in {i, upper} /\ q \notin {i, upper}
      <4>1. /\ i <= p /\ p + Size[order'[p]] <= i + Size[order[i]]
            /\ IsHead(q) /\ order'[q] = order[q] /\ q # i
        BY <2>1, <2>3, <3>2
      <4>2. Apart(i, order[i], q, order[q])
        BY <4>1, <1>a DEF Geometry
      <4> QED  BY <3>0, <4>1, <4>2 DEF Apart
    <3>3. CASE p \notin {i, upper} /\ q \in {i, upper}
      <4>1. /\ i <= q /\ q + Size[order'[q]] <= i + Size[order[i]]
            /\ IsHead(p) /\ order'[p] = order[p] /\ p # i
        BY <2>1, <2>3, <3>3
      <4>2. Apart(i, order[i], p, order[p])
        BY <4>1, <1>a DEF Geometry
      <4> QED  BY <3>0, <4>1, <4>2 DEF Apart
    <3>4. CASE p \notin {i, upper} /\ q \notin {i, upper}
      <4>1. /\ IsHead(p) /\ order'[p] = order[p]
            /\ IsHead(q) /\ order'[q] = order[q]
        BY <2>1, <2>3, <3>4
      <4> QED  BY <2>3, <4>1 DEF Geometry, Apart
    <3> QED  BY <3>1, <3>2, <3>3, <3>4
  <2> QED  BY <2>1, <2>2, <2>3 DEF Geometry, Apart
<1>7. Cover'
  <2> SUFFICES ASSUME NEW p \in Pages \ Reserved
               PROVE  \E j \in Pages : /\ IsHead(j)' /\ j <= p
                                       /\ p < j + Size[order'[j]]
    BY DEF Cover
  <2>1. PICK j \in Pages : IsHead(j) /\ j <= p /\ p < j + Size[order[j]]
    BY DEF Cover
  <2>2. CASE j # i
    BY <2>1, <2>2, <1>h, <1>i
  <2>3. CASE j = i /\ p < upper
    <3>1. IsHead(j)' /\ order'[j] = k
      BY <2>1, <2>3, <1>h, <1>j
    <3> QED  BY <3>1, <2>1, <2>3 DEF upper
  <2>4. CASE j = i /\ ~(p < upper)
    <3>1. p \in Int /\ i \in Int /\ Size[k] \in Int /\ upper \in Int
      BY <1>a, <1>b, <1>d, SizeFacts DEF Pages
    <3>2. upper <= p /\ p < upper + Size[k]
      BY <2>1, <2>4, <3>1, <1>a, <1>b DEF upper
    <3>3. PICK u \in Pages : u = upper
      BY <1>d
    <3>4. IsHead(u)' /\ order'[u] = k
      BY <3>3, <1>h, <1>j
    <3> QED  BY <3>2, <3>3, <3>4
  <2> QED  BY <2>2, <2>3, <2>4
<1>8. Counted'
  BY <1>0, <1>a, <1>g, <1>h, <1>i, <1>j DEF Counted, Allocated, IsHead, HeadStates
<1> QED  BY <1>1, <1>2, <1>3, <1>4, <1>5, <1>6, <1>7, <1>8

LEMMA AllocReturnStep ==
  ASSUME NEW c \in Callers, Preemptible = {}, BuddyInv, AllocReturn(c)
  PROVE  BuddyInv'
<1> USE SizeFacts, BuddyAssumption DEF BuddyInv
<1>0. \A d \in Callers \ {c} : pc[d] = "out"
  BY DEF AllocReturn, Runs
<1>a. /\ idx[c] \in Pages /\ IsHead(idx[c]) /\ order[idx[c]] = ord[c]
      /\ state[idx[c]] = "FREE_HEAD"
      /\ \A l \in Orders : idx[c] \notin free[l]
  BY DEF AllocReturn, Hands, TypeOK, InHand, IsHead, HeadStates
<1>b. SetBlock(idx[c], order[idx[c]], "ALLOC_HEAD", "ALLOC_TAIL", 1)
  BY <1>a DEF AllocReturn
<1>c. /\ state' \in [Pages -> States]
      /\ order' \in [Pages -> Orders \cup {-1}]
      /\ refs' \in [Pages -> Nat]
      /\ \A p \in Pages : IsHead(p)' <=> IsHead(p)
      /\ \A p \in Pages : IsHead(p) => order'[p] = order[p]
      /\ \A p \in Pages : IsHead(p) /\ p # idx[c] =>
           state'[p] = state[p] /\ refs'[p] = refs[p]
      /\ state'[idx[c]] = "ALLOC_HEAD" /\ refs'[idx[c]] = 1
  BY <1>a, <1>b, Relabel DEF HeadStates
<1>d. free' = free /\ pc' = [pc EXCEPT ![c] = "out"]
  BY DEF AllocReturn
<1>1. TypeOK'
  BY <1>a, <1>c, <1>d DEF AllocReturn, Forget, TypeOK, Orders
<1>2. Solo'
  BY <1>0, <1>d DEF Solo, TypeOK
<1>3. Listed'
  BY <1>a, <1>c, <1>d DEF Listed, TypeOK, IsHead, HeadStates
<1>4. Marked'
  BY <1>0, <1>a, <1>c, <1>d DEF Marked, TypeOK, InHand, IsHead, HeadStates
<1>5. Hands'
  BY <1>0, <1>d DEF Hands, TypeOK, InHand
<1>6. Geometry'
  BY <1>c, SameHeads
<1>7. Cover'
  BY <1>c, SameHeads
<1>8. Counted'
  BY <1>0, <1>a, <1>c, <1>d DEF Counted, Allocated, IsHead, HeadStates, TypeOK
<1> QED  BY <1>1, <1>2, <1>3, <1>4, <1>5, <1>6, <1>7, <1>8

LEMMA RefillReturnStep ==
  ASSUME NEW c \in Callers, Preemptible = {}, BuddyInv, RefillReturn(c)
  PROVE  BuddyInv'
<1> USE SizeFacts, BuddyAssumption DEF BuddyInv
<1>0. \A d \in Callers \ {c} : pc[d] = "out"
  BY DEF RefillReturn, Runs
<1>a. /\ idx[c] \in Pages /\ IsHead(idx[c]) /\ order[idx[c]] = ord[c]
      /\ state[idx[c]] = "FREE_HEAD"
      /\ \A l \in Orders : idx[c] \notin free[l]
  BY DEF RefillReturn, Hands, TypeOK, InHand, IsHead, HeadStates
<1>b. SetBlock(idx[c], order[idx[c]], "CHUNK_PAGE", "ALLOC_TAIL", 1)
  BY <1>a DEF RefillReturn
<1>c. /\ state' \in [Pages -> States]
      /\ order' \in [Pages -> Orders \cup {-1}]
      /\ refs' \in [Pages -> Nat]
      /\ \A p \in Pages : IsHead(p)' <=> IsHead(p)
      /\ \A p \in Pages : IsHead(p) => order'[p] = order[p]
      /\ \A p \in Pages : IsHead(p) /\ p # idx[c] =>
           state'[p] = state[p] /\ refs'[p] = refs[p]
      /\ state'[idx[c]] = "CHUNK_PAGE" /\ refs'[idx[c]] = 1
  BY <1>a, <1>b, Relabel DEF HeadStates
<1>d. free' = free /\ pc' = [pc EXCEPT ![c] = "out"]
  BY DEF RefillReturn
<1>1. TypeOK'
  BY <1>a, <1>c, <1>d DEF RefillReturn, Forget, TypeOK, Orders
<1>2. Solo'
  BY <1>0, <1>d DEF Solo, TypeOK
<1>3. Listed'
  BY <1>a, <1>c, <1>d DEF Listed, TypeOK, IsHead, HeadStates
<1>4. Marked'
  BY <1>0, <1>a, <1>c, <1>d DEF Marked, TypeOK, InHand, IsHead, HeadStates
<1>5. Hands'
  BY <1>0, <1>d DEF Hands, TypeOK, InHand
<1>6. Geometry'
  BY <1>c, SameHeads
<1>7. Cover'
  BY <1>c, SameHeads
<1>8. Counted'
  BY <1>0, <1>a, <1>c, <1>d DEF Counted, Allocated, IsHead, HeadStates, TypeOK
<1> QED  BY <1>1, <1>2, <1>3, <1>4, <1>5, <1>6, <1>7, <1>8

LEMMA FreeSharedStep ==
  ASSUME NEW c \in Callers, NEW p \in Pages, Preemptible = {}, BuddyInv, FreeShared(c, p)
  PROVE  BuddyInv'
<1> USE SizeFacts, BuddyAssumption DEF BuddyInv
<1>0. \A d \in Callers \ {c} : pc[d] = "out"
  BY DEF FreeShared, Runs
<1>1. TypeOK'
  BY <1>0 DEF FreeShared, TypeOK, States, frameVars, localVars
<1>2. Solo'
  BY <1>0 DEF FreeShared, Solo, TypeOK, frameVars, localVars
<1>3. Listed'
  BY <1>0 DEF FreeShared, Listed, TypeOK, frameVars, localVars
<1>4. Marked'
  BY <1>0 DEF FreeShared, Marked, TypeOK, InHand, frameVars, localVars
<1>5. Hands'
  BY <1>0 DEF FreeShared, Hands, TypeOK, InHand, frameVars, localVars
<1>6. Geometry'
  BY <1>0 DEF FreeShared, Geometry, TypeOK, IsHead, HeadStates, frameVars, localVars
<1>7. Cover'
  BY <1>0 DEF FreeShared, Cover, TypeOK, IsHead, HeadStates, frameVars, localVars
<1>8. Counted'
  BY <1>0 DEF FreeShared, Counted, TypeOK, Allocated, frameVars, localVars
<1> QED  BY <1>1, <1>2, <1>3, <1>4, <1>5, <1>6, <1>7, <1>8

LEMMA FreeStartStep ==
  ASSUME NEW c \in Callers, NEW p \in Pages, Preemptible = {}, BuddyInv, FreeStart(c, p)
  PROVE  BuddyInv'
<1> USE SizeFacts, BuddyAssumption DEF BuddyInv
<1>0. \A d \in Callers \ {c} : pc[d] = "out"
  BY DEF FreeStart, Runs
<1>a. IsHead(p) /\ order[p] \in Orders /\ state[p] = "ALLOC_HEAD"
  BY DEF FreeStart, IsHead, HeadStates, Geometry
<1>1. TypeOK'
  BY <1>0, <1>a DEF FreeStart, TypeOK, frameVars
<1>2. Solo'
  BY <1>0 DEF FreeStart, Solo, TypeOK, frameVars, localVars
<1>3. Listed'
  BY <1>0 DEF FreeStart, Listed, TypeOK, frameVars, localVars
<1>4. Marked'
  BY <1>0 DEF FreeStart, Marked, TypeOK, InHand, frameVars, localVars
<1>5. Hands'
  <2>1. \A k \in Orders : p \notin free[k]
    BY <1>a DEF Listed
  <2> QED  BY <2>1, <1>0, <1>a DEF FreeStart, Hands, TypeOK, InHand
<1>6. Geometry'
  BY <1>0 DEF FreeStart, Geometry, TypeOK, IsHead, HeadStates, frameVars, localVars
<1>7. Cover'
  BY <1>0 DEF FreeStart, Cover, TypeOK, IsHead, HeadStates, frameVars, localVars
<1>8. Counted'
  BY <1>0 DEF FreeStart, Counted, TypeOK, Allocated, frameVars, localVars
<1> QED  BY <1>1, <1>2, <1>3, <1>4, <1>5, <1>6, <1>7, <1>8

LEMMA MergeStep ==
  ASSUME NEW c \in Callers, Preemptible = {}, BuddyInv, Merge(c)
  PROVE  BuddyInv'
<1> USE SizeFacts, BuddyAssumption DEF BuddyInv
<1>0. \A d \in Callers \ {c} : pc[d] = "out"
  BY DEF Merge, Runs
<1> DEFINE i == idx[c]
           k == ord[c]
           b == BuddyOf(i, k)
           low == IF b < i THEN b ELSE i
           high == IF b < i THEN i ELSE b
<1>a. /\ i \in Pages /\ IsHead(i) /\ order[i] = k /\ k \in Orders
      /\ \A l \in Orders : i \notin free[l]
  BY DEF Merge, Hands, TypeOK, InHand, IsHead, HeadStates
<1>b. /\ k < MaxOrder /\ k + 1 \in Orders /\ Size[k + 1] = 2 * Size[k]
      /\ Size[k] \in Nat /\ Size[k] >= 1
  BY <1>a, SizeFacts DEF Merge, CanMerge
<1>c. /\ b \in Pages /\ IsHead(b) /\ order[b] = k /\ state[b] = "FREE_HEAD"
  BY DEF Merge, CanMerge, IsHead, HeadStates
<1>d. b = i + Size[k] \/ b = i - Size[k]
  BY DEF BuddyOf
<1>e. /\ low \in Pages /\ high \in Pages /\ high = low + Size[k] /\ low # high
      /\ {low, high} = {i, b} /\ IsHead(low) /\ IsHead(high)
      /\ order[low] = k /\ order[high] = k
  BY <1>a, <1>b, <1>c, <1>d DEF Pages
<1>f. \A p \in Pages : IsHead(p) /\ p \notin {low, high} => p \notin Frames(low, k + 1)
  <2> SUFFICES ASSUME NEW p \in Pages, IsHead(p), p \notin {low, high}
               PROVE  p \notin Frames(low, k + 1)
    OBVIOUS
  <2>1. p \notin Frames(low, k) /\ p \notin Frames(high, k)
    BY <1>e, TailsAreNoHeads
  <2> QED  BY <2>1, <1>b, <1>e DEF Frames, Pages
<1>g. high \in Frames(low, k + 1)
  BY <1>b, <1>e DEF Frames, Pages
<1>h. \A p \in Pages :
        /\ state'[p] = IF p = low THEN "FREE_HEAD"
                       ELSE IF p \in Frames(low, k + 1) THEN "FREE_TAIL"
                       ELSE state[p]
        /\ order'[p] = IF p = low THEN k + 1
                       ELSE IF p \in Frames(low, k + 1) THEN -1 ELSE order[p]
        /\ refs'[p] = IF p = low THEN 0
                      ELSE IF p \in Frames(low, k + 1) THEN 0 ELSE refs[p]
  BY DEF Merge, SetFreeHead, SetBlock
<1>i. /\ free' = [free EXCEPT ![k] = @ \ {b}]
      /\ idx' = [idx EXCEPT ![c] = low] /\ ord' = [ord EXCEPT ![c] = k + 1]
      /\ pc' = pc /\ req' = req /\ pc[c] = "merge"
  BY DEF Merge
<1>j. \A p \in Pages : IsHead(p)' <=> IsHead(p) /\ p # high
  BY <1>e, <1>f, <1>g, <1>h DEF IsHead, HeadStates
<1>k. \A p \in Pages : IsHead(p) /\ p \notin {low, high} =>
        state'[p] = state[p] /\ order'[p] = order[p] /\ refs'[p] = refs[p]
  BY <1>f, <1>h
<1>l. state'[low] = "FREE_HEAD" /\ order'[low] = k + 1 /\ refs'[low] = 0
  BY <1>e, <1>h
<1>m. \A l \in Orders : \A j \in free'[l] : j \in free[l] /\ j \notin {i, b}
  BY <1>a, <1>c, <1>i DEF Listed, TypeOK
<1> HIDE DEF i, k, b, low, high
<1>1. TypeOK'
  BY <1>a, <1>b, <1>e DEF Merge, SetFreeHead, SetBlock, TypeOK, States, i, k, b, low
<1>2. Solo'
  BY <1>0, <1>i DEF Solo
<1>3. Listed'
  <2> SUFFICES ASSUME NEW l \in Orders, NEW j \in free'[l]
               PROVE  state'[j] = "FREE_HEAD" /\ order'[j] = l
    BY DEF Listed
  <2>1. j \in free[l] /\ j \in Pages /\ j \notin {low, high}
    BY <1>e, <1>m DEF TypeOK
  <2> QED  BY <2>1, <1>k DEF Listed, IsHead, HeadStates
<1>4. Marked'
  <2> SUFFICES ASSUME NEW p \in Pages, state'[p] = "FREE_HEAD", p # low
               PROVE  p \in free'[order'[p]]
    BY <1>i DEF Marked, InHand, TypeOK
  <2>1. IsHead(p) /\ p \notin {low, high}
    BY <1>j DEF IsHead, HeadStates
  <2>2. state[p] = "FREE_HEAD" /\ order'[p] = order[p] /\ order[p] \in Orders
    BY <2>1, <1>k DEF Geometry
  <2>3. p # i /\ p # b
    BY <2>1, <1>e
  <2>4. p \in free[order[p]]
    BY <2>2, <2>3, <1>0 DEF Marked, InHand, i
  <2> QED  BY <2>2, <2>3, <2>4, <1>a, <1>i DEF TypeOK
<1>5. Hands'
  <2>1. \A l \in Orders : low \notin free'[l]
    BY <1>e, <1>m
  <2> QED  BY <2>1, <1>0, <1>b, <1>e, <1>i, <1>l DEF Hands, TypeOK, InHand
<1>6. Geometry'
  <2>1. ASSUME NEW p \in Pages, IsHead(p)', p # low
        PROVE  /\ IsHead(p) /\ p \notin {low, high} /\ order'[p] = order[p]
               /\ order[p] \in Orders /\ Size[order[p]] \in Int
               /\ Apart(low, k, p, order[p]) /\ Apart(high, k, p, order[p])
    <3>1. IsHead(p) /\ p \notin {low, high} /\ order'[p] = order[p]
      BY <2>1, <1>j, <1>k
    <3>2. order[p] \in Orders /\ Size[order[p]] \in Int
      BY <3>1, SizeFacts DEF Geometry
    <3> QED  BY <3>1, <3>2, <1>e DEF Geometry
  <2>2. low \in Int /\ NumPages \in Int /\ high \in Int /\ Size[k + 1] \in Int
    BY <1>b, <1>e DEF Pages
  <2>3. /\ low + Size[k + 1] <= NumPages
        /\ \A q \in Reserved : q < low \/ low + Size[k + 1] <= q
    <3>1. /\ high + Size[k] <= NumPages
          /\ \A q \in Reserved : q \in Int /\ (q < low \/ low + Size[k] <= q)
                                 /\ (q < high \/ high + Size[k] <= q)
      BY <1>e DEF Geometry, Pages
    <3> QED  BY <3>1, <2>2, <1>b, <1>e
  <2>4. ASSUME NEW p \in Pages, IsHead(p)', p # low
        PROVE  Apart(low, k + 1, p, order[p])
    <3>1. p \in Int /\ Size[order[p]] \in Int /\ Size[order[p]] >= 1
      BY <2>1, <2>4, SizeFacts DEF Pages
    <3> QED  BY <2>1, <2>2, <2>4, <3>1, <1>b, <1>e DEF Apart
  <2>5. ASSUME NEW p \in Pages, IsHead(p)', NEW q \in Pages, IsHead(q)', p # q
        PROVE  Apart(p, order'[p], q, order'[q])
    <3>1. CASE p = low
      BY <2>1, <2>4, <2>5, <3>1, <1>l
    <3>2. CASE q = low
      BY <2>1, <2>4, <2>5, <3>2, <1>l DEF Apart
    <3>3. CASE p # low /\ q # low
      BY <2>1, <2>5, <3>3 DEF Geometry
    <3> QED  BY <3>1, <3>2, <3>3
  <2>6. ASSUME NEW p \in Pages, IsHead(p)'
        PROVE  /\ order'[p] \in Orders /\ p + Size[order'[p]] <= NumPages
               /\ \A q \in Reserved : q < p \/ p + Size[order'[p]] <= q
    <3>1. CASE p = low
      BY <3>1, <2>3, <1>b, <1>l
    <3>2. CASE p # low
      BY <3>2, <2>1, <2>6 DEF Geometry
    <3> QED  BY <3>1, <3>2
  <2> QED  BY <2>5, <2>6 DEF Geometry, Apart
<1>7. Cover'
  <2> SUFFICES ASSUME NEW p \in Pages \ Reserved
               PROVE  \E j \in Pages : /\ IsHead(j)' /\ j <= p
                                       /\ p < j + Size[order'[j]]
    BY DEF Cover
  <2>1. PICK j \in Pages : IsHead(j) /\ j <= p /\ p < j + Size[order[j]]
    BY DEF Cover
  <2>2. CASE j \notin {low, high}
    BY <2>1, <2>2, <1>j, <1>k
  <2>3. CASE j \in {low, high}
    <3>1. p \in Int /\ low \in Int
      BY <1>e DEF Pages
    <3>2. low <= p /\ p < low + Size[k + 1]
      BY <2>1, <2>3, <3>1, <1>b, <1>e
    <3>3. PICK u \in Pages : u = low
      BY <1>e
    <3>4. IsHead(u)' /\ order'[u] = k + 1
      BY <3>3, <1>e, <1>j, <1>l
    <3> QED  BY <3>2, <3>3, <3>4
  <2> QED  BY <2>2, <2>3
<1>8. Counted'
  <2> SUFFICES ASSUME NEW p \in Pages, Allocated(p)', refs'[p] = 0
               PROVE  FALSE
    BY DEF Counted
  <2>1. IsHead(p) /\ p \notin {low, high}
    BY <1>j, <1>l DEF Allocated, IsHead, HeadStates
  <2>2. Allocated(p) /\ refs[p] = 0 /\ p # i
    BY <2>1, <1>e, <1>k DEF Allocated
  <2> QED  BY <2>2, <1>0 DEF Counted, i
<1> QED  BY <1>1, <1>2, <1>3, <1>4, <1>5, <1>6, <1>7, <1>8

LEMMA AddFreeStep ==
  ASSUME NEW c \in Callers, Preemptible = {}, BuddyInv, AddFree(c)
  PROVE  BuddyInv'
<1> USE SizeFacts, BuddyAssumption DEF BuddyInv
<1>0. \A d \in Callers \ {c} : pc[d] = "out"
  BY DEF AddFree, Runs
<1>a. /\ idx[c] \in Pages /\ IsHead(idx[c]) /\ order[idx[c]] = ord[c]
      /\ ord[c] \in Orders
      /\ \A l \in Orders : idx[c] \notin free[l]
  BY DEF AddFree, Hands, TypeOK, InHand, IsHead, HeadStates
<1>b. SetBlock(idx[c], order[idx[c]], "FREE_HEAD", "FREE_TAIL", 0)
  BY <1>a DEF AddFree, SetFreeHead
<1>c. /\ state' \in [Pages -> States]
      /\ order' \in [Pages -> Orders \cup {-1}]
      /\ refs' \in [Pages -> Nat]
      /\ \A p \in Pages : IsHead(p)' <=> IsHead(p)
      /\ \A p \in Pages : IsHead(p) => order'[p] = order[p]
      /\ \A p \in Pages : IsHead(p) /\ p # idx[c] =>
           state'[p] = state[p] /\ refs'[p] = refs[p]
      /\ state'[idx[c]] = "FREE_HEAD"
  BY <1>a, <1>b, Relabel DEF HeadStates
<1>d. /\ free' = [free EXCEPT ![ord[c]] = @ \cup {idx[c]}]
      /\ pc' = [pc EXCEPT ![c] = "out"]
  BY DEF AddFree
<1>1. TypeOK'
  BY <1>a, <1>c, <1>d, SMTT(30) DEF AddFree, Forget, TypeOK, Orders
<1>2. Solo'
  BY <1>0, <1>d DEF Solo, TypeOK
<1>3. Listed'
  <2> SUFFICES ASSUME NEW l \in Orders, NEW j \in free'[l]
               PROVE  state'[j] = "FREE_HEAD" /\ order'[j] = l
    BY DEF Listed
  <2>1. CASE j \in free[l]
    <3>1. j \in Pages /\ state[j] = "FREE_HEAD" /\ order[j] = l /\ j # idx[c]
      BY <2>1, <1>a DEF Listed, TypeOK
    <3> QED  BY <3>1, <1>c DEF IsHead, HeadStates
  <2>2. CASE j \notin free[l]
    <3>1. l = ord[c] /\ j = idx[c]
      BY <2>2, <1>d DEF TypeOK
    <3> QED  BY <3>1, <1>a, <1>c
  <2> QED  BY <2>1, <2>2
<1>4. Marked'
  BY <1>0, <1>a, <1>c, <1>d DEF Marked, TypeOK, InHand, IsHead, HeadStates
<1>5. Hands'
  BY <1>0, <1>d DEF Hands, TypeOK, InHand
<1>6. Geometry'
  BY <1>c, SameHeads
<1>7. Cover'
  BY <1>c, SameHeads
<1>8. Counted'
  BY <1>0, <1>a, <1>c, <1>d DEF Counted, Allocated, IsHead, HeadStates, TypeOK
<1> QED  BY <1>1, <1>2, <1>3, <1>4, <1>5, <1>6, <1>7, <1>8

LEMMA PageGetStep ==
  ASSUME NEW c \in Callers, NEW p \in Pages, Preemptible = {}, BuddyInv, PageGet(c, p)
  PROVE  BuddyInv'
<1> USE SizeFacts, BuddyAssumption DEF BuddyInv
<1>0. \A d \in Callers \ {c} : pc[d] = "out"
  BY DEF PageGet, Runs
<1>1. TypeOK'
  BY <1>0 DEF PageGet, TypeOK, States, frameVars, localVars
<1>2. Solo'
  BY <1>0 DEF PageGet, Solo, TypeOK, frameVars, localVars
<1>3. Listed'
  BY <1>0 DEF PageGet, Listed, TypeOK, frameVars, localVars
<1>4. Marked'
  BY <1>0 DEF PageGet, Marked, TypeOK, InHand, frameVars, localVars
<1>5. Hands'
  BY <1>0 DEF PageGet, Hands, TypeOK, InHand, frameVars, localVars
<1>6. Geometry'
  BY <1>0 DEF PageGet, Geometry, TypeOK, IsHead, HeadStates, frameVars, localVars
<1>7. Cover'
  BY <1>0 DEF PageGet, Cover, TypeOK, IsHead, HeadStates, frameVars, localVars
<1>8. Counted'
  BY <1>0 DEF PageGet, Counted, TypeOK, Allocated, frameVars, localVars
<1> QED  BY <1>1, <1>2, <1>3, <1>4, <1>5, <1>6, <1>7, <1>8

-----------------------------------------------------------------------------
LEMMA BuddyInit == Init => BuddyInv
<1> SUFFICES ASSUME Init PROVE BuddyInv
  OBVIOUS
<1> USE SizeFacts, BuddyAssumption, InitialAssumption DEF Init
<1>1. \A k \in Orders : \A i \in InitialFree[k] :
        /\ i \in Pages /\ i \in Frames(i, k) /\ i \notin Reserved
        /\ i + Size[k] <= NumPages
        /\ \A p \in Reserved : p < i \/ i + Size[k] <= p
  <2> SUFFICES ASSUME NEW k \in Orders, NEW i \in InitialFree[k]
               PROVE  /\ i \in Pages /\ i \in Frames(i, k) /\ i \notin Reserved
                      /\ i + Size[k] <= NumPages
                      /\ \A p \in Reserved : p < i \/ i + Size[k] <= p
    OBVIOUS
  <2>1. i \in Pages /\ Size[k] \in Nat /\ Size[k] >= 1 /\ i \in Int
    BY DEF Pages
  <2>2. i \in Frames(i, k) /\ i + Size[k] - 1 \in Frames(i, k)
    BY <2>1 DEF Frames
  <2>3. i \notin Reserved /\ i + Size[k] - 1 \in Pages
    BY <2>2
  <2>4. \A p \in Reserved : p \in Int /\ p \notin Frames(i, k)
    BY DEF Pages
  <2>5. i + Size[k] <= NumPages
    BY <2>1, <2>3 DEF Pages
  <2>6. ASSUME NEW p \in Reserved PROVE p < i \/ i + Size[k] <= p
    <3>1. p \in Int /\ ~(i <= p /\ p <= i + Size[k] - 1)
      BY <2>1, <2>4 DEF Frames
    <3> QED  BY <3>1, <2>1
  <2> QED  BY <2>1, <2>2, <2>3, <2>5, <2>6
<1>2. \A k, l \in Orders : \A i \in InitialFree[k], j \in InitialFree[l] :
        <<i, k>> # <<j, l>> => Apart(i, k, j, l) /\ i # j
  <2> SUFFICES ASSUME NEW k \in Orders, NEW l \in Orders,
                      NEW i \in InitialFree[k], NEW j \in InitialFree[l],
                      <<i, k>> # <<j, l>>
               PROVE  Apart(i, k, j, l) /\ i # j
    OBVIOUS
  <2>1. Frames(i, k) \cap Frames(j, l) = {}
    OBVIOUS
  <2>2. i \in Frames(i, k) /\ j \in Frames(j, l) /\ i \in Int /\ j \in Int
    BY <1>1 DEF Pages
  <2>3. i \notin Frames(j, l) /\ j \notin Frames(i, k)
    BY <2>1, <2>2
  <2> QED  BY <2>2, <2>3 DEF Frames, Apart
<1>3. \A p \in Pages : \A k \in Orders : p \in InitialFree[k] =>
        InitialOrder(p) = {k} /\ order[p] = k /\ state[p] = "FREE_HEAD"
  BY <1>1, <1>2 DEF InitialOrder
<1>4. \A p \in Pages : IsHead(p) => \E k \in Orders : p \in InitialFree[k]
  BY DEF IsHead, HeadStates, InitialOrder
<1>5. TypeOK
  BY <1>3 DEF TypeOK, States, Orders, InitialOrder
<1>6. Solo /\ Hands
  BY DEF Solo, Hands, InHand
<1>7. Listed /\ Marked
  BY <1>1, <1>3, <1>4 DEF Listed, Marked, IsHead, HeadStates
<1>8. Geometry
  BY <1>1, <1>2, <1>3, <1>4 DEF Geometry
<1>9. Counted
  BY DEF Counted, Allocated
<1>10. Cover
  <2> SUFFICES ASSUME NEW p \in Pages \ Reserved
               PROVE  \E i \in Pages : IsHead(i) /\ i <= p /\ p < i + Size[order[i]]
    BY DEF Cover
  <2>0. PICK k \in Orders : \E j \in InitialFree[k] : p \in Frames(j, k)
    OBVIOUS
  <2>1. PICK i \in InitialFree[k] : p \in Frames(i, k)
    BY <2>0
  <2>2. i \in Pages /\ IsHead(i) /\ order[i] = k
    BY <1>1, <1>3 DEF IsHead, HeadStates
  <2>3. i <= p /\ p < i + Size[k]
    BY <2>1, <2>2 DEF Frames, Pages
  <2> QED  BY <2>2, <2>3
<1> QED  BY <1>5, <1>6, <1>7, <1>8, <1>9, <1>10 DEF BuddyInv

LEMMA BuddyStep ==
  ASSUME Preemptible = {}, BuddyInv, [Next]_vars
  PROVE  BuddyInv'
<1>1. CASE UNCHANGED vars
  BY <1>1 DEF BuddyInv, TypeOK, Solo, Listed, Marked, Hands, Geometry, Cover,
       Counted, InHand, IsHead, Allocated, Apart, vars, frameVars, localVars
<1>2. CASE Next
  BY <1>2, AllocStartStep, TakeStep, SplitStep, AllocReturnStep,
     RefillReturnStep, FreeSharedStep, FreeStartStep, MergeStep, AddFreeStep,
     PageGetStep DEF Next
<1> QED  BY <1>1, <1>2

(* The frame array, the lists and the callers' locals always agree.          *)
THEOREM BuddyInvariant ==
  ASSUME Preemptible = {} PROVE Spec => []BuddyInv
<1> QED  BY BuddyInit, BuddyStep, PTL DEF Spec

(* A block is a head of the frame array, of the order recorded there.        *)
LEMMA BlocksAreHeads ==
  ASSUME BuddyInv, NEW i \in Pages, NEW k \in Orders
  PROVE  Block(i, k) <=> IsHead(i) /\ order[i] = k
<1>1. ASSUME i \in free[k] PROVE IsHead(i) /\ order[i] = k
  BY <1>1 DEF BuddyInv, Listed, IsHead, HeadStates
<1>2. ASSUME NEW c \in Callers, InHand(c), idx[c] = i, ord[c] = k
      PROVE  IsHead(i) /\ order[i] = k
  BY <1>2 DEF BuddyInv, Hands, InHand, IsHead, HeadStates
<1>3. ASSUME IsHead(i), order[i] = k PROVE Block(i, k)
  <2>1. CASE state[i] = "FREE_HEAD"
    BY <1>3, <2>1 DEF BuddyInv, Marked, Hands, Block
  <2>2. CASE state[i] # "FREE_HEAD"
    BY <1>3, <2>2 DEF Block, Allocated, IsHead, HeadStates
  <2> QED  BY <2>1, <2>2
<1> QED  BY <1>1, <1>2, <1>3 DEF Block, Allocated, IsHead, HeadStates

(* No two blocks, free or allocated or in the making, ever overlap, whatever *)
(* the size of memory and whatever is reserved.                              *)
THEOREM BlocksApart ==
  ASSUME Preemptible = {} PROVE Spec => []NoOverlap
<1>1. BuddyInv => NoOverlap
  BY BlocksAreHeads DEF BuddyInv, Geometry, NoOverlap
<1> QED  BY <1>1, BuddyInvariant, PTL

(* No frame is ever lost.                                                    *)
THEOREM FramesConserved ==
  ASSUME Preemptible = {} PROVE Spec => []NothingLost
<1>1. ASSUME BuddyInv PROVE NothingLost
  <2> SUFFICES ASSUME NEW p \in Pages \ Reserved
               PROVE  \E i \in Pages, k \in Orders :
                        Block(i, k) /\ i <= p /\ p < i + Size[k]
    BY DEF NothingLost
  <2>1. PICK i \in Pages : IsHead(i) /\ i <= p /\ p < i + Size[order[i]]
    BY <1>1 DEF BuddyInv, Cover
  <2>2. order[i] \in Orders
    BY <1>1, <2>1 DEF BuddyInv, Geometry
  <2> QED  BY <1>1, <2>1, <2>2, BlocksAreHeads
<1> QED  BY <1>1, BuddyInvariant, PTL

-----------------------------------------------------------------------------
(* Refinement of FrameAlloc.                                                 *)
heldBlocks == {<<p, order[p]>> : p \in {q \in Pages : Holds(q)}}
shareCounts == [p \in Pages |-> IF Holds(p) THEN refs[p] ELSE 0]

(* A step that leaves the allocated blocks and their counts alone stutters.  *)
LEMMA Stutters ==
  ASSUME \A p \in Pages : Holds(p)' <=> Holds(p),
         \A p \in Pages : Holds(p) => order'[p] = order[p] /\ refs'[p] = refs[p]
  PROVE  UNCHANGED Promise!vars
<1>1. heldBlocks' = heldBlocks
  BY DEF heldBlocks
<1>2. shareCounts' = shareCounts
  BY DEF shareCounts
<1> QED  BY <1>1, <1>2 DEF Promise!vars, heldBlocks, shareCounts

(* Outside of merging every allocated block is held.                         *)
LEMMA AllocatedIsHeld ==
  ASSUME Preemptible = {}, BuddyInv, NEW c \in Callers, pc[c] = "out", Runs(c),
         NEW p \in Pages, Allocated(p)
  PROVE  Holds(p) /\ refs[p] > 0 /\ order[p] \in Orders /\ IsHead(p)
<1>1. \A d \in Callers : pc[d] = "out"
  BY DEF Runs
<1>2. refs[p] # 0 /\ refs[p] \in Nat
  BY <1>1 DEF BuddyInv, Counted, TypeOK
<1>3. IsHead(p)
  BY DEF Allocated, IsHead, HeadStates
<1> QED  BY <1>2, <1>3 DEF BuddyInv, Geometry, Holds

LEMMA QuietStutter ==
  ASSUME NEW c \in Callers,
         \/ \E r, k \in Orders : \E i \in Pages : AllocStart(c, r, k, i)
         \/ Take(c)
  PROVE  UNCHANGED Promise!vars
<1>1. UNCHANGED frameVars
  BY DEF AllocStart, Take
<1> QED  BY <1>1, Stutters DEF frameVars, Holds, Allocated

LEMMA SplitStutter ==
  ASSUME BuddyInv, NEW c \in Callers, Split(c)
  PROVE  UNCHANGED Promise!vars
<1>1. /\ idx[c] \in Pages /\ IsHead(idx[c]) /\ order[idx[c]] = ord[c]
      /\ state[idx[c]] = "FREE_HEAD" /\ ord[c] \in Orders
      /\ req[c] \in Orders /\ ord[c] > req[c]
  BY DEF Split, BuddyInv, Hands, TypeOK, InHand, IsHead, HeadStates
<1>2. \A p \in Pages : p \in Frames(idx[c], ord[c]) => ~Holds(p)
  BY <1>1, TailsAreNoHeads DEF Holds, Allocated, IsHead, HeadStates
<1>3. idx[c] + Size[ord[c] - 1] \in Frames(idx[c], ord[c])
  <2>1. /\ ord[c] - 1 \in Orders /\ Size[ord[c]] = 2 * Size[ord[c] - 1]
        /\ Size[ord[c] - 1] \in Nat /\ Size[ord[c] - 1] >= 1
    <3>1. ord[c] # 0
      BY <1>1 DEF Orders
    <3> QED  BY <1>1, <3>1, SizeFacts
  <2> QED  BY <1>1, <2>1 DEF Frames, Pages
<1>4. idx[c] \in Frames(idx[c], ord[c])
  BY <1>1, SizeFacts DEF Frames, Pages
<1>5. \A p \in Pages :
        /\ p \in Frames(idx[c], ord[c]) => state'[p] \in {"FREE_HEAD", "FREE_TAIL"}
        /\ p \notin Frames(idx[c], ord[c]) =>
             state'[p] = state[p] /\ order'[p] = order[p] /\ refs'[p] = refs[p]
  BY <1>3, <1>4 DEF Split
<1> QED  BY <1>2, <1>5, Stutters DEF Holds, Allocated

LEMMA MergeStutter ==
  ASSUME BuddyInv, NEW c \in Callers, Merge(c)
  PROVE  UNCHANGED Promise!vars
<1> DEFINE i == idx[c]
           k == ord[c]
           b == BuddyOf(i, k)
           low == IF b < i THEN b ELSE i
           high == IF b < i THEN i ELSE b
<1>1. /\ i \in Pages /\ IsHead(i) /\ order[i] = k /\ k \in Orders
      /\ ~Holds(i)
  BY DEF Merge, BuddyInv, Hands, TypeOK, InHand, IsHead, HeadStates, Holds
<1>2. /\ b \in Pages /\ IsHead(b) /\ order[b] = k /\ ~Holds(b)
  BY DEF Merge, CanMerge, IsHead, HeadStates, Holds, Allocated
<1>3. /\ k + 1 \in Orders /\ Size[k + 1] = 2 * Size[k]
      /\ Size[k] \in Nat /\ Size[k] >= 1
  BY <1>1, SizeFacts DEF Merge, CanMerge
<1>4. /\ low \in Pages /\ high = low + Size[k] /\ high \in Pages
      /\ order[low] = k /\ order[high] = k
      /\ IsHead(low) /\ IsHead(high) /\ ~Holds(low) /\ ~Holds(high)
  BY <1>1, <1>2, <1>3 DEF BuddyOf, Pages
<1>5. \A p \in Pages : p \in Frames(low, k + 1) => ~Holds(p)
  <2> SUFFICES ASSUME NEW p \in Pages, p \in Frames(low, k + 1), Holds(p)
               PROVE  FALSE
    OBVIOUS
  <2>1. IsHead(p) /\ p # low /\ p # high
    BY <1>4 DEF Holds, Allocated, IsHead, HeadStates
  <2>2. p \notin Frames(low, k) /\ p \notin Frames(high, k)
    BY <1>4, <2>1, TailsAreNoHeads
  <2> QED  BY <2>2, <1>3, <1>4 DEF Frames, Pages
<1>6. low \in Frames(low, k + 1)
  BY <1>3, <1>4 DEF Frames, Pages
<1>7. \A p \in Pages :
        /\ p \in Frames(low, k + 1) => state'[p] \in {"FREE_HEAD", "FREE_TAIL"}
        /\ p \notin Frames(low, k + 1) =>
             state'[p] = state[p] /\ order'[p] = order[p] /\ refs'[p] = refs[p]
  BY <1>6 DEF Merge, SetFreeHead, SetBlock
<1> QED  BY <1>5, <1>7, Stutters DEF Holds, Allocated

LEMMA AddFreeStutter ==
  ASSUME BuddyInv, NEW c \in Callers, AddFree(c)
  PROVE  UNCHANGED Promise!vars
<1>1. /\ idx[c] \in Pages /\ IsHead(idx[c]) /\ order[idx[c]] = ord[c]
      /\ ord[c] \in Orders /\ ~Holds(idx[c])
  BY DEF AddFree, BuddyInv, Hands, TypeOK, InHand, IsHead, HeadStates, Holds
<1>2. \A p \in Pages : p \in Frames(idx[c], ord[c]) => ~Holds(p)
  BY <1>1, TailsAreNoHeads DEF Holds, Allocated, IsHead, HeadStates
<1>3. idx[c] \in Frames(idx[c], ord[c])
  BY <1>1, SizeFacts DEF Frames, Pages
<1>4. \A p \in Pages :
        /\ p \in Frames(idx[c], ord[c]) => state'[p] \in {"FREE_HEAD", "FREE_TAIL"}
        /\ p \notin Frames(idx[c], ord[c]) =>
             state'[p] = state[p] /\ order'[p] = order[p] /\ refs'[p] = refs[p]
  BY <1>3 DEF AddFree, SetFreeHead, SetBlock
<1> QED  BY <1>2, <1>4, Stutters DEF Holds, Allocated

(* The block an allocation returns with is granted.                          *)
LEMMA ReturnGrants ==
  ASSUME BuddyInv, NEW c \in Callers, AllocReturn(c) \/ RefillReturn(c)
  PROVE  Promise!Next
<1> DEFINE i == idx[c]
           k == ord[c]
<1>1. /\ i \in Pages /\ IsHead(i) /\ order[i] = k /\ k \in Orders
      /\ state[i] = "FREE_HEAD" /\ ~Holds(i)
  BY DEF AllocReturn, RefillReturn, BuddyInv, Hands, TypeOK, InHand, IsHead,
         HeadStates, Holds, Allocated
<1>2. PICK head \in {"ALLOC_HEAD", "CHUNK_PAGE"} :
        SetBlock(i, order[i], head, "ALLOC_TAIL", 1)
  BY <1>1 DEF AllocReturn, RefillReturn
<1>3. /\ \A p \in Pages : IsHead(p)' <=> IsHead(p)
      /\ \A p \in Pages : IsHead(p) => order'[p] = order[p]
      /\ \A p \in Pages : IsHead(p) /\ p # i =>
           state'[p] = state[p] /\ refs'[p] = refs[p]
      /\ state'[i] = head /\ refs'[i] = 1
  BY <1>1, <1>2, Relabel DEF HeadStates
<1>4. \A p \in Pages : Holds(p) => IsHead(p) /\ order[p] \in Orders
  BY DEF Holds, Allocated, IsHead, HeadStates, BuddyInv, Geometry
<1>5. \A p \in Pages : Holds(p)' <=> Holds(p) \/ p = i
  BY <1>1, <1>3 DEF Holds, Allocated, IsHead, HeadStates
<1>6. heldBlocks' = heldBlocks \cup {<<i, k>>}
  BY <1>1, <1>3, <1>4, <1>5 DEF heldBlocks
<1>7. shareCounts' = [shareCounts EXCEPT ![i] = 1]
  BY <1>1, <1>3, <1>4, <1>5 DEF shareCounts
<1>8. Frames(i, k) \subseteq Pages /\ Frames(i, k) \cap Reserved = {}
  <2>1. /\ i + Size[k] <= NumPages /\ i \in Int /\ 0 <= i /\ Size[k] \in Int
        /\ NumPages \in Int
        /\ \A p \in Reserved : p \in Int /\ (p < i \/ i + Size[k] <= p)
    BY <1>1, SizeFacts, BuddyAssumption DEF BuddyInv, Geometry, Pages
  <2>2. Frames(i, k) \subseteq Pages
    BY <2>1 DEF Frames, Pages
  <2>3. Frames(i, k) \cap Reserved = {}
    BY <2>1 DEF Frames
  <2> QED  BY <2>2, <2>3
<1>9. \A p \in Pages : Holds(p) => Frames(i, k) \cap Frames(p, order[p]) = {}
  <2> SUFFICES ASSUME NEW p \in Pages, Holds(p)
               PROVE  Frames(i, k) \cap Frames(p, order[p]) = {}
    OBVIOUS
  <2>1. Apart(i, k, p, order[p]) /\ order[p] \in Orders
    BY <1>1, <1>4 DEF BuddyInv, Geometry
  <2>2. i \in Int /\ p \in Int /\ Size[k] \in Int /\ Size[order[p]] \in Int
    BY <1>1, <2>1, SizeFacts DEF Pages
  <2> QED  BY <2>1, <2>2 DEF Apart, Frames
<1>10. \A block \in heldBlocks : Frames(i, k) \cap Frames(block[1], block[2]) = {}
  BY <1>9 DEF heldBlocks
<1>11. i \in Promise!Pages /\ k \in Promise!Orders
  BY <1>1 DEF Promise!Pages, Promise!Orders, Pages, Orders
<1>12. PICK f \in Promise!Pages, l \in Promise!Orders : f = i /\ l = k
  BY <1>11
<1>13. Promise!Grant(f, l)
  BY <1>6, <1>7, <1>8, <1>10, <1>12
     DEF Promise!Grant, Promise!Frames, Promise!Pages, Frames, Pages,
         heldBlocks, shareCounts
<1> QED  BY <1>13 DEF Promise!Next

LEMMA PutStep ==
  ASSUME Preemptible = {}, BuddyInv, NEW c \in Callers, NEW p \in Pages,
         FreeShared(c, p) \/ FreeStart(c, p)
  PROVE  Promise!Next
<1>1. /\ pc[c] = "out" /\ Runs(c) /\ Allocated(p)
      /\ state' = state /\ order' = order
  BY DEF FreeShared, FreeStart, Allocated
<1>2. /\ Holds(p) /\ refs[p] > 0 /\ order[p] \in Orders /\ refs[p] \in Nat
      /\ <<p, order[p]>> \in heldBlocks /\ shareCounts[p] = refs[p]
  BY <1>1, AllocatedIsHeld DEF heldBlocks, shareCounts, BuddyInv, TypeOK
<1>3. CASE FreeShared(c, p)
  <2>1. refs' = [refs EXCEPT ![p] = @ - 1] /\ refs[p] > 1
    BY <1>3 DEF FreeShared
  <2>2. \A q \in Pages : Holds(q)' <=> Holds(q)
    BY <1>1, <1>2, <2>1 DEF Holds, Allocated, BuddyInv, TypeOK
  <2>3. heldBlocks' = heldBlocks
    BY <1>1, <2>2 DEF heldBlocks
  <2>4. shareCounts' = [shareCounts EXCEPT ![p] = @ - 1]
    BY <1>1, <1>2, <2>1, <2>2 DEF shareCounts, BuddyInv, TypeOK
  <2>5. p \in Promise!Pages /\ order[p] \in Promise!Orders
    BY <1>2 DEF Promise!Pages, Promise!Orders, Pages, Orders
  <2>6. PICK k \in Promise!Orders : k = order[p]
    BY <2>5
  <2>7. Promise!PutOne(p, k)
    BY <1>2, <2>1, <2>3, <2>4, <2>6
       DEF Promise!PutOne, heldBlocks, shareCounts
  <2> QED  BY <2>5, <2>7 DEF Promise!Next
<1>4. CASE FreeStart(c, p)
  <2>1. refs' = [refs EXCEPT ![p] = 0] /\ refs[p] = 1
    BY <1>2, <1>4 DEF FreeStart
  <2>2. \A q \in Pages : Holds(q)' <=> Holds(q) /\ q # p
    BY <1>1, <1>2, <2>1 DEF Holds, Allocated, BuddyInv, TypeOK
  <2>3. heldBlocks' = heldBlocks \ {<<p, order[p]>>}
    BY <1>1, <1>2, <2>2 DEF heldBlocks
  <2>4. shareCounts' = [shareCounts EXCEPT ![p] = 0]
    BY <1>1, <1>2, <2>1, <2>2 DEF shareCounts, BuddyInv, TypeOK
  <2>5. p \in Promise!Pages /\ order[p] \in Promise!Orders
    BY <1>2 DEF Promise!Pages, Promise!Orders, Pages, Orders
  <2>6. PICK k \in Promise!Orders : k = order[p]
    BY <2>5
  <2>7. Promise!PutLast(p, k)
    BY <1>2, <2>1, <2>3, <2>4, <2>6
       DEF Promise!PutLast, heldBlocks, shareCounts
  <2> QED  BY <2>5, <2>7 DEF Promise!Next
<1> QED  BY <1>3, <1>4

LEMMA ShareStep ==
  ASSUME Preemptible = {}, BuddyInv, NEW c \in Callers, NEW p \in Pages,
         PageGet(c, p)
  PROVE  Promise!Next
<1>1. /\ pc[c] = "out" /\ Runs(c) /\ Allocated(p) /\ order[p] = 0
      /\ state' = state /\ order' = order
      /\ refs' = [refs EXCEPT ![p] = @ + 1]
  BY DEF PageGet, Allocated
<1>2. /\ Holds(p) /\ refs[p] > 0 /\ refs[p] \in Nat
      /\ <<p, 0>> \in heldBlocks /\ shareCounts[p] = refs[p]
  BY <1>1, AllocatedIsHeld DEF heldBlocks, shareCounts, BuddyInv, TypeOK
<1>3. \A q \in Pages : Holds(q)' <=> Holds(q)
  BY <1>1, <1>2 DEF Holds, Allocated, BuddyInv, TypeOK
<1>4. heldBlocks' = heldBlocks
  BY <1>1, <1>3 DEF heldBlocks
<1>5. shareCounts' = [shareCounts EXCEPT ![p] = @ + 1]
  BY <1>1, <1>2, <1>3 DEF shareCounts, BuddyInv, TypeOK
<1>6. Promise!Share(p)
  BY <1>2, <1>4, <1>5 DEF Promise!Share, heldBlocks, shareCounts
<1> QED  BY <1>6 DEF Promise!Next, Promise!Pages, Pages

(* For every size of memory, the buddy allocator with its reference counts   *)
(* keeps the promise of FrameAlloc: a block is granted only while nobody has *)
(* any frame of it, and returns only with its last holder.                   *)
THEOREM ImplementsFrameAlloc ==
  ASSUME Preemptible = {} PROVE Spec => KeepsPromise
<1>1. Init => Promise!Init
  <2> SUFFICES ASSUME Init PROVE Promise!Init
    OBVIOUS
  <2>1. \A p \in Pages : ~Holds(p)
    BY DEF Init, Holds, Allocated
  <2> QED  BY <2>1 DEF Promise!Init, Promise!Pages, Pages
<1>2. BuddyInv /\ [Next]_vars => [Promise!Next]_(Promise!vars)
  <2> SUFFICES ASSUME BuddyInv, [Next]_vars
               PROVE  Promise!Next \/ UNCHANGED Promise!vars
    BY DEF Promise!vars
  <2>1. CASE UNCHANGED vars
    BY <2>1, Stutters DEF vars, frameVars, Holds, Allocated
  <2>2. CASE Next
    BY <2>2, QuietStutter, SplitStutter, MergeStutter, AddFreeStutter,
       ReturnGrants, PutStep, ShareStep DEF Next
  <2> QED  BY <2>1, <2>2
<1> QED
  BY <1>1, <1>2, BuddyInvariant, PTL DEF Spec, KeepsPromise, Promise!Spec

-----------------------------------------------------------------------------
(***************************************************************************)
(* The dynamic allocator (Heap), for every size of page, region and pools: *)
(* a byte has one holder, and nothing is lost.  The argument: a pointer    *)
(* that a caller holds is a chunk of its page's pool or the first byte of  *)
(* a block, and large enough for the size asked for (Held); a chunk is on  *)
(* its pool's list or held, and once (Kept, Lists, OneEach); the frame     *)
(* array says where each block ends (Blocks, Tails).  Chunks are multiples of a  *)
(* divisor of the page, so none crosses into the next chunk or page.       *)
(***************************************************************************)
AtChunk(x, i) ==
  /\ PageOf(x) \in HeapFrames /\ kind[PageOf(x)] = "CHUNK_PAGE" /\ pool[PageOf(x)] = i
  /\ (x % PageSize) % PoolSizes[i] = 0
ChunkAfter(x, i) ==
  /\ PageOf(x) \in HeapFrames /\ kind'[PageOf(x)] = "CHUNK_PAGE" /\ pool'[PageOf(x)] = i
  /\ (x % PageSize) % PoolSizes[i] = 0
OnList(x, i) == \E n \in 1 .. Len(list[i]) : list[i][n] = x

Lists == \A i \in Pools :
  /\ \A n \in 1 .. Len(list[i]) : AtChunk(list[i][n], i)
  /\ \A m, n \in 1 .. Len(list[i]) : list[i][m] = list[i][n] => m = n
HoldsChunk(a, i) == AtChunk(a.ptr, i) /\ a.size <= PoolSizes[i] /\ ~OnList(a.ptr, i)
HoldsBlock(a, p) ==
  a.ptr = p * PageSize /\ kind[p] = "ALLOC_HEAD" /\ a.size <= Span[frameOrder[p]] * PageSize
Rightly(a) == \/ \E i \in Pools : HoldsChunk(a, i)
              \/ \E p \in HeapFrames : HoldsBlock(a, p)
Held == \A a \in live : Rightly(a)
OneEach == \A a, b \in live : a.ptr = b.ptr => a = b
BlockWhole(p) ==
  /\ frameOrder[p] \in HeapOrders /\ Run(p, frameOrder[p]) \subseteq HeapFrames
  /\ \A q \in Run(p, frameOrder[p]) : q # p => kind[q] = "ALLOC_TAIL"
  /\ \E a \in live : a.ptr = p * PageSize
Blocks == \A p \in HeapFrames : kind[p] = "ALLOC_HEAD" => BlockWhole(p)
Tails == \A q \in HeapFrames : kind[q] = "ALLOC_TAIL" =>
  \E p \in HeapFrames : kind[p] = "ALLOC_HEAD" /\ q \in Run(p, frameOrder[p])
ChunkOf(x, p) == PageOf(x) = p /\ (x % PageSize) % PoolSizes[pool[p]] = 0
KeptAt(p) == kind[p] = "CHUNK_PAGE" =>
  /\ pool[p] \in Pools
  /\ \A x \in Int : ChunkOf(x, p) => OnList(x, pool[p]) \/ \E a \in live : a.ptr = x
Kept == \A p \in HeapFrames : KeptAt(p)
HeapInv == HeapTypeOK /\ Lists /\ Held /\ OneEach /\ Blocks /\ Tails /\ Kept

-----------------------------------------------------------------------------
(* Division.                                                                 *)
LEMMA Divide ==
  ASSUME NEW a \in Int, NEW b \in Nat \ {0}
  PROVE  /\ a = b * (a \div b) + (a % b) /\ a \div b \in Int /\ a % b \in 0 .. b - 1
         /\ a \in Nat => a \div b \in Nat
<1>1. a = b * (a \div b) + (a % b) /\ a \div b \in Int /\ a % b \in 0 .. b - 1
  OBVIOUS
<1>2. a \in Nat => a \div b \in Nat
  OBVIOUS
<1> QED BY <1>1, <1>2

LEMMA Quotient ==
  ASSUME NEW p \in Int, NEW b \in Nat \ {0}, NEW r \in 0 .. b - 1
  PROVE  (p * b + r) \div b = p /\ (p * b + r) % b = r
OBVIOUS

LEMMA Larger ==
  ASSUME NEW x \in Int, NEW y \in Int, x <= y, NEW b \in Nat
  PROVE  x * b <= y * b
OBVIOUS

(* Multiples of a divisor of a page: what begins at one ends in the page,    *)
(* and before the next.                                                      *)
LEMMA MultiplesApart ==
  ASSUME NEW d \in Nat \ {0}, NEW x \in Int, NEW y \in Int, x % d = 0, y % d = 0, x < y
  PROVE  x + d <= y
<1>1. x = d * (x \div d) /\ y = d * (y \div d) /\ x \div d \in Int /\ y \div d \in Int
  BY Divide
<1>2. x \div d < y \div d
  <2>1. SUFFICES ASSUME y \div d <= x \div d PROVE FALSE
    BY <1>1
  <2>2. (y \div d) * d <= (x \div d) * d
    BY <1>1, <2>1, Larger
  <2> QED BY <1>1, <2>2
<1>3. ((x \div d) + 1) * d <= (y \div d) * d
  BY <1>1, <1>2, Larger
<1>4. ((x \div d) + 1) * d = d * (x \div d) + d
  BY <1>1
<1> QED BY <1>1, <1>3, <1>4

LEMMA Sized == PageSize \in Nat \ {0} /\ HeapPages \in Nat /\ HeapOrder \in Nat
BY HeapAssumption

LEMMA Between ==
  ASSUME NEW b \in Nat \ {0}, NEW p \in Int, NEW x \in Int, p * b <= x, x < p * b + b
  PROVE  x \div b = p /\ x % b = x - p * b
<1> DEFINE r == x - p * b
<1>1. p * b \in Int
  OBVIOUS
<1>2. r \in 0 .. b - 1 /\ x = p * b + r
  BY <1>1
<1> HIDE DEF r
<1>3. (p * b + r) \div b = p /\ (p * b + r) % b = r
  BY <1>2, Quotient
<1>4. x \div b = p /\ x % b = r
  BY <1>2, <1>3
<1> QED BY <1>4 DEF r

LEMMA PageIs ==
  ASSUME NEW p \in Int, NEW x \in Int, p * PageSize <= x, x < p * PageSize + PageSize
  PROVE  PageOf(x) = p /\ x % PageSize = x - p * PageSize
BY Between, Sized DEF PageOf

LEMMA InPage ==
  ASSUME NEW x \in Int
  PROVE  /\ PageOf(x) \in Int /\ x % PageSize \in 0 .. PageSize - 1
         /\ x = PageOf(x) * PageSize + (x % PageSize)
<1>1. x = PageSize * PageOf(x) + (x % PageSize) /\ PageOf(x) \in Int /\ x % PageSize \in 0 .. PageSize - 1
  BY Divide, Sized DEF PageOf
<1>2. PageSize * PageOf(x) = PageOf(x) * PageSize
  BY <1>1, Sized
<1> QED BY <1>1, <1>2

LEMMA BaseOf ==
  ASSUME NEW p \in Int
  PROVE  PageOf(p * PageSize) = p /\ (p * PageSize) % PageSize = 0 /\ p * PageSize \in Int
<1>1. p * PageSize \in Int
  BY Sized
<1>2. p * PageSize < p * PageSize + PageSize /\ p * PageSize - p * PageSize = 0
  BY <1>1, Sized
<1> QED BY <1>1, <1>2, PageIs

(* A byte is in the region iff its page is.                                  *)
LEMMA Bytes ==
  ASSUME NEW x \in Int
  PROVE  PageOf(x) \in HeapFrames <=> x \in 0 .. HeapPages * PageSize - 1
<1> DEFINE p == PageOf(x)
           r == x % PageSize
           base == p * PageSize
           all == HeapPages * PageSize
<1>1. p \in Int /\ r \in 0 .. PageSize - 1 /\ x = base + r /\ base \in Int /\ all \in Int
  BY InPage, Sized
<1>2. 0 <= p => 0 <= base
  <2>1. 0 <= p => 0 * PageSize <= p * PageSize
    BY <1>1, Larger, Sized
  <2>2. 0 * PageSize = 0
    BY Sized
  <2> QED BY <2>1, <2>2
<1>3. p + 1 <= 0 => base + PageSize <= 0
  <2>1. p + 1 <= 0 => (p + 1) * PageSize <= 0 * PageSize
    <3> HIDE DEF p
    <3> QED BY <1>1, Larger, Sized
  <2>2. 0 * PageSize = 0 /\ (p + 1) * PageSize = base + PageSize
    <3> HIDE DEF p
    <3> QED BY <1>1, Sized
  <2> QED BY <2>1, <2>2
<1>4. p + 1 <= HeapPages => base + PageSize <= all
  <2>1. p + 1 <= HeapPages => (p + 1) * PageSize <= HeapPages * PageSize
    <3> HIDE DEF p
    <3> QED BY <1>1, Larger, Sized
  <2>2. (p + 1) * PageSize = base + PageSize
    <3> HIDE DEF p
    <3> QED BY <1>1, Sized
  <2> QED BY <2>1, <2>2
<1>5. HeapPages <= p => all <= base
  BY <1>1, Larger, Sized
<1> HIDE DEF base, r, all, p
<1>6. p \in HeapFrames <=> 0 <= p /\ p + 1 <= HeapPages
  BY <1>1, Sized DEF HeapFrames
<1>7. x \in 0 .. all - 1 <=> 0 <= x /\ x < all
  BY <1>1
<1>8. PageSize \in Nat \ {0}
  BY Sized
<1>9. (0 <= p /\ p + 1 <= HeapPages) <=> (0 <= x /\ x < all)
  <2>1. 0 <= p /\ p + 1 <= HeapPages => 0 <= x /\ x < all
    BY <1>1, <1>2, <1>4, <1>8
  <2>2. 0 <= x /\ x < all => 0 <= p /\ p + 1 <= HeapPages
    BY <1>1, <1>3, <1>5, <1>8, Sized
  <2> QED BY <2>1, <2>2
<1> QED BY <1>6, <1>7, <1>9 DEF p, all

-----------------------------------------------------------------------------
(* Pools and orders.                                                         *)
LEMMA PoolFacts ==
  ASSUME NEW i \in Pools
  PROVE  PoolSizes[i] \in Nat \ {0} /\ PageSize % PoolSizes[i] = 0 /\ PoolSizes[i] <= PageSize
         /\ i \in Nat \ {0}
<1>1. PoolSizes[i] \in Nat \ {0} /\ PageSize % PoolSizes[i] = 0 /\ PageSize \in Nat \ {0} /\ i \in Nat \ {0}
  BY HeapAssumption DEF Pools
<1>2. 0 % PoolSizes[i] = 0
  BY <1>1
<1> QED BY <1>1, <1>2, MultiplesApart

LEMMA MinIs ==
  ASSUME NEW X \in SUBSET Nat, X # {}
  PROVE  Min(X) \in X /\ \A x \in X : Min(X) <= x
<1>1. PICK n \in X : \A other \in X : <<other, n>> \notin OpToRel(<, Nat)
  <2>1. X \subseteq Nat /\ X # {}
    OBVIOUS
  <2> QED BY <2>1, WFMin, NatLessThanWellFounded
<1>2. OpToRel(<, Nat) = {pair \in Nat \X Nat : pair[1] < pair[2]}
  BY Zenon DEF OpToRel
<1>3. ASSUME NEW x \in X
      PROVE  n <= x
  <2>1. n \in Nat /\ x \in Nat
    OBVIOUS
  <2>2. <<x, n>> \notin {pair \in Nat \X Nat : pair[1] < pair[2]}
    BY <1>1, <1>2
  <2> QED BY <2>1, <2>2
<1> QED BY <1>3 DEF Min

(* pick_pool_id: the pool's chunks are large enough; and the block granted   *)
(* to a request for pages is, unless the addition wraps.                     *)
LEMMA PoolPicked ==
  ASSUME NEW size \in Nat, PickPool(size) # 0
  PROVE  PickPool(size) \in Pools /\ size <= PoolSizes[PickPool(size)]
<1> DEFINE fit == {i \in Pools : size <= PoolSizes[i]}
<1>1. fit \in SUBSET Nat
  BY PoolFacts
<1>2. fit # {} /\ PickPool(size) = Min(fit)
  BY DEF PickPool
<1>3. Min(fit) \in fit
  <2> HIDE DEF fit
  <2> QED BY <1>1, <1>2, MinIs
<1> QED BY <1>2, <1>3

LEMMA OrderPicked ==
  ASSUME NoWrap, NEW size \in Sizes, OrdersFor(size) # {}
  PROVE  /\ OrderFor(size) \in HeapOrders /\ Span[OrderFor(size)] \in Nat \ {0}
         /\ size <= Span[OrderFor(size)] * PageSize
<1> DEFINE k == OrderFor(size)
           all == size + PageSize - 1
           n == all \div PageSize
<1>1. size \in Nat /\ Word \in Nat /\ all \in Nat /\ all < Word /\ PageSize \in Nat \ {0}
  BY HeapAssumption DEF NoWrap
<1>2. all % Word = all
  <2>1. 0 * Word = 0 /\ 0 + Word = Word /\ all - 0 = all /\ Word \in Nat \ {0} /\ all \in Int
    BY <1>1
  <2> HIDE DEF all
  <2> QED BY <1>1, <2>1, Between
<1>3. PagesFor(size) = n
  BY <1>2 DEF PagesFor
<1>4. k \in HeapOrders /\ n <= Span[k]
  <2>1. OrdersFor(size) \in SUBSET Nat
    BY Sized DEF OrdersFor, HeapOrders
  <2>2. k \in OrdersFor(size)
    BY <2>1, MinIs DEF OrderFor
  <2> QED BY <1>3, <2>2 DEF OrdersFor
<1>5. Span[k] \in Nat \ {0}
  BY <1>4, HeapAssumption
<1>6. all = PageSize * n + (all % PageSize) /\ n \in Int /\ all % PageSize \in 0 .. PageSize - 1
  BY <1>1, Divide
<1>7. n * PageSize <= Span[k] * PageSize
  <2> HIDE DEF n, k
  <2> QED BY <1>1, <1>4, <1>5, <1>6, Larger
<1>8. PageSize * n = n * PageSize /\ n * PageSize \in Int /\ Span[k] * PageSize \in Int
  <2> HIDE DEF n, k
  <2> QED BY <1>1, <1>5, <1>6
<1>9. size <= n * PageSize
  <2> DEFINE whole == n * PageSize
             rest == all % PageSize
  <2>1. size + PageSize - 1 = whole + rest /\ rest <= PageSize - 1 /\ whole \in Int /\ rest \in Int
    BY <1>1, <1>6, <1>8
  <2> HIDE DEF whole, rest
  <2>2. size <= whole
    BY <1>1, <2>1
  <2> QED BY <2>2 DEF whole
<1>10. size <= Span[k] * PageSize
  <2> HIDE DEF n, k
  <2> QED BY <1>1, <1>7, <1>8, <1>9
<1> QED BY <1>4, <1>5, <1>10

-----------------------------------------------------------------------------
(* What the invariant says of one grant.                                     *)
LEMMA HolderOf ==
  ASSUME HeapInv, NEW b \in live
  PROVE  /\ b.ptr \in Int /\ b.size \in Nat /\ b.size \in Sizes /\ PageOf(b.ptr) \in HeapFrames
         /\ kind[PageOf(b.ptr)] \in {"CHUNK_PAGE", "ALLOC_HEAD"}
         /\ kind[PageOf(b.ptr)] = "CHUNK_PAGE" =>
              pool[PageOf(b.ptr)] \in Pools /\ HoldsChunk(b, pool[PageOf(b.ptr)])
         /\ kind[PageOf(b.ptr)] = "ALLOC_HEAD" => HoldsBlock(b, PageOf(b.ptr))
<1>1. b.ptr \in 0 .. HeapPages * PageSize - 1 /\ b.size \in Sizes /\ HeapPages * PageSize \in Int
  BY Sized DEF HeapInv, HeapTypeOK
<1>2. b.ptr \in Int /\ b.size \in Nat
  <2>1. b.ptr \in Int
    <3> DEFINE all == HeapPages * PageSize
    <3>1. b.ptr \in 0 .. all - 1 /\ all \in Int
      BY <1>1
    <3> HIDE DEF all
    <3> QED BY <3>1
  <2>2. Sizes \subseteq Nat
    BY HeapAssumption
  <2> QED BY <1>1, <2>1, <2>2
<1>3. PageOf(b.ptr) \in HeapFrames
  BY <1>1, <1>2, Bytes
<1>4. CASE \E i \in Pools : HoldsChunk(b, i)
  BY <1>1, <1>2, <1>3, <1>4 DEF HoldsChunk, AtChunk
<1>5. CASE \E p \in HeapFrames : HoldsBlock(b, p)
  <2>1. PICK p \in HeapFrames : HoldsBlock(b, p)
    BY <1>5
  <2>2. PageOf(b.ptr) = p
    BY <2>1, BaseOf, Sized DEF HoldsBlock, HeapFrames
  <2> QED BY <1>1, <1>2, <1>3, <2>1, <2>2 DEF HoldsBlock
<1> QED BY <1>4, <1>5 DEF HeapInv, Held, Rightly

Same(p) == kind'[p] = kind[p] /\ pool'[p] = pool[p] /\ frameOrder'[p] = frameOrder[p]

(* A grant stays what it is when its page does and its pointer is put on no  *)
(* list.                                                                     *)
LEMMA StillHeld ==
  ASSUME HeapInv, NEW b \in live, Same(PageOf(b.ptr)),
         \A i \in Pools : OnList(b.ptr, i)' => OnList(b.ptr, i)
  PROVE  Rightly(b)'
<1> DEFINE p == PageOf(b.ptr)
<1>1. p \in HeapFrames
  BY HolderOf
<1>2. CASE kind[p] = "CHUNK_PAGE"
  <2>1. pool[p] \in Pools /\ HoldsChunk(b, pool[p])
    BY <1>2, HolderOf
  <2> QED BY <2>1 DEF Same, HoldsChunk, AtChunk, Rightly
<1>3. CASE kind[p] = "ALLOC_HEAD"
  <2>1. HoldsBlock(b, p)
    BY <1>3, HolderOf
  <2> QED BY <1>1, <2>1 DEF Same, HoldsBlock, Rightly
<1> QED BY <1>2, <1>3, HolderOf

LEMMA RunFacts ==
  ASSUME NEW p \in HeapFrames, NEW k \in HeapOrders
  PROVE  p \in Run(p, k) /\ Run(p, k) \subseteq Int
<1>1. p \in Int /\ Span[k] \in Nat \ {0}
  BY Sized, HeapAssumption DEF HeapFrames
<1> QED BY <1>1 DEF Run

(* The pages of two blocks are apart.                                        *)
LEMMA RunsApart ==
  ASSUME HeapInv, NEW p \in HeapFrames, NEW q \in HeapFrames, p # q,
         kind[p] = "ALLOC_HEAD", kind[q] = "ALLOC_HEAD"
  PROVE  Run(p, frameOrder[p]) \cap Run(q, frameOrder[q]) = {}
<1> DEFINE m == Span[frameOrder[p]]
           n == Span[frameOrder[q]]
<1>1. BlockWhole(p) /\ BlockWhole(q)
  BY DEF HeapInv, Blocks
<1>2. p \in Int /\ q \in Int /\ m \in Nat /\ n \in Nat
  BY <1>1, Sized, HeapAssumption DEF BlockWhole, HeapFrames
<1>3. q \notin Run(p, frameOrder[p]) /\ p \notin Run(q, frameOrder[q])
  BY <1>1 DEF BlockWhole
<1>4. ~(p <= q /\ q <= p + m - 1) /\ ~(q <= p /\ p <= q + n - 1)
  <2> HIDE DEF m, n
  <2>1. (p <= q /\ q <= p + m - 1 => q \in p .. p + m - 1) /\ (q <= p /\ p <= q + n - 1 => p \in q .. q + n - 1)
    BY <1>2
  <2> QED BY <1>3, <2>1 DEF Run, m, n
<1>5. (p .. p + m - 1) \cap (q .. q + n - 1) = {}
  <2> HIDE DEF m, n
  <2> QED BY <1>2, <1>4
<1> QED BY <1>5 DEF Run

-----------------------------------------------------------------------------
(* The steps.                                                                *)
LEMMA HeapInitInv == HeapInit => HeapInv
<1> SUFFICES ASSUME HeapInit PROVE HeapInv
  OBVIOUS
<1>1. HeapTypeOK
  BY HeapAssumption DEF HeapInit, HeapTypeOK
<1>2. Lists
  BY DEF HeapInit, Lists
<1>3. Held /\ OneEach /\ Blocks /\ Tails /\ Kept
  BY DEF HeapInit, Held, OneEach, Blocks, Tails, Kept, KeptAt
<1> QED BY <1>1, <1>2, <1>3 DEF HeapInv

LEMMA Popped ==
  ASSUME NEW S, NEW q \in Seq(S), q # <<>>
  PROVE  /\ Len(q) \in Nat \ {0} /\ Head(q) = q[1] /\ Head(q) \in S
         /\ Tail(q) \in Seq(S) /\ Len(Tail(q)) = Len(q) - 1
         /\ \A n \in 1 .. Len(q) - 1 : Tail(q)[n] = q[n + 1]
OBVIOUS

LEMMA Pushed ==
  ASSUME NEW S, NEW q \in Seq(S), NEW x \in S
  PROVE  /\ Len(q) \in Nat /\ <<x>> \o q \in Seq(S) /\ Len(<<x>> \o q) = Len(q) + 1
         /\ (<<x>> \o q)[1] = x
         /\ \A n \in 2 .. Len(q) + 1 : (<<x>> \o q)[n] = q[n - 1]
OBVIOUS

(* Whatever a pointer is granted for the first time for is a grant of it.    *)
LEMMA Granted ==
  ASSUME NEW ptr, NEW size, \A a \in live : a.ptr # ptr
  PROVE  /\ Grant(ptr, size).ptr = ptr /\ Grant(ptr, size).size = size
         /\ Grant(ptr, size) = [ptr |-> ptr, size |-> size, nth |-> Grant(ptr, size).nth]
         /\ Grant(ptr, size).nth \in Handles
<1> DEFINE Other(n) == \A a \in live : ~(a.ptr = ptr /\ a.size = size /\ a.nth = n)
<1>1. \E n \in Handles : Other(n)
  BY HeapAssumption
<1>2. (CHOOSE n \in Handles : Other(n)) \in Handles
  <2> HIDE DEF Other
  <2> QED BY <1>1
<1>3. Grant(ptr, size) = [ptr |-> ptr, size |-> size, nth |-> CHOOSE n \in Handles : Other(n)]
  BY DEF Grant
<1> HIDE DEF Other
<1> QED BY <1>2, <1>3

LEMMA AllocChunkStep ==
  ASSUME HeapInv, NEW size \in Sizes, AllocChunk(size)
  PROVE  HeapInv'
<1> DEFINE i == PickPool(size)
<1>1. i \in Pools /\ size <= PoolSizes[i] /\ size \in Nat /\ list[i] # <<>>
  BY PoolPicked, HeapAssumption DEF AllocChunk, Small
<1>2. PICK h : h = Head(list[i])
  OBVIOUS
<1>3. /\ list \in [Pools -> Seq(0 .. HeapPages * PageSize - 1)]
      /\ list[i] \in Seq(0 .. HeapPages * PageSize - 1)
  BY <1>1 DEF HeapInv, HeapTypeOK
<1>4. /\ Len(list[i]) \in Nat \ {0} /\ h = list[i][1] /\ h \in 0 .. HeapPages * PageSize - 1
      /\ Tail(list[i]) \in Seq(0 .. HeapPages * PageSize - 1)
      /\ Len(Tail(list[i])) = Len(list[i]) - 1
      /\ \A n \in 1 .. Len(list[i]) - 1 : Tail(list[i])[n] = list[i][n + 1]
  <2> HIDE DEF i
  <2> QED BY <1>1, <1>2, <1>3, Popped
<1>5. /\ list' = [list EXCEPT ![i] = Tail(list[i])] /\ live' = live \cup {Grant(h, size)}
      /\ kind' = kind /\ pool' = pool /\ frameOrder' = frameOrder
  BY <1>2 DEF AllocChunk
<1> HIDE DEF i
<1>6. /\ list' \in [Pools -> Seq(0 .. HeapPages * PageSize - 1)]
      /\ Len(list'[i]) = Len(list[i]) - 1
      /\ \A n \in 1 .. Len(list[i]) - 1 : list'[i][n] = list[i][n + 1]
      /\ \A j \in Pools : j # i => list'[j] = list[j]
  BY <1>1, <1>3, <1>4, <1>5
<1>8. /\ \A n \in 1 .. Len(list[i]) : AtChunk(list[i][n], i)
      /\ \A m, n \in 1 .. Len(list[i]) : list[i][m] = list[i][n] => m = n
  BY <1>1 DEF HeapInv, Lists
<1>9. AtChunk(h, i) /\ ~OnList(h, i)'
  <2>1. AtChunk(h, i)
    BY <1>4, <1>8
  <2>2. ASSUME NEW n \in 1 .. Len(list'[i])
        PROVE  list'[i][n] # h
    <3> DEFINE all == Len(list[i])
    <3>1. all \in Nat \ {0} /\ n \in 1 .. all - 1
      BY <1>4, <1>6
    <3> HIDE DEF all
    <3>2. n + 1 \in 1 .. all /\ 1 \in 1 .. all /\ n + 1 # 1
      BY <3>1
    <3>3. list'[i][n] = list[i][n + 1]
      BY <1>6, <3>1 DEF all
    <3> QED BY <1>4, <1>8, <3>2, <3>3 DEF all
  <2> QED BY <2>1, <2>2 DEF OnList
<1>10. ASSUME NEW j \in Pools
       PROVE  /\ \A x : OnList(x, j)' => OnList(x, j)
              /\ \A n \in 1 .. Len(list'[j]) : AtChunk(list'[j][n], j)
              /\ \A m, n \in 1 .. Len(list'[j]) : list'[j][m] = list'[j][n] => m = n
  <2>1. CASE j # i
    BY <1>6, <2>1 DEF OnList, HeapInv, Lists
  <2>2. CASE j = i
    <3>1. \A n \in 1 .. Len(list'[i]) : n + 1 \in 1 .. Len(list[i]) /\ list'[i][n] = list[i][n + 1]
      BY <1>4, <1>6
    <3>2. \A n \in 1 .. Len(list'[i]) : AtChunk(list'[i][n], i)
      BY <1>8, <3>1
    <3>3. \A m, n \in 1 .. Len(list'[i]) : list'[i][m] = list'[i][n] => m = n
      <4>1. SUFFICES ASSUME NEW m \in 1 .. Len(list'[i]), NEW n \in 1 .. Len(list'[i]), list'[i][m] = list'[i][n]
                     PROVE  m = n
        OBVIOUS
      <4>2. m + 1 = n + 1
        BY <1>8, <3>1, <4>1
      <4> QED BY <1>4, <1>6, <4>2
    <3>4. \A x : OnList(x, i)' => OnList(x, i)
      BY <3>1 DEF OnList
    <3> QED BY <2>2, <3>2, <3>3, <3>4
  <2> QED BY <2>1, <2>2
<1>11. Lists'
  BY <1>5, <1>10 DEF Lists, AtChunk
<1>12. \A b \in live : b.ptr # h
  <2>1. SUFFICES ASSUME NEW b \in live, b.ptr = h PROVE FALSE
    OBVIOUS
  <2>2. kind[PageOf(h)] = "CHUNK_PAGE" /\ pool[PageOf(h)] = i
    BY <1>9 DEF AtChunk
  <2>3. HoldsChunk(b, i)
    BY <2>1, <2>2, HolderOf
  <2>4. OnList(h, i)
    BY <1>4 DEF OnList
  <2> QED BY <2>1, <2>3, <2>4 DEF HoldsChunk
<1>13. ASSUME NEW b \in live
       PROVE  Rightly(b)'
  <2>1. Same(PageOf(b.ptr))
    BY <1>5 DEF Same
  <2> QED BY <1>10, <2>1, StillHeld
<1>21. PICK g : g = Grant(h, size)
  OBVIOUS
<1>7. g.ptr = h /\ g.size = size /\ g = [ptr |-> h, size |-> size, nth |-> g.nth] /\ g.nth \in Handles
  BY <1>12, <1>21, Granted
<1>14. Rightly(g)'
  <2>1. AtChunk(h, i)'
    BY <1>5, <1>9 DEF AtChunk
  <2> QED BY <1>1, <1>7, <1>9, <2>1 DEF Rightly, HoldsChunk
<1>18. HeapTypeOK'
  <2>1. g \in [ptr : 0 .. HeapPages * PageSize - 1, size : Sizes, nth : Handles]
    BY <1>4, <1>7
  <2>2. live' = live \cup {g}
    BY <1>5, <1>21
  <2> QED BY <1>5, <1>6, <2>1, <2>2 DEF HeapInv, HeapTypeOK
<1>19. ASSUME NEW q \in HeapFrames, kind'[q] = "CHUNK_PAGE"
       PROVE  KeptAt(q)'
  <2>1. /\ pool[q] \in Pools /\ pool'[q] = pool[q]
        /\ \A x \in Int : ChunkOf(x, q) => OnList(x, pool[q]) \/ \E a \in live : a.ptr = x
    BY <1>5, <1>19 DEF HeapInv, Kept, KeptAt
  <2>2. SUFFICES ASSUME NEW x \in Int, ChunkOf(x, q)
                 PROVE  OnList(x, pool[q])' \/ \E a \in live' : a.ptr = x
    BY <1>5, <2>1 DEF ChunkOf, KeptAt
  <2>3. CASE \E a \in live : a.ptr = x
    BY <1>5, <2>3
  <2>4. CASE OnList(x, pool[q]) /\ pool[q] # i
    BY <1>6, <2>1, <2>4 DEF OnList
  <2>5. CASE OnList(x, i) /\ pool[q] = i
    <3>1. PICK n \in 1 .. Len(list[i]) : list[i][n] = x
      BY <2>5 DEF OnList
    <3>2. CASE n = 1
      <4>1. g \in live' /\ g.ptr = x
        BY <1>4, <1>5, <1>7, <1>21, <3>1, <3>2
      <4> QED BY <4>1
    <3>3. CASE n # 1
      <4>1. n - 1 \in 1 .. Len(list'[i]) /\ list'[i][n - 1] = x
        BY <1>4, <1>6, <3>1, <3>3
      <4> QED BY <1>5, <2>5, <4>1 DEF OnList
    <3> QED BY <3>2, <3>3
  <2> QED BY <2>1, <2>2, <2>3, <2>4, <2>5
<1>20. Kept'
  BY <1>19 DEF Kept, KeptAt
<1>15. Held'
  BY <1>5, <1>13, <1>14, <1>21 DEF Held
<1>16. OneEach'
  BY <1>5, <1>7, <1>12, <1>21 DEF HeapInv, OneEach
<1>17. Blocks' /\ Tails'
  BY <1>5 DEF HeapInv, Blocks, BlockWhole, Tails
<1> QED BY <1>11, <1>15, <1>16, <1>17, <1>18, <1>20 DEF HeapInv

(* pool_refill: the chunks of a page lie in it, at multiples of their size,  *)
(* each once, and all of them.                                               *)
LEMMA ChunksAre ==
  ASSUME NEW p \in HeapFrames, NEW i \in Pools
  PROVE  /\ Chunks(p, i) \in Seq(0 .. HeapPages * PageSize - 1) /\ Chunks(p, i) # <<>>
         /\ \A n \in 1 .. Len(Chunks(p, i)) :
              PageOf(Chunks(p, i)[n]) = p /\ (Chunks(p, i)[n] % PageSize) % PoolSizes[i] = 0
         /\ \A m, n \in 1 .. Len(Chunks(p, i)) : Chunks(p, i)[m] = Chunks(p, i)[n] => m = n
         /\ \A x \in Int : PageOf(x) = p /\ (x % PageSize) % PoolSizes[i] = 0 =>
              \E n \in 1 .. Len(Chunks(p, i)) : Chunks(p, i)[n] = x
<1> DEFINE d == PoolSizes[i]
           t == PageSize \div d
           c == Chunks(p, i)
<1>1. d \in Nat \ {0} /\ PageSize \in Nat \ {0} /\ PageSize % d = 0 /\ d <= PageSize /\ p \in Int
  BY PoolFacts, Sized DEF HeapFrames
<1>2. PageSize = d * t /\ t \in Nat
  <2>1. PageSize = d * t + (PageSize % d) /\ t \in Nat
    <3> HIDE DEF d
    <3> QED BY <1>1, Divide
  <2>2. d * t \in Int
    <3> HIDE DEF d, t
    <3> QED BY <1>1, <2>1
  <2> QED BY <1>1, <2>1, <2>2
<1>3. t # 0
  BY <1>1, <1>2
<1> HIDE DEF d, t
<1>4. ASSUME NEW n \in 1 .. t
      PROVE  /\ n * d \in Int /\ d <= n * d /\ n * d <= PageSize
             /\ (PageSize - n * d) % d = 0
  <2>1. n \in Int /\ 1 <= n /\ n <= t /\ t \in Int
    BY <1>2
  <2>2. n * d \in Int /\ 1 * d <= n * d /\ n * d <= t * d
    BY <1>1, <2>1, Larger
  <2>3. 1 * d = d /\ t * d = PageSize
    BY <1>1, <1>2
  <2>4. PageSize - n * d = (t - n) * d + 0
    BY <1>1, <1>2, <2>1
  <2>5. ((t - n) * d + 0) % d = 0
    <3>1. t - n \in Int /\ 0 \in 0 .. d - 1
      BY <1>1, <2>1
    <3> QED BY <1>1, <3>1, Quotient
  <2> QED BY <2>2, <2>3, <2>4, <2>5
<1>5. c = [n \in 1 .. t |-> (p + 1) * PageSize - n * d]
  BY DEF c, Chunks, t, d
<1>6. (p + 1) * PageSize = p * PageSize + PageSize /\ p * PageSize \in Int
  BY <1>1
<1>7. ASSUME NEW n \in 1 .. t
      PROVE  /\ c[n] \in Int /\ c[n] = p * PageSize + (PageSize - n * d)
             /\ PageOf(c[n]) = p /\ c[n] % PageSize = PageSize - n * d
             /\ (c[n] % PageSize) % d = 0
  <2> DEFINE base == p * PageSize
             step == n * d
  <2>1. step \in Int /\ d <= step /\ step <= PageSize /\ (PageSize - step) % d = 0 /\ base \in Int
    BY <1>4, <1>6
  <2>2. c[n] = base + PageSize - step
    <3> DEFINE big == (p + 1) * PageSize
    <3>1. c[n] = big - step /\ big = base + PageSize
      BY <1>5, <1>6
    <3> HIDE DEF big, base, step
    <3>2. c[n] = base + PageSize - step
      BY <1>1, <2>1, <3>1
    <3> QED BY <3>2
  <2> HIDE DEF base, step
  <2>3. /\ c[n] \in Int /\ c[n] = base + (PageSize - step) /\ base <= c[n]
        /\ c[n] < base + PageSize /\ c[n] - base = PageSize - step
    BY <1>1, <2>1, <2>2
  <2>4. PageOf(c[n]) = p /\ c[n] % PageSize = c[n] - base
    BY <1>1, <2>3, PageIs DEF base
  <2> QED BY <2>1, <2>3, <2>4 DEF base, step
<1>8. c \in Seq(0 .. HeapPages * PageSize - 1) /\ Len(c) = t
  <2>1. \A n \in 1 .. t : c[n] \in 0 .. HeapPages * PageSize - 1
    BY <1>7, Bytes
  <2>2. c = [n \in 1 .. t |-> c[n]]
    BY <1>5
  <2> DEFINE S == 0 .. HeapPages * PageSize - 1
  <2> HIDE DEF S, c
  <2>3. c = [n \in 1 .. t |-> c[n]] /\ \A n \in 1 .. t : c[n] \in S
    BY <2>1, <2>2 DEF S
  <2>4. c \in [1 .. t -> S]
    BY <2>3
  <2>5. c \in Seq(S) /\ Len(c) = t
    BY <1>2, <2>4
  <2> QED BY <2>5 DEF S
<1>9. ASSUME NEW m \in 1 .. t, NEW n \in 1 .. t, c[m] = c[n]
      PROVE  m = n
  <2> DEFINE a == m * d
             b == n * d
  <2>1. a \in Int /\ b \in Int /\ PageSize - a = PageSize - b
    BY <1>4, <1>7, <1>9
  <2> HIDE DEF a, b
  <2>2. a = b
    BY <1>1, <2>1
  <2>3. m \in Int /\ n \in Int
    BY <1>2
  <2> QED BY <1>1, <2>2, <2>3 DEF a, b
<1>10. c # <<>>
  BY <1>2, <1>3, <1>8
<1>11. \A n \in 1 .. t : PageOf(c[n]) = p /\ (c[n] % PageSize) % d = 0
  BY <1>7
<1>12. \A m, n \in 1 .. t : c[m] = c[n] => m = n
  BY <1>9
<1>13. ASSUME NEW x \in Int, PageOf(x) = p, (x % PageSize) % d = 0
       PROVE  \E n \in 1 .. t : c[n] = x
  <2> DEFINE o == x % PageSize
             m == o \div d
             base == p * PageSize
  <2>1. o \in 0 .. PageSize - 1 /\ x = base + o /\ o % d = 0
    BY <1>13, InPage
  <2>2. o \in Int /\ o \in Nat
    BY <1>1, <2>1
  <2>3. o = d * m + (o % d) /\ m \in Int /\ m \in Nat
    <3> HIDE DEF o
    <3> QED BY <1>1, <2>2, Divide
  <2> HIDE DEF o, m, base
  <2>4. o = m * d
    BY <1>1, <2>1, <2>3
  <2>5. m < t
    <3>1. SUFFICES ASSUME t <= m PROVE FALSE
      BY <1>2, <2>3
    <3>2. t * d <= m * d
      BY <1>1, <1>2, <2>3, <3>1, Larger
    <3>3. t * d = PageSize
      BY <1>1, <1>2
    <3> QED BY <1>1, <2>1, <2>4, <3>2, <3>3
  <2>6. t - m \in 1 .. t /\ (t - m) * d = PageSize - o
    <3>1. (t - m) * d = t * d - m * d /\ t * d = PageSize
      BY <1>1, <1>2, <2>3
    <3> QED BY <1>2, <2>3, <2>4, <2>5, <3>1
  <2>7. c[t - m] = base + (PageSize - (PageSize - o))
    BY <1>7, <2>6 DEF base
  <2>8. PageSize - (PageSize - o) = o
    BY <1>1, <2>2
  <2> QED BY <2>1, <2>6, <2>7, <2>8
<1> QED BY <1>8, <1>10, <1>11, <1>12, <1>13 DEF c, d

LEMMA AllocRefillStep ==
  ASSUME HeapInv, NEW size \in Sizes, NEW p \in HeapFrames, AllocRefill(size, p)
  PROVE  HeapInv'
<1> DEFINE i == PickPool(size)
           c == Chunks(p, i)
           Bound == 0 .. HeapPages * PageSize - 1
<1>1. i \in Pools /\ size <= PoolSizes[i] /\ size \in Nat /\ list[i] = <<>>
  BY PoolPicked, HeapAssumption DEF AllocRefill, Small
<1>2. /\ c \in Seq(Bound) /\ c # <<>>
      /\ \A n \in 1 .. Len(c) : PageOf(c[n]) = p /\ (c[n] % PageSize) % PoolSizes[i] = 0
      /\ \A m, n \in 1 .. Len(c) : c[m] = c[n] => m = n
      /\ \A x \in Int : PageOf(x) = p /\ (x % PageSize) % PoolSizes[i] = 0 =>
           \E n \in 1 .. Len(c) : c[n] = x
  BY <1>1, ChunksAre
<1>3. kind[p] = "FREE" /\ 0 \in HeapOrders
  BY RunFacts, Sized DEF AllocRefill, Grantable, HeapOrders
<1>4. /\ list' = [list EXCEPT ![i] = Tail(c)] /\ live' = live \cup {Grant(c[1], size)}
      /\ kind' = [kind EXCEPT ![p] = "CHUNK_PAGE"] /\ pool' = [pool EXCEPT ![p] = i]
      /\ frameOrder' = [frameOrder EXCEPT ![p] = 0]
  BY DEF AllocRefill
<1>5. /\ Len(c) \in Nat \ {0} /\ c[1] \in Bound /\ Tail(c) \in Seq(Bound)
      /\ Len(Tail(c)) = Len(c) - 1 /\ \A n \in 1 .. Len(c) - 1 : Tail(c)[n] = c[n + 1]
  <2> HIDE DEF c, Bound
  <2> QED BY <1>2, Popped
<1> HIDE DEF c, i
<1>6. /\ list \in [Pools -> Seq(Bound)] /\ live \subseteq [ptr : Bound, size : Sizes, nth : Handles]
      /\ kind \in [HeapFrames -> {"FREE", "ALLOC_HEAD", "ALLOC_TAIL", "CHUNK_PAGE"}]
      /\ pool \in [HeapFrames -> Pools \cup {0}]
      /\ frameOrder \in [HeapFrames -> HeapOrders \cup {-1}]
  BY DEF HeapInv, HeapTypeOK
<1> HIDE DEF Bound
<1>7. /\ list' \in [Pools -> Seq(Bound)] /\ list'[i] = Tail(c)
      /\ \A j \in Pools : j # i => list'[j] = list[j]
  BY <1>1, <1>4, <1>5, <1>6
<1>8. /\ kind' \in [HeapFrames -> {"FREE", "ALLOC_HEAD", "ALLOC_TAIL", "CHUNK_PAGE"}]
      /\ kind'[p] = "CHUNK_PAGE" /\ pool'[p] = i
      /\ \A q \in HeapFrames : q # p => Same(q)
  BY <1>4, <1>6 DEF Same
<1>10. ASSUME NEW x, PageOf(x) = p, (x % PageSize) % PoolSizes[i] = 0
       PROVE  ChunkAfter(x, i)
  BY <1>8, <1>10 DEF ChunkAfter
<1>11. ASSUME NEW x, NEW j \in Pools, AtChunk(x, j)
       PROVE  ChunkAfter(x, j) /\ PageOf(x) # p
  BY <1>3, <1>8, <1>11 DEF AtChunk, ChunkAfter, Same
<1>12. \A n \in 1 .. Len(Tail(c)) : n + 1 \in 1 .. Len(c) /\ Tail(c)[n] = c[n + 1]
  BY <1>5
<1>13. ASSUME NEW j \in Pools
       PROVE  /\ \A n \in 1 .. Len(list'[j]) : ChunkAfter(list'[j][n], j)
              /\ \A m, n \in 1 .. Len(list'[j]) : list'[j][m] = list'[j][n] => m = n
  <2>1. CASE j # i
    <3>1. list'[j] = list[j]
      BY <1>7, <2>1
    <3>2. \A n \in 1 .. Len(list[j]) : AtChunk(list[j][n], j)
      BY DEF HeapInv, Lists
    <3>3. \A m, n \in 1 .. Len(list[j]) : list[j][m] = list[j][n] => m = n
      BY DEF HeapInv, Lists
    <3> QED BY <1>11, <3>1, <3>2, <3>3
  <2>2. CASE j = i
    <3>1. \A n \in 1 .. Len(Tail(c)) : ChunkAfter(Tail(c)[n], i)
      BY <1>2, <1>10, <1>12
    <3>2. \A m, n \in 1 .. Len(Tail(c)) : Tail(c)[m] = Tail(c)[n] => m = n
      <4>1. SUFFICES ASSUME NEW m \in 1 .. Len(Tail(c)), NEW n \in 1 .. Len(Tail(c)), Tail(c)[m] = Tail(c)[n]
                     PROVE  m = n
        OBVIOUS
      <4>2. m + 1 = n + 1
        BY <1>2, <1>12, <4>1
      <4> QED BY <1>5, <4>2
    <3>3. list'[j] = Tail(c)
      BY <1>7, <2>2
    <3>4. \A n \in 1 .. Len(list'[j]) : ChunkAfter(list'[j][n], j)
      BY <2>2, <3>1, <3>3
    <3>5. \A m, n \in 1 .. Len(list'[j]) : list'[j][m] = list'[j][n] => m = n
      <4> HIDE DEF i
      <4> QED BY <3>2, <3>3
    <3> QED BY <3>4, <3>5
  <2> QED BY <2>1, <2>2
<1>14. Lists'
  BY <1>13 DEF Lists, AtChunk, ChunkAfter
<1>15. ASSUME NEW b \in live
       PROVE  Rightly(b)' /\ PageOf(b.ptr) # p
  <2>1. PageOf(b.ptr) \in HeapFrames /\ PageOf(b.ptr) # p
    BY <1>3, HolderOf
  <2>2. ASSUME NEW j \in Pools, OnList(b.ptr, j)'
        PROVE  OnList(b.ptr, j)
    <3>1. j # i
      <4>1. SUFFICES ASSUME j = i PROVE FALSE
        OBVIOUS
      <4>2. PICK n \in 1 .. Len(Tail(c)) : Tail(c)[n] = b.ptr
        BY <1>7, <2>2, <4>1 DEF OnList
      <4> QED BY <1>2, <1>12, <2>1, <4>2
    <3> QED BY <1>7, <2>2, <3>1 DEF OnList
  <2> QED BY <1>8, <2>1, <2>2, StillHeld
<1>16. PageOf(c[1]) = p /\ (c[1] % PageSize) % PoolSizes[i] = 0
  BY <1>2, <1>5
<1>27. PICK g : g = Grant(c[1], size)
  OBVIOUS
<1>24. g.ptr = c[1] /\ g.size = size /\ g = [ptr |-> c[1], size |-> size, nth |-> g.nth] /\ g.nth \in Handles
  <2>1. \A b \in live : b.ptr # c[1]
    BY <1>15, <1>16
  <2> HIDE DEF c
  <2> QED BY <1>27, <2>1, Granted
<1>9. HeapTypeOK'
  <2>1. pool' \in [HeapFrames -> Pools \cup {0}] /\ frameOrder' \in [HeapFrames -> HeapOrders \cup {-1}]
    BY <1>1, <1>3, <1>4, <1>6
  <2>2. g \in [ptr : Bound, size : Sizes, nth : Handles]
    BY <1>5, <1>24
  <2>3. live' \subseteq [ptr : Bound, size : Sizes, nth : Handles]
    BY <1>4, <1>6, <1>27, <2>2
  <2> QED BY <1>7, <1>8, <2>1, <2>3 DEF HeapTypeOK, Bound
<1>25. ASSUME NEW q \in HeapFrames, kind'[q] = "CHUNK_PAGE"
       PROVE  KeptAt(q)'
  <2>1. CASE q = p
    <3>1. SUFFICES ASSUME NEW x \in Int, PageOf(x) = p, (x % PageSize) % PoolSizes[i] = 0
                   PROVE  OnList(x, i)' \/ \E a \in live' : a.ptr = x
      BY <1>1, <1>8, <2>1 DEF ChunkOf, KeptAt
    <3>2. PICK n \in 1 .. Len(c) : c[n] = x
      BY <1>2, <3>1
    <3>3. CASE n = 1
      <4>1. g \in live' /\ g.ptr = x
        BY <1>4, <1>24, <1>27, <3>2, <3>3
      <4> QED BY <4>1
    <3>4. CASE n # 1
      <4>1. n - 1 \in 1 .. Len(Tail(c)) /\ Tail(c)[n - 1] = x
        BY <1>5, <3>2, <3>4
      <4>2. n - 1 \in 1 .. Len(list'[i]) /\ list'[i][n - 1] = x
        BY <1>7, <4>1
      <4> QED BY <4>2 DEF OnList
    <3> QED BY <3>3, <3>4
  <2>2. CASE q # p
    <3>1. Same(q) /\ kind[q] = "CHUNK_PAGE" /\ pool'[q] = pool[q]
      BY <1>8, <1>25, <2>2 DEF Same
    <3>2. /\ pool[q] \in Pools
          /\ \A x \in Int : ChunkOf(x, q) => OnList(x, pool[q]) \/ \E a \in live : a.ptr = x
      BY <3>1 DEF HeapInv, Kept, KeptAt
    <3>3. SUFFICES ASSUME NEW x \in Int, ChunkOf(x, q)
                   PROVE  OnList(x, pool[q])' \/ \E a \in live' : a.ptr = x
      BY <3>1, <3>2 DEF ChunkOf, KeptAt
    <3>4. CASE \E a \in live : a.ptr = x
      BY <1>4, <3>4
    <3>5. CASE OnList(x, pool[q]) /\ pool[q] # i
      BY <1>7, <3>1, <3>2, <3>5 DEF OnList
    <3>6. ~(OnList(x, i) /\ pool[q] = i)
      <4>1. Len(list[i]) = 0
        BY <1>1
      <4> QED BY <4>1 DEF OnList
    <3> QED BY <3>1, <3>2, <3>3, <3>4, <3>5, <3>6
  <2> QED BY <2>1, <2>2
<1>26. Kept'
  BY <1>25 DEF Kept, KeptAt
<1>17. Rightly(g)'
  <2>1. ChunkAfter(c[1], i)
    BY <1>10, <1>16
  <2>2. ASSUME NEW n \in 1 .. Len(list'[i])
        PROVE  list'[i][n] # c[1]
    <3>1. n + 1 \in 1 .. Len(c) /\ 1 \in 1 .. Len(c) /\ n + 1 # 1 /\ list'[i][n] = c[n + 1]
      BY <1>5, <1>7, <1>12
    <3> QED BY <1>2, <3>1
  <2>3. ~OnList(c[1], i)'
    BY <2>2 DEF OnList
  <2> QED BY <1>1, <1>24, <2>1, <2>3 DEF Rightly, HoldsChunk, AtChunk, ChunkAfter
<1>18. Held'
  BY <1>4, <1>15, <1>17, <1>27 DEF Held
<1>19. OneEach'
  <2>1. \A b \in live : b.ptr # c[1]
    BY <1>15, <1>16
  <2> QED BY <1>4, <1>24, <1>27, <2>1 DEF HeapInv, OneEach
<1>20. ASSUME NEW q \in HeapFrames, kind'[q] = "ALLOC_HEAD"
       PROVE  BlockWhole(q)'
  <2>1. q # p /\ kind[q] = "ALLOC_HEAD" /\ frameOrder'[q] = frameOrder[q]
    BY <1>8, <1>20 DEF Same
  <2>2. BlockWhole(q)
    BY <2>1 DEF HeapInv, Blocks
  <2>3. \A r \in Run(q, frameOrder[q]) : r # q => kind'[r] = "ALLOC_TAIL"
    <3>1. \A r \in Run(q, frameOrder[q]) : r # q => r \in HeapFrames /\ kind[r] = "ALLOC_TAIL"
      BY <2>2 DEF BlockWhole
    <3> QED BY <1>3, <1>8, <3>1 DEF Same
  <2> QED BY <1>4, <2>1, <2>2, <2>3 DEF BlockWhole
<1>21. Blocks'
  BY <1>20 DEF Blocks
<1>22. ASSUME NEW q \in HeapFrames, kind'[q] = "ALLOC_TAIL"
       PROVE  \E r \in HeapFrames : kind'[r] = "ALLOC_HEAD" /\ q \in Run(r, frameOrder'[r])
  <2>1. kind[q] = "ALLOC_TAIL"
    BY <1>8, <1>22 DEF Same
  <2>2. PICK r \in HeapFrames : kind[r] = "ALLOC_HEAD" /\ q \in Run(r, frameOrder[r])
    BY <2>1 DEF HeapInv, Tails
  <2>3. Same(r)
    BY <1>3, <1>8, <2>2
  <2> QED BY <2>2, <2>3 DEF Same
<1>23. Tails'
  BY <1>22 DEF Tails
<1> QED BY <1>9, <1>14, <1>18, <1>19, <1>21, <1>23, <1>26 DEF HeapInv

LEMMA AllocPagesStep ==
  ASSUME NoWrap, HeapInv, NEW size \in Sizes, NEW p \in HeapFrames, AllocPages(size, p)
  PROVE  HeapInv'
<1> DEFINE k == OrderFor(size)
           R == Run(p, k)
           Bound == 0 .. HeapPages * PageSize - 1
<1>21. PICK new : new = Grant(p * PageSize, size)
  OBVIOUS
<1>1. k \in HeapOrders /\ size <= Span[k] * PageSize
  BY OrderPicked DEF AllocPages
<1>2. p \in R /\ R \subseteq HeapFrames /\ \A q \in R : kind[q] = "FREE"
  <2> HIDE DEF k
  <2>1. p \in Run(p, k)
    BY <1>1, RunFacts
  <2> QED BY <2>1 DEF AllocPages, Grantable, k
<1>3. /\ kind' = [q \in HeapFrames |-> IF q = p THEN "ALLOC_HEAD"
                                   ELSE IF q \in R THEN "ALLOC_TAIL"
                                   ELSE kind[q]]
      /\ frameOrder' = [frameOrder EXCEPT ![p] = k]
      /\ live' = live \cup {new} /\ list' = list /\ pool' = pool
  BY <1>21 DEF AllocPages
<1>4. /\ list \in [Pools -> Seq(Bound)] /\ live \subseteq [ptr : Bound, size : Sizes, nth : Handles]
      /\ kind \in [HeapFrames -> {"FREE", "ALLOC_HEAD", "ALLOC_TAIL", "CHUNK_PAGE"}]
      /\ pool \in [HeapFrames -> Pools \cup {0}]
      /\ frameOrder \in [HeapFrames -> HeapOrders \cup {-1}]
  BY DEF HeapInv, HeapTypeOK
<1>5. PageOf(p * PageSize) = p /\ p * PageSize \in Bound
  <2>1. p \in Int
    BY Sized DEF HeapFrames
  <2>2. PageOf(p * PageSize) = p /\ p * PageSize \in Int
    BY <2>1, BaseOf
  <2> QED BY <2>2, Bytes
<1> HIDE DEF k, Bound
<1>6. /\ kind'[p] = "ALLOC_HEAD" /\ frameOrder'[p] = k
      /\ \A q \in R : q # p => kind'[q] = "ALLOC_TAIL"
      /\ \A q \in HeapFrames : q \notin R => Same(q)
  BY <1>2, <1>3, <1>4 DEF Same
<1> HIDE DEF R
<1>8. ASSUME NEW x, NEW j \in Pools, AtChunk(x, j)
      PROVE  ChunkAfter(x, j)
  BY <1>2, <1>6, <1>8 DEF AtChunk, ChunkAfter, Same
<1>9. Lists'
  BY <1>3, <1>8 DEF HeapInv, Lists, AtChunk, ChunkAfter
<1>10. ASSUME NEW b \in live
       PROVE  Rightly(b)' /\ PageOf(b.ptr) # p
  <2>1. PageOf(b.ptr) \in HeapFrames /\ PageOf(b.ptr) \notin R
    BY <1>2, HolderOf
  <2>2. \A j \in Pools : OnList(b.ptr, j)' => OnList(b.ptr, j)
    BY <1>3 DEF OnList
  <2> QED BY <1>2, <1>6, <2>1, <2>2, StillHeld
<1>18. /\ new.ptr = p * PageSize /\ new.size = size /\ new.nth \in Handles
       /\ new = [ptr |-> p * PageSize, size |-> size, nth |-> new.nth]
  <2>1. \A b \in live : b.ptr # p * PageSize
    BY <1>5, <1>10
  <2> QED BY <1>21, <2>1, Granted
<1>7. HeapTypeOK'
  <2>1. kind' \in [HeapFrames -> {"FREE", "ALLOC_HEAD", "ALLOC_TAIL", "CHUNK_PAGE"}]
    BY <1>3, <1>4
  <2>2. frameOrder' \in [HeapFrames -> HeapOrders \cup {-1}]
    BY <1>1, <1>3, <1>4
  <2>3. new \in [ptr : Bound, size : Sizes, nth : Handles]
    BY <1>5, <1>18
  <2>4. live' \subseteq [ptr : Bound, size : Sizes, nth : Handles]
    BY <1>3, <1>4, <2>3
  <2> QED BY <1>3, <1>4, <2>1, <2>2, <2>4 DEF HeapTypeOK, Bound
<1>19. ASSUME NEW q \in HeapFrames, kind'[q] = "CHUNK_PAGE"
       PROVE  KeptAt(q)'
  <2>1. kind[q] = "CHUNK_PAGE"
    <3>1. q \notin R
      BY <1>6, <1>19
    <3> QED BY <1>6, <1>19, <3>1 DEF Same
  <2>2. /\ pool[q] \in Pools /\ pool' = pool
        /\ \A x \in Int : ChunkOf(x, q) => OnList(x, pool[q]) \/ \E a \in live : a.ptr = x
    BY <1>3, <2>1 DEF HeapInv, Kept, KeptAt
  <2> QED BY <1>3, <2>2 DEF ChunkOf, OnList, KeptAt
<1>20. Kept'
  BY <1>19 DEF Kept, KeptAt
<1>11. Rightly(new)'
  <2>1. HoldsBlock(new, p)'
    BY <1>1, <1>6, <1>18 DEF HoldsBlock
  <2> QED BY <2>1 DEF Rightly
<1>12. Held'
  BY <1>3, <1>10, <1>11 DEF Held
<1>13. OneEach'
  <2>1. \A b \in live : b.ptr # p * PageSize
    BY <1>5, <1>10
  <2> QED BY <1>3, <1>18, <2>1 DEF HeapInv, OneEach
<1>14. ASSUME NEW q \in HeapFrames, kind'[q] = "ALLOC_HEAD"
       PROVE  BlockWhole(q)'
  <2>1. CASE q = p
    <3>1. new \in live' /\ new.ptr = p * PageSize
      BY <1>3, <1>18
    <3> QED BY <1>1, <1>2, <1>6, <2>1, <3>1 DEF BlockWhole, R
  <2>2. CASE q # p
    <3>1. q \notin R /\ kind[q] = "ALLOC_HEAD" /\ frameOrder'[q] = frameOrder[q]
      BY <1>6, <1>14, <2>2 DEF Same
    <3>2. BlockWhole(q)
      BY <3>1 DEF HeapInv, Blocks
    <3>3. \A r \in Run(q, frameOrder[q]) : r # q => kind'[r] = "ALLOC_TAIL"
      <4>1. \A r \in Run(q, frameOrder[q]) : r # q => r \in HeapFrames /\ kind[r] = "ALLOC_TAIL"
        BY <3>2 DEF BlockWhole
      <4> QED BY <1>2, <1>6, <4>1 DEF Same
    <3> QED BY <1>3, <3>1, <3>2, <3>3 DEF BlockWhole
  <2> QED BY <2>1, <2>2
<1>15. Blocks'
  BY <1>14 DEF Blocks
<1>16. ASSUME NEW q \in HeapFrames, kind'[q] = "ALLOC_TAIL"
       PROVE  \E r \in HeapFrames : kind'[r] = "ALLOC_HEAD" /\ q \in Run(r, frameOrder'[r])
  <2>1. CASE q \in R
    BY <1>6, <2>1 DEF R
  <2>2. CASE q \notin R
    <3>1. kind[q] = "ALLOC_TAIL"
      BY <1>6, <1>16, <2>2 DEF Same
    <3>2. PICK r \in HeapFrames : kind[r] = "ALLOC_HEAD" /\ q \in Run(r, frameOrder[r])
      BY <3>1 DEF HeapInv, Tails
    <3>3. Same(r)
      BY <1>2, <1>6, <3>2
    <3> QED BY <3>2, <3>3 DEF Same
  <2> QED BY <2>1, <2>2
<1>17. Tails'
  BY <1>16 DEF Tails
<1> QED BY <1>7, <1>9, <1>12, <1>13, <1>15, <1>17, <1>20 DEF HeapInv

(* chunk_free_ptr: the pointer goes back to the list its page's pool names.  *)
LEMMA FreeChunkStep ==
  ASSUME HeapInv, NEW a \in live, FreeChunk(a)
  PROVE  HeapInv'
<1> DEFINE Bound == 0 .. HeapPages * PageSize - 1
<1>0. PICK i : i = pool[PageOf(a.ptr)]
  OBVIOUS
<1>1. PICK h : h = a.ptr
  OBVIOUS
<1>2. i \in Pools /\ AtChunk(h, i) /\ ~OnList(h, i)
  BY <1>0, <1>1, HolderOf DEF FreeChunk, IsChunk, HoldsChunk
<1>3. /\ list' = [list EXCEPT ![i] = <<h>> \o list[i]] /\ live' = live \ {a}
      /\ kind' = kind /\ pool' = pool /\ frameOrder' = frameOrder
  BY <1>0, <1>1 DEF FreeChunk
<1>4. list \in [Pools -> Seq(Bound)] /\ live \subseteq [ptr : Bound, size : Sizes, nth : Handles] /\ h \in Bound
  BY <1>1 DEF HeapInv, HeapTypeOK
<1>5. list[i] \in Seq(Bound)
  BY <1>2, <1>4
<1> HIDE DEF Bound
<1>6. /\ Len(list[i]) \in Nat /\ <<h>> \o list[i] \in Seq(Bound) /\ Len(<<h>> \o list[i]) = Len(list[i]) + 1
      /\ (<<h>> \o list[i])[1] = h
      /\ \A n \in 2 .. Len(list[i]) + 1 : (<<h>> \o list[i])[n] = list[i][n - 1]
  BY <1>4, <1>5, Pushed
<1>7. /\ list' \in [Pools -> Seq(Bound)] /\ Len(list'[i]) = Len(list[i]) + 1 /\ list'[i][1] = h
      /\ \A n \in 2 .. Len(list[i]) + 1 : list'[i][n] = list[i][n - 1]
      /\ \A j \in Pools : j # i => list'[j] = list[j]
  BY <1>2, <1>3, <1>4, <1>6
<1>8. HeapTypeOK'
  BY <1>3, <1>7 DEF HeapInv, HeapTypeOK, Bound
<1>9. \A n \in 1 .. Len(list'[i]) : \/ n = 1 /\ list'[i][n] = h
                                    \/ n # 1 /\ n - 1 \in 1 .. Len(list[i]) /\ list'[i][n] = list[i][n - 1]
  BY <1>6, <1>7
<1>10. /\ \A n \in 1 .. Len(list[i]) : AtChunk(list[i][n], i) /\ list[i][n] # h
       /\ \A m, n \in 1 .. Len(list[i]) : list[i][m] = list[i][n] => m = n
  BY <1>2 DEF HeapInv, Lists, OnList
<1>11. ASSUME NEW j \in Pools
       PROVE  /\ \A n \in 1 .. Len(list'[j]) : AtChunk(list'[j][n], j)
              /\ \A m, n \in 1 .. Len(list'[j]) : list'[j][m] = list'[j][n] => m = n
              /\ \A x : OnList(x, j)' => OnList(x, j) \/ x = h
  <2>1. CASE j # i
    BY <1>7, <2>1 DEF HeapInv, Lists, OnList
  <2>2. CASE j = i
    <3>1. \A n \in 1 .. Len(list'[i]) : AtChunk(list'[i][n], i)
      BY <1>2, <1>9, <1>10
    <3>2. \A m, n \in 1 .. Len(list'[i]) : list'[i][m] = list'[i][n] => m = n
      <4>1. SUFFICES ASSUME NEW m \in 1 .. Len(list'[i]), NEW n \in 1 .. Len(list'[i]), list'[i][m] = list'[i][n]
                     PROVE  m = n
        OBVIOUS
      <4>2. \/ m = 1 /\ list'[i][m] = h
            \/ m # 1 /\ m - 1 \in 1 .. Len(list[i]) /\ list'[i][m] = list[i][m - 1]
        BY <1>9
      <4>3. \/ n = 1 /\ list'[i][n] = h
            \/ n # 1 /\ n - 1 \in 1 .. Len(list[i]) /\ list'[i][n] = list[i][n - 1]
        BY <1>9
      <4>4. CASE m # 1 /\ n # 1
        <5>1. m - 1 = n - 1
          BY <1>10, <4>1, <4>2, <4>3, <4>4
        <5> QED BY <1>6, <1>7, <5>1
      <4>5. CASE m = 1 \/ n = 1
        BY <1>10, <4>1, <4>2, <4>3, <4>5
      <4> QED BY <4>4, <4>5
    <3>3. \A x : OnList(x, i)' => OnList(x, i) \/ x = h
      BY <1>9 DEF OnList
    <3> QED BY <2>2, <3>1, <3>2, <3>3
  <2> QED BY <2>1, <2>2
<1>12. Lists'
  BY <1>3, <1>11 DEF Lists, AtChunk
<1>13. ASSUME NEW b \in live', b \in live
       PROVE  Rightly(b)'
  <2>1. b.ptr # h
    BY <1>1, <1>3 DEF HeapInv, OneEach
  <2>2. Same(PageOf(b.ptr))
    BY <1>3 DEF Same
  <2>3. \A j \in Pools : OnList(b.ptr, j)' => OnList(b.ptr, j)
    BY <1>11, <2>1
  <2> QED BY <1>13, <2>2, <2>3, StillHeld
<1>14. Held'
  BY <1>3, <1>13 DEF Held
<1>15. OneEach'
  BY <1>3 DEF HeapInv, OneEach
<1>16. ASSUME NEW q \in HeapFrames, kind'[q] = "ALLOC_HEAD"
       PROVE  BlockWhole(q)'
  <2>1. BlockWhole(q)
    BY <1>3, <1>16 DEF HeapInv, Blocks
  <2>2. PICK b \in live : b.ptr = q * PageSize
    BY <2>1 DEF BlockWhole
  <2>3. b # a
    <3>1. PageOf(b.ptr) = q
      BY <2>2, BaseOf, Sized DEF HeapFrames
    <3> QED BY <1>1, <1>2, <1>3, <1>16, <3>1 DEF AtChunk
  <2> QED BY <1>3, <2>1, <2>2, <2>3 DEF BlockWhole
<1>17. Blocks' /\ Tails'
  BY <1>3, <1>16 DEF HeapInv, Blocks, Tails
<1>18. ASSUME NEW q \in HeapFrames, kind'[q] = "CHUNK_PAGE"
       PROVE  KeptAt(q)'
  <2>1. /\ pool[q] \in Pools /\ pool' = pool
        /\ \A x \in Int : ChunkOf(x, q) => OnList(x, pool[q]) \/ \E b \in live : b.ptr = x
    BY <1>3, <1>18 DEF HeapInv, Kept, KeptAt
  <2>2. SUFFICES ASSUME NEW x \in Int, ChunkOf(x, q)
                 PROVE  OnList(x, pool[q])' \/ \E b \in live' : b.ptr = x
    BY <2>1 DEF ChunkOf, KeptAt
  <2>3. CASE x = h
    <3>1. pool[q] = i
      BY <1>0, <1>1, <2>2, <2>3 DEF ChunkOf
    <3>2. 1 \in 1 .. Len(list'[i]) /\ list'[i][1] = x
      BY <1>6, <1>7, <2>3
    <3>3. OnList(x, i)'
      BY <3>2 DEF OnList
    <3> QED BY <3>1, <3>3, <1>3
  <2>4. CASE x # h /\ \E b \in live : b.ptr = x
    BY <1>1, <1>3, <2>4
  <2>5. CASE OnList(x, pool[q]) /\ pool[q] # i
    BY <1>7, <2>1, <2>5 DEF OnList
  <2>6. CASE OnList(x, i) /\ pool[q] = i
    <3>1. PICK n \in 1 .. Len(list[i]) : list[i][n] = x
      BY <2>6 DEF OnList
    <3>2. n + 1 \in 2 .. Len(list[i]) + 1 /\ n + 1 - 1 = n
      BY <1>6
    <3>3. n + 1 \in 1 .. Len(list'[i]) /\ list'[i][n + 1] = x
      BY <1>6, <1>7, <3>1, <3>2
    <3>4. OnList(x, i)'
      BY <3>3 DEF OnList
    <3> QED BY <2>6, <3>4, <1>3
  <2> QED BY <2>1, <2>2, <2>3, <2>4, <2>5, <2>6
<1>19. Kept'
  BY <1>18 DEF Kept, KeptAt
<1> QED BY <1>8, <1>12, <1>14, <1>15, <1>17, <1>19 DEF HeapInv

(* free() of a block: its pages, and those of no other, are free again.      *)
LEMMA FreePagesStep ==
  ASSUME HeapInv, NEW a \in live, FreePages(a)
  PROVE  HeapInv'
<1>0. PICK p : p = PageOf(a.ptr)
  OBVIOUS
<1>1. PICK R : R = Run(p, frameOrder[p])
  OBVIOUS
<1>2. p \in HeapFrames /\ kind[p] = "ALLOC_HEAD" /\ a.ptr = p * PageSize
  BY <1>0, HolderOf DEF FreePages, HoldsBlock
<1>3. /\ p \in R /\ R \subseteq HeapFrames
      /\ \A q \in R : q # p => kind[q] = "ALLOC_TAIL"
  BY <1>1, <1>2, RunFacts DEF HeapInv, Blocks, BlockWhole
<1>4. /\ kind' = [q \in HeapFrames |-> IF q \in R THEN "FREE" ELSE kind[q]]
      /\ frameOrder' = [frameOrder EXCEPT ![p] = -1]
      /\ live' = live \ {a} /\ list' = list /\ pool' = pool
  BY <1>0, <1>1 DEF FreePages
<1>5. /\ \A q \in R : kind'[q] = "FREE"
      /\ \A q \in HeapFrames : q \notin R => Same(q)
  BY <1>2, <1>3, <1>4 DEF HeapInv, HeapTypeOK, Same
<1>6. HeapTypeOK'
  <2>1. kind' \in [HeapFrames -> {"FREE", "ALLOC_HEAD", "ALLOC_TAIL", "CHUNK_PAGE"}]
    BY <1>4 DEF HeapInv, HeapTypeOK
  <2>2. frameOrder' \in [HeapFrames -> HeapOrders \cup {-1}]
    BY <1>4 DEF HeapInv, HeapTypeOK
  <2> QED BY <1>4, <2>1, <2>2 DEF HeapInv, HeapTypeOK
<1>7. ASSUME NEW x, NEW j \in Pools, AtChunk(x, j)
      PROVE  ChunkAfter(x, j)
  BY <1>2, <1>3, <1>5, <1>7 DEF AtChunk, ChunkAfter, Same
<1>8. Lists'
  BY <1>4, <1>7 DEF HeapInv, Lists, AtChunk, ChunkAfter
<1>9. ASSUME NEW q \in HeapFrames, q # p, kind[q] = "ALLOC_HEAD"
      PROVE  \A r \in Run(q, frameOrder[q]) : r \in HeapFrames /\ r \notin R
  BY <1>1, <1>2, <1>9, RunsApart DEF HeapInv, Blocks, BlockWhole
<1>10. ASSUME NEW b \in live, b # a
       PROVE  Rightly(b)'
  <2>1. PICK q \in HeapFrames : q = PageOf(b.ptr)
    BY HolderOf
  <2>2. CASE kind[q] = "CHUNK_PAGE"
    <3>1. Same(q)
      BY <1>2, <1>3, <1>5, <2>2
    <3> QED BY <1>4, <2>1, <3>1, StillHeld DEF OnList
  <2>3. CASE kind[q] = "ALLOC_HEAD"
    <3>1. b.ptr = q * PageSize
      BY <2>1, <2>3, HolderOf DEF HoldsBlock
    <3>2. q # p
      BY <1>2, <1>10, <3>1 DEF HeapInv, OneEach
    <3>3. Same(q)
      BY <1>3, <1>5, <2>3, <3>2
    <3> QED BY <1>4, <2>1, <3>3, StillHeld DEF OnList
  <2> QED BY <2>1, <2>2, <2>3, HolderOf
<1>11. Held'
  BY <1>4, <1>10 DEF Held
<1>12. OneEach'
  BY <1>4 DEF HeapInv, OneEach
<1>13. ASSUME NEW q \in HeapFrames, kind'[q] = "ALLOC_HEAD"
       PROVE  BlockWhole(q)'
  <2>1. q \notin R /\ q # p /\ kind[q] = "ALLOC_HEAD" /\ frameOrder'[q] = frameOrder[q]
    BY <1>3, <1>5, <1>13 DEF Same
  <2>2. BlockWhole(q)
    BY <2>1 DEF HeapInv, Blocks
  <2>3. \A r \in Run(q, frameOrder[q]) : r # q => kind'[r] = "ALLOC_TAIL"
    BY <1>5, <1>9, <2>1, <2>2 DEF BlockWhole, Same
  <2>4. PICK b \in live : b.ptr = q * PageSize
    BY <2>2 DEF BlockWhole
  <2>5. b # a
    <3>1. PageOf(b.ptr) = q
      BY <2>4, BaseOf, Sized DEF HeapFrames
    <3> QED BY <1>0, <2>1, <3>1
  <2> QED BY <1>4, <2>1, <2>2, <2>3, <2>4, <2>5 DEF BlockWhole
<1>14. Blocks'
  BY <1>13 DEF Blocks
<1>15. ASSUME NEW q \in HeapFrames, kind'[q] = "ALLOC_TAIL"
       PROVE  \E r \in HeapFrames : kind'[r] = "ALLOC_HEAD" /\ q \in Run(r, frameOrder'[r])
  <2>1. q \notin R /\ kind[q] = "ALLOC_TAIL"
    BY <1>5, <1>15 DEF Same
  <2>2. PICK r \in HeapFrames : kind[r] = "ALLOC_HEAD" /\ q \in Run(r, frameOrder[r])
    BY <2>1 DEF HeapInv, Tails
  <2>3. r # p
    BY <1>1, <2>1, <2>2
  <2>4. Same(r)
    BY <1>3, <1>5, <2>2, <2>3
  <2> QED BY <2>2, <2>4 DEF Same
<1>16. Tails'
  BY <1>15 DEF Tails
<1>17. ASSUME NEW q \in HeapFrames, kind'[q] = "CHUNK_PAGE"
       PROVE  KeptAt(q)'
  <2>1. kind[q] = "CHUNK_PAGE"
    <3>1. q \notin R
      BY <1>5, <1>17
    <3> QED BY <1>5, <1>17, <3>1 DEF Same
  <2>2. /\ pool[q] \in Pools
        /\ \A x \in Int : ChunkOf(x, q) => OnList(x, pool[q]) \/ \E b \in live : b.ptr = x
    BY <2>1 DEF HeapInv, Kept, KeptAt
  <2>3. ASSUME NEW x \in Int, ChunkOf(x, q)
        PROVE  x # a.ptr
    BY <1>0, <1>2, <2>1, <2>3 DEF ChunkOf
  <2>4. ASSUME NEW x \in Int, ChunkOf(x, q)
        PROVE  OnList(x, pool[q]) \/ \E b \in live' : b.ptr = x
    BY <1>4, <2>2, <2>3, <2>4
  <2> QED BY <1>4, <2>2, <2>4 DEF ChunkOf, OnList, KeptAt
<1>18. Kept'
  BY <1>17 DEF Kept, KeptAt
<1> QED BY <1>6, <1>8, <1>11, <1>12, <1>14, <1>16, <1>18 DEF HeapInv

LEMMA HeapStep ==
  ASSUME NoWrap, HeapInv, [HeapNext]_heapVars
  PROVE  HeapInv'
<1>1. CASE HeapNext
  BY <1>1, AllocChunkStep, AllocRefillStep, AllocPagesStep, FreeChunkStep, FreePagesStep DEF HeapNext
<1>2. CASE UNCHANGED heapVars
  BY <1>2 DEF heapVars, HeapInv, HeapTypeOK, Lists, AtChunk, Held, Rightly, HoldsChunk, HoldsBlock,
              OnList, OneEach, Blocks, BlockWhole, Tails, Kept, KeptAt, ChunkOf
<1> QED BY <1>1, <1>2

-----------------------------------------------------------------------------
(* What the invariant means.                                                 *)
LEMMA ChunkWithin ==
  ASSUME HeapInv, NEW a \in live, kind[PageOf(a.ptr)] = "CHUNK_PAGE", NEW x \in Used(a)
  PROVE  /\ x \in Int /\ PageOf(x) = PageOf(a.ptr)
         /\ a.ptr <= x /\ x < a.ptr + PoolSizes[pool[PageOf(a.ptr)]]
<1> DEFINE p == PageOf(a.ptr)
           base == p * PageSize
           r == a.ptr % PageSize
           d == PoolSizes[pool[p]]
<1>1. pool[p] \in Pools /\ r % d = 0 /\ a.size <= d /\ a.ptr \in Int /\ a.size \in Nat
  BY HolderOf DEF HoldsChunk, AtChunk
<1>2. d \in Nat \ {0} /\ PageSize % d = 0 /\ PageSize \in Nat \ {0}
  BY <1>1, PoolFacts, Sized
<1>3. p \in Int /\ r \in 0 .. PageSize - 1 /\ a.ptr = base + r /\ base \in Int
  <2>1. a.ptr \in Int
    BY <1>1
  <2>2. p \in Int /\ r \in 0 .. PageSize - 1 /\ a.ptr = base + r
    BY <2>1, InPage
  <2> HIDE DEF p
  <2> QED BY <1>2, <2>2
<1>4. r + d <= PageSize
  <2> HIDE DEF r, d
  <2> QED BY <1>1, <1>2, <1>3, MultiplesApart
<1>5. x \in Int /\ a.ptr <= x /\ x < a.ptr + d
  <2>1. x \in a.ptr .. a.ptr + a.size - 1
    BY DEF Used
  <2> HIDE DEF d
  <2> QED BY <1>1, <1>2, <2>1
<1>6. base <= x /\ x < base + PageSize
  <2> HIDE DEF r, d, base
  <2> QED BY <1>2, <1>3, <1>4, <1>5
<1>7. PageOf(x) = p
  <2> HIDE DEF p
  <2> QED BY <1>3, <1>5, <1>6, PageIs DEF base
<1> QED BY <1>5, <1>7

LEMMA BlockWithin ==
  ASSUME HeapInv, NEW a \in live, kind[PageOf(a.ptr)] = "ALLOC_HEAD", NEW x \in Used(a)
  PROVE  PageOf(x) \in Run(PageOf(a.ptr), frameOrder[PageOf(a.ptr)])
<1> DEFINE p == PageOf(a.ptr)
           q == PageOf(x)
           base == p * PageSize
           n == Span[frameOrder[p]]
           room == n * PageSize
           r == x % PageSize
<1>1. /\ a.ptr = base /\ a.size <= room /\ a.ptr \in Int /\ a.size \in Nat /\ p \in HeapFrames
      /\ frameOrder[p] \in HeapOrders
  BY HolderOf DEF HoldsBlock, HeapInv, Blocks, BlockWhole
<1>2. n \in Nat \ {0} /\ PageSize \in Nat \ {0} /\ p \in Int /\ room \in Int /\ base \in Int
  BY <1>1, Sized, HeapAssumption DEF HeapFrames
<1>3. x \in Int /\ base <= x /\ x < base + room
  <2>1. x \in a.ptr .. a.ptr + a.size - 1
    BY DEF Used
  <2> HIDE DEF room, base
  <2> QED BY <1>1, <1>2, <2>1
<1>4. q \in Int /\ r \in 0 .. PageSize - 1 /\ x = q * PageSize + r /\ q * PageSize \in Int
  BY <1>3, InPage, Sized
<1>5. p <= q
  <2>1. q + 1 <= p => (q + 1) * PageSize <= p * PageSize
    <3> HIDE DEF p, q
    <3> QED BY <1>2, <1>4, Larger
  <2>2. (q + 1) * PageSize = q * PageSize + PageSize
    <3> HIDE DEF q
    <3> QED BY <1>2, <1>4
  <2> DEFINE at == q * PageSize
  <2>3. q + 1 <= p => at + PageSize <= base
    BY <2>1, <2>2
  <2>4. at + PageSize > base
    <3>1. x = at + r /\ at \in Int
      BY <1>4
    <3> HIDE DEF at, base, r, q
    <3> QED BY <1>2, <1>3, <1>4, <3>1
  <2>5. ~(q + 1 <= p)
    <3>1. at \in Int
      BY <1>4
    <3> HIDE DEF at, base, q, p
    <3> QED BY <1>2, <2>3, <2>4, <3>1
  <2> HIDE DEF p, q
  <2> QED BY <1>2, <1>4, <2>5
<1>6. q < p + n
  <2>1. p + n <= q => (p + n) * PageSize <= q * PageSize
    <3> HIDE DEF p, q, n
    <3> QED BY <1>2, <1>4, Larger
  <2>2. (p + n) * PageSize = base + room
    <3> HIDE DEF p, n
    <3> QED BY <1>2 DEF base, room
  <2> DEFINE at == q * PageSize
  <2>3. p + n <= q => base + room <= at
    BY <2>1, <2>2
  <2>4. at < base + room
    <3>1. x = at + r /\ at \in Int
      BY <1>4
    <3> HIDE DEF at, base, room, r, q
    <3> QED BY <1>2, <1>3, <1>4, <3>1
  <2>5. ~(p + n <= q)
    <3>1. at \in Int
      BY <1>4
    <3> HIDE DEF at, base, room, q, p, n
    <3> QED BY <1>2, <2>3, <2>4, <3>1
  <2> HIDE DEF p, q, n
  <2> QED BY <1>2, <1>4, <2>5
<1>7. q \in p .. p + n - 1
  <2> HIDE DEF p, q, n
  <2> QED BY <1>2, <1>4, <1>5, <1>6
<1> QED BY <1>7 DEF Run

LEMMA InvApart == ASSUME HeapInv PROVE GrantsApart
<1>1. ASSUME NEW a \in live, NEW x \in Used(a)
      PROVE  /\ kind[PageOf(a.ptr)] = "CHUNK_PAGE" => PageOf(x) = PageOf(a.ptr)
             /\ kind[PageOf(a.ptr)] = "ALLOC_HEAD" =>
                  /\ PageOf(x) \in Run(PageOf(a.ptr), frameOrder[PageOf(a.ptr)])
                  /\ kind[PageOf(x)] \in {"ALLOC_HEAD", "ALLOC_TAIL"}
             /\ PageOf(x) \in HeapFrames /\ kind[PageOf(x)] # "FREE"
  <2>1. CASE kind[PageOf(a.ptr)] = "CHUNK_PAGE"
    BY <2>1, ChunkWithin, HolderOf
  <2>2. CASE kind[PageOf(a.ptr)] = "ALLOC_HEAD"
    <3>1. PageOf(x) \in Run(PageOf(a.ptr), frameOrder[PageOf(a.ptr)])
      BY <2>2, BlockWithin
    <3>2. BlockWhole(PageOf(a.ptr))
      BY <2>2, HolderOf DEF HeapInv, Blocks
    <3> QED BY <2>2, <3>1, <3>2 DEF BlockWhole
  <2> QED BY <2>1, <2>2, HolderOf
<1>2. ASSUME NEW a \in live, NEW b \in live, a # b, NEW x \in Used(a), x \in Used(b)
      PROVE  FALSE
  <2> DEFINE p == PageOf(a.ptr)
             q == PageOf(b.ptr)
  <2>1. a.ptr # b.ptr
    BY <1>2 DEF HeapInv, OneEach
  <2>2. CASE kind[p] = "CHUNK_PAGE" /\ kind[q] = "CHUNK_PAGE"
    <3> DEFINE d == PoolSizes[pool[p]]
    <3>1. p = q
      BY <1>1, <1>2, <2>2
    <3>2. /\ pool[p] \in Pools /\ a.ptr \in Int /\ b.ptr \in Int
          /\ (a.ptr % PageSize) % d = 0 /\ (b.ptr % PageSize) % d = 0
      BY <2>2, <3>1, HolderOf DEF HoldsChunk, AtChunk
    <3>3. x \in Int /\ a.ptr <= x /\ x < a.ptr + d /\ b.ptr <= x /\ x < b.ptr + d
      <4>1. x \in Int /\ a.ptr <= x /\ x < a.ptr + PoolSizes[pool[PageOf(a.ptr)]]
        BY <2>2, ChunkWithin
      <4>2. b.ptr <= x /\ x < b.ptr + PoolSizes[pool[PageOf(b.ptr)]]
        BY <1>2, <2>2, ChunkWithin
      <4> QED BY <3>1, <4>1, <4>2
    <3>4. PICK base \in Int, r \in Int, s \in Int :
            /\ r = a.ptr % PageSize /\ s = b.ptr % PageSize
            /\ a.ptr = base + r /\ b.ptr = base + s
      <4>1. ASSUME NEW y \in Int
            PROVE  y = PageOf(y) * PageSize + (y % PageSize) /\ y % PageSize \in Int /\ PageOf(y) \in Int
        <5>1. y % PageSize \in 0 .. PageSize - 1 /\ PageSize \in Int
          BY InPage, Sized
        <5> QED BY <5>1, InPage
      <4>2. a.ptr \in Int /\ b.ptr \in Int
        BY <3>2
      <4>3. p * PageSize \in Int
        <5>1. p \in Int
          BY <4>1, <4>2
        <5> HIDE DEF p
        <5> QED BY <5>1, Sized
      <4> QED BY <3>1, <4>1, <4>2, <4>3
    <3>5. d \in Nat \ {0}
      BY <3>2, PoolFacts
    <3> HIDE DEF d
    <3>6. r # s /\ r % d = 0 /\ s % d = 0
      BY <2>1, <3>2, <3>4
    <3>7. r < s => r + d <= s
      BY <3>4, <3>5, <3>6, MultiplesApart
    <3>8. s < r => s + d <= r
      BY <3>4, <3>5, <3>6, MultiplesApart
    <3> QED BY <3>3, <3>4, <3>5, <3>6, <3>7, <3>8
  <2>3. CASE kind[p] = "ALLOC_HEAD" /\ kind[q] = "ALLOC_HEAD"
    <3>1. /\ PageOf(x) \in Run(p, frameOrder[p]) /\ PageOf(x) \in Run(q, frameOrder[q])
      BY <1>1, <1>2, <2>3
    <3>2. p \in HeapFrames /\ q \in HeapFrames /\ a.ptr = p * PageSize /\ b.ptr = q * PageSize
      BY <2>3, HolderOf DEF HoldsBlock
    <3> QED BY <2>1, <2>3, <3>1, <3>2, RunsApart
  <2>4. CASE kind[p] # kind[q]
    BY <1>1, <1>2, <2>4, HolderOf
  <2> QED BY <2>2, <2>3, <2>4, HolderOf
<1> QED BY <1>1, <1>2 DEF GrantsApart

LEMMA InvNothingLeaks == ASSUME HeapInv PROVE NothingLeaks
<1>1. ASSUME NEW p \in HeapFrames, kind[p] \in {"ALLOC_HEAD", "ALLOC_TAIL"}
      PROVE  \E a \in live : /\ kind[PageOf(a.ptr)] = "ALLOC_HEAD"
                             /\ p \in Run(PageOf(a.ptr), frameOrder[PageOf(a.ptr)])
  <2>1. PICK q \in HeapFrames : kind[q] = "ALLOC_HEAD" /\ p \in Run(q, frameOrder[q])
    BY <1>1, RunFacts DEF HeapInv, Tails, Blocks, BlockWhole
  <2>2. PICK a \in live : a.ptr = q * PageSize
    BY <2>1 DEF HeapInv, Blocks, BlockWhole
  <2>3. PageOf(a.ptr) = q
    BY <2>2, BaseOf, Sized DEF HeapFrames
  <2> QED BY <2>1, <2>3
<1>2. ASSUME NEW i \in Pools
      PROVE  /\ DOMAIN list[i] = 1 .. Len(list[i])
             /\ \A n \in 1 .. Len(list[i]) : AtChunk(list[i][n], i)
  BY DEF HeapInv, HeapTypeOK, Lists
<1>3. ASSUME NEW p \in HeapFrames, kind[p] = "CHUNK_PAGE", NEW n \in DOMAIN Chunks(p, pool[p])
      PROVE  InList(Chunks(p, pool[p])[n], pool[p]) # HeldAt(Chunks(p, pool[p])[n])
  <2> DEFINE i == pool[p]
             c == Chunks(p, i)
  <2>1. PICK x : x = c[n]
    OBVIOUS
  <2>2. /\ i \in Pools
        /\ \A y \in Int : ChunkOf(y, p) => OnList(y, i) \/ \E a \in live : a.ptr = y
    BY <1>3 DEF HeapInv, Kept, KeptAt
  <2>3. /\ c \in Seq(0 .. HeapPages * PageSize - 1)
        /\ \A k \in 1 .. Len(c) : PageOf(c[k]) = p /\ (c[k] % PageSize) % PoolSizes[i] = 0
    BY <2>2, ChunksAre
  <2>4. n \in 1 .. Len(c)
    BY <1>3, <2>3
  <2>5. x \in 0 .. HeapPages * PageSize - 1 /\ PageOf(x) = p /\ (x % PageSize) % PoolSizes[i] = 0
    <3>1. PICK k : k = n
      OBVIOUS
    <3>2. k \in 1 .. Len(c) /\ x = c[k]
      BY <2>1, <2>4, <3>1
    <3> DEFINE S == 0 .. HeapPages * PageSize - 1
    <3>3. c \in Seq(S) /\ PageOf(c[k]) = p /\ (c[k] % PageSize) % PoolSizes[i] = 0
      BY <2>3, <3>2
    <3> HIDE DEF c, S
    <3>4. c[k] \in S
      BY <3>2, <3>3
    <3> QED BY <3>2, <3>3, <3>4 DEF S
  <2>6. x \in Int
    <3> DEFINE all == HeapPages * PageSize
    <3>1. all \in Int /\ x \in 0 .. all - 1
      BY <2>5, Sized
    <3> HIDE DEF all
    <3> QED BY <3>1
  <2> HIDE DEF c
  <2>7. OnList(x, i) \/ HeldAt(x)
    BY <2>2, <2>5, <2>6 DEF ChunkOf, HeldAt
  <2>8. ~(OnList(x, i) /\ HeldAt(x))
    <3>1. ASSUME NEW a \in live, a.ptr = x
          PROVE  ~OnList(x, i)
      BY <1>3, <2>5, <3>1, HolderOf DEF HoldsChunk
    <3> QED BY <3>1 DEF HeldAt
  <2>9. InList(x, i) = OnList(x, i)
    BY <1>2, <2>2 DEF InList, OnList
  <2>10. InList(x, i) # HeldAt(x)
    <3>1. InList(x, i) \in BOOLEAN /\ HeldAt(x) \in BOOLEAN
      BY DEF InList, HeldAt
    <3> QED BY <2>7, <2>8, <2>9, <3>1
  <2> QED BY <2>1, <2>10 DEF c
<1> QED BY <1>1, <1>2, <1>3 DEF NothingLeaks, AtChunk

(* No two callers hold the same byte, what a caller holds is in pages that   *)
(* are in use, and free() gives back all that alloc() gave.                  *)
THEOREM GrantsExact == ASSUME NoWrap PROVE HeapSpec => []HeapExact
<1>1. HeapInit => HeapInv
  BY HeapInitInv
<1>2. HeapInv /\ [HeapNext]_heapVars => HeapInv'
  BY HeapStep
<1>3. HeapInv => HeapExact
  BY InvApart, InvNothingLeaks DEF HeapExact
<1> QED BY <1>1, <1>2, <1>3, PTL DEF HeapSpec
=============================================================================
