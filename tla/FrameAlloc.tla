----------------------------- MODULE FrameAlloc -----------------------------
(***************************************************************************)
(* What the page frame allocator of mm.c promises to its callers: a block  *)
(* of 2^k frames is granted only while no frame of it is held by anybody   *)
(* or reserved, and it stays with its holders until each of them has put   *)
(* it back.  Nothing is said of free lists, splitting or merging.          *)
(***************************************************************************)
EXTENDS Integers

CONSTANTS
  NumPages,  \* frames of the managed region, 0 .. NumPages - 1
  MaxOrder,  \* the largest order of a block
  Size,      \* frames of a block of each order
  Reserved   \* frames nobody may be given

Pages == 0 .. NumPages - 1
Orders == 0 .. MaxOrder
Frames(i, k) == i .. i + Size[k] - 1

VARIABLES
  held,   \* the granted blocks: pairs of first frame and order
  shares  \* how many holders the block that starts at a frame has

vars == <<held, shares>>

Init == held = {} /\ shares = [p \in Pages |-> 0]

Grant(i, k) ==
  /\ Frames(i, k) \subseteq Pages
  /\ Frames(i, k) \cap Reserved = {}
  /\ \A b \in held : Frames(i, k) \cap Frames(b[1], b[2]) = {}
  /\ held' = held \cup {<<i, k>>}
  /\ shares' = [shares EXCEPT ![i] = 1]

(* Only single frames are shared (copy-on-write).                           *)
Share(i) ==
  /\ <<i, 0>> \in held
  /\ shares' = [shares EXCEPT ![i] = @ + 1]
  /\ UNCHANGED held

PutOne(i, k) ==
  /\ <<i, k>> \in held /\ shares[i] > 1
  /\ shares' = [shares EXCEPT ![i] = @ - 1]
  /\ UNCHANGED held

PutLast(i, k) ==
  /\ <<i, k>> \in held /\ shares[i] = 1
  /\ held' = held \ {<<i, k>>}
  /\ shares' = [shares EXCEPT ![i] = 0]

Next ==
  \E i \in Pages :
    \/ Share(i)
    \/ \E k \in Orders : Grant(i, k) \/ PutOne(i, k) \/ PutLast(i, k)

Spec == Init /\ [][Next]_vars
=============================================================================
