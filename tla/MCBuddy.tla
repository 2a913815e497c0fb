------------------------------ MODULE MCBuddy ------------------------------
(* Buddy on the free lists the startup code leaves for a few frames.         *)
EXTENDS Buddy

Boot == INSTANCE Startup

MCSize == [k \in 0 .. MaxOrder |-> 2 ^ k]
MCReserved == {4}
MCInitialFree == Boot!BuildInitialFreeLists(NumPages, Reserved)

(* What the lists are meant to hold: the blocks that are aligned to their    *)
(* order and have no reserved frame, and are not part of a larger such block.*)
AlignedBlocks(k, n, reserved) ==
  {i \in 0 .. n - 2 ^ k :
     i % (2 ^ k) = 0 /\ (i .. i + 2 ^ k - 1) \cap reserved = {}}
MaximalBlocks(n, reserved) ==
  [k \in 0 .. MaxOrder |->
     {i \in AlignedBlocks(k, n, reserved) :
        k < MaxOrder =>
          i - (i % (2 ^ (k + 1))) \notin AlignedBlocks(k + 1, n, reserved)}]

(* For every number of frames up to that of the instance and every set of    *)
(* reserved ones, build_initial_free_lists leaves the maximal blocks: they   *)
(* are aligned, apart, and lose no frame.                                    *)
ASSUME StartsMaximal ==
  \A n \in 0 .. NumPages : \A reserved \in SUBSET (0 .. n - 1) :
    Boot!BuildInitialFreeLists(n, reserved) = MaximalBlocks(n, reserved)

MCMaximal == MaximalBlocks(NumPages, Reserved)

(* Whatever was allocated, shared, split and freed in between, when all is   *)
(* freed the lists hold the maximal blocks of unreserved frames, as after    *)
(* boot: no lasting fragmentation (buddy_free_idx).                          *)
AllFreedMaximal == Quiet /\ (\A p \in Pages : ~Allocated(p)) => free = MCMaximal
=============================================================================
