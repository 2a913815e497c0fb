------------------------------ MODULE Startup ------------------------------
(***************************************************************************)
(* The free lists mm_init leaves behind, as a function of the reserved     *)
(* frames (mm.c, build_initial_free_lists).                                *)
(***************************************************************************)
EXTENDS Integers, FiniteSetsExt

CONSTANT MaxOrder   \* MAX_ORDER

(* The largest order at which a block may start at i and fit in remain.      *)
StartOrder(i, remain) ==
  Max({k \in 0 .. MaxOrder : i % (2 ^ k) = 0 /\ 2 ^ k <= remain})

(* The blocks cut from the n frames, from frame i on.                        *)
RunEnd(i, n, reserved) ==
  Min({j \in i .. n : j = n \/ j \in reserved})

RECURSIVE FreeBlocks(_, _, _)
FreeBlocks(i, n, reserved) ==
  IF i >= n THEN {}
  ELSE IF i \in reserved THEN FreeBlocks(i + 1, n, reserved)
  ELSE LET k == StartOrder(i, RunEnd(i, n, reserved) - i)
       IN  {<<i, k>>} \cup FreeBlocks(i + 2 ^ k, n, reserved)

BuildInitialFreeLists(n, reserved) ==
  [k \in 0 .. MaxOrder |-> {b[1] : b \in {c \in FreeBlocks(0, n, reserved) :
                                           c[2] = k}}]
=============================================================================
