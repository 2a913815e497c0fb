------------------------------ MODULE MCSched ------------------------------
(* Sched on the shell's struct thread and two further addresses, for TLC.    *)
EXTENDS Sched, TLC

CONSTANTS a, b, sh

MCSlots3 == {sh, a, b}

(* The addresses but the shell's are interchangeable (safety run only).      *)
Symmetry3 == Permutations({a, b})
=============================================================================
