----------------------------- MODULE MCOpenFiles -----------------------------
(* Instances of OpenFiles; open files are interchangeable.                   *)
EXTENDS OpenFiles, TLC
FileSymmetry == Permutations(Files)
=============================================================================
