------------------------------ MODULE MCUserVm ------------------------------
(* The memory of processes, from two sides that share no state: what the      *)
(* pages contain (UserVm) and where mmap puts a region (MmapArea).  A         *)
(* behaviour is one of one of them, in which the variables of the other do    *)
(* not change.                                                                *)
EXTENDS UserVm, MmapArea, TLC

VARIABLE side

(* Two processes, one program of one page, three frames.                      *)
MCImage == [program \in Programs |-> [v \in {0} |-> 1]]
MCProts == {{"r"}, {"r", "w"}}

MCInit == side \in {"pages", "areas"} /\ Init /\ AreaInit
MCNext == \/ side = "pages" /\ Next /\ UNCHANGED <<side, areaVars>>
          \/ side = "areas" /\ AreaNext /\ UNCHANGED <<side, vars>>
MCSpec == MCInit /\ [][MCNext]_<<side, vars, areaVars>>

(* The slots are interchangeable.                                             *)
SlotSymmetry == Permutations(Procs)
=============================================================================
