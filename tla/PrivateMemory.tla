--------------------------- MODULE PrivateMemory ---------------------------
(***************************************************************************)
(* What a user process may believe of its memory: it has a memory of its   *)
(* own, which fork duplicates and only its own stores change.  Nothing is  *)
(* said of frames, page tables, sharing or faults.                         *)
(***************************************************************************)
CONSTANTS
  Procs, Values, Zero,
  Images,    \* what a program's address space looks like when it starts
  MapPages,  \* the pages mmap can hand out
  NoMemory   \* the memory of a process there is not

VARIABLE mem
vars == mem

Init == mem = [p \in Procs |-> NoMemory]

(* The shell starts a program, or a process execs one.                      *)
Load(p) == \E image \in Images : mem' = [mem EXCEPT ![p] = image]

Fork(p, child) ==
  /\ mem[p] # NoMemory /\ mem[child] = NoMemory
  /\ mem' = [mem EXCEPT ![child] = mem[p]]

Store(p, v, x) ==
  /\ mem[p] # NoMemory /\ v \in DOMAIN mem[p]
  /\ mem' = [mem EXCEPT ![p][v] = x]

(* New pages read as zero.                                                  *)
Mmap(p, new) ==
  /\ mem[p] # NoMemory /\ new \cap DOMAIN mem[p] = {}
  /\ mem' = [mem EXCEPT ![p] =
               [v \in (DOMAIN mem[p]) \cup new |->
                  IF v \in new THEN Zero ELSE mem[p][v]]]

End(p) == mem' = [mem EXCEPT ![p] = NoMemory]

Next ==
  mem' # mem /\ \E p \in Procs :
    \/ Load(p) \/ End(p)
    \/ \E child \in Procs : Fork(p, child)
    \/ mem[p] # NoMemory /\ \E v \in DOMAIN mem[p], x \in Values : Store(p, v, x)
    \/ \E new \in SUBSET MapPages : Mmap(p, new)

Spec == Init /\ [][Next]_vars
=============================================================================
