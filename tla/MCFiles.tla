------------------------------ MODULE MCFiles ------------------------------
(* What processes have their data in.  The file systems below the table of    *)
(* open files: the bytes of a file of tmpfs (TmpFile), paths and mounts       *)
(* (Mounts), the archive behind ramfs (Archive) and /dev/fb (Framebuffer);    *)
(* and the memory of lab6's processes (ProcessMemory), in behaviours with     *)
(* signals and in behaviours with regions of mmap.  They share no variable    *)
(* with one another; each behaviour is one of one of them.                    *)
EXTENDS TmpFile, Framebuffer, Mounts, ProcessMemory, TLC

CONSTANTS
  \* Archive
  Align, Header, Members, Trailers, Sizes, MaxMembers, Padding

VARIABLES part,
  members, end, node, arPos, arGot
arVars == <<members, end, node, arPos, arGot>>

NameSize == [n \in Members |-> IF n \in Trailers THEN 5 ELSE 2]
A == INSTANCE Archive WITH Names <- Members, Lengths <- {2},
                           f_pos <- arPos, got <- arGot

(* Buffers within a cache line, of one and of several; images that are        *)
(* smaller and larger than the screen in each direction.                      *)
MCBuffers == {<<>>, <<100>>, [i \in 1 .. 6 |-> 104 + i]}
MCImages == {[w |-> 4, h |-> 1], [w |-> 2, h |-> 3]}

ASSUME PartsAssumption ==
  MountsAssumption /\ A!ArchiveAssumption /\ ProcessMemoryAssumption

(* lab6's processes, of which none installs a handler or none calls mmap.     *)
NoHandlers == \A p \in Procs : th[p].handlers = {}
NoRegions == \A p \in Procs : th[p].own["region"] = Nothing

MCInit ==
  /\ part \in {"bytes", "paths", "archive", "screen", "signals", "regions"}
  /\ Init /\ A!Init /\ FbInit /\ MemoryInit
  /\ IF part = "paths" THEN MountsInit ELSE vn = <<>> /\ mt = <<>> /\ cwd = <<>>
MCNext ==
  /\ UNCHANGED part
  /\ \/ part = "bytes" /\ Next /\ UNCHANGED <<mountVars, arVars, fbVars, memoryVars>>
     \/ part = "paths" /\ MountsNext /\ UNCHANGED <<vars, arVars, fbVars, memoryVars>>
     \/ part = "archive" /\ A!Next /\ UNCHANGED <<vars, mountVars, fbVars, memoryVars>>
     \/ part = "screen" /\ FbNext /\ UNCHANGED <<vars, mountVars, arVars, memoryVars>>
     \/ /\ MemoryNext /\ UNCHANGED <<vars, mountVars, arVars, fbVars>>
        /\ \/ part = "signals" /\ NoRegions'
           \/ part = "regions" /\ NoHandlers'
MCSpec == MCInit /\ [][MCNext]_<<part, vars, mountVars, arVars, fbVars, memoryVars>>

(* Nothing tells two processes, two viewers or two users apart.               *)
MCSymmetry == Permutations(Procs) \cup Permutations(Viewers) \cup Permutations(Users)

FilesAsArchived == part = "archive" => A!FilesAsArchived
=============================================================================
