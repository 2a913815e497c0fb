------------------------------- MODULE Archive -------------------------------
(***************************************************************************)
(* cpio.c and the files of ramfs.c: an archive in memory is walked header  *)
(* by header, and what is found is read in place.  The archive may be cut  *)
(* short or padded, as the range the device tree gives says; its layout is *)
(* that of the newc format, with offsets from its start.                   *)
(***************************************************************************)
EXTENDS Integers, FiniteSetsExt, SequencesExt

CONSTANTS
  Align,       \* 4
  Header,      \* sizeof(struct cpio_newc_header)
  Names,       \* bases of names
  NameSize,    \* their lengths with the final zero
  Trailers,    \* of them, those that start with "TRAILER!!!"
  Sizes,       \* bound: sizes of files
  MaxMembers,  \* bound: headers in an archive
  Padding,     \* bound: zeros behind the last
  Lengths      \* bound: the lengths passed to read and the offsets to lseek64

ArchiveAssumption ==
  /\ Align \in Nat \ {0} /\ Header \in Nat \ {0} /\ MaxMembers \in Nat
  /\ Trailers \subseteq Names /\ NameSize \in [Names -> Nat \ {0}]
  /\ Sizes \subseteq Nat /\ Lengths \subseteq Nat /\ Padding \in Nat

(* A name is its base, with or without "./" in front.                        *)
AllNames == [dot : BOOLEAN, base : Names]
SizeOfName(name) == NameSize[name.base] + IF name.dot THEN 2 ELSE 0
AlignUp(n) == ((n + Align - 1) \div Align) * Align

VARIABLES
  members,  \* what was archived: name, size, and where header, data and next are
  end,      \* g_rd_end, once the archive is in memory
  node,     \* the vnode that was looked up: data and size of the file
  f_pos, got
vars == <<members, end, node, f_pos, got>>

NotYet == -1
Missing == [data |-> -1, size |-> 0]
Init == members = <<>> /\ end = NotYet /\ node = Missing /\ f_pos = 0 /\ got = <<>>

Member(at, name, size) ==
  LET data == AlignUp(at + Header + SizeOfName(name))
  IN  [name |-> name, size |-> size, at |-> at, data |-> data,
       next |-> AlignUp(data + size)]
Top == IF members = <<>> THEN 0 ELSE Last(members).next

Add(name, size) ==
  /\ end = NotYet /\ Len(members) < MaxMembers
  /\ members' = Append(members, Member(Top, name, size))
  /\ UNCHANGED <<end, node, f_pos, got>>

(* cpio_init_from_dtb.                                                       *)
SetArchive(e) ==
  /\ end = NotYet /\ end' = e
  /\ UNCHANGED <<members, node, f_pos, got>>

-----------------------------------------------------------------------------
(* cpio_walk_next: the member at p, or Bad when there is no header or it is  *)
(* not within the archive, its padding included.                             *)
Bad == [next |-> -1]
(* Faulty variant: only the data must be within the archive.                 *)
FitsData(m) == m.data + m.size <= end
Fits(m) == /\ m.at + Header + SizeOfName(m.name) <= end
           /\ m.data <= end /\ m.data + m.size <= end /\ m.next <= end
WalkNext(p) ==
  LET here == {i \in DOMAIN members : members[i].at = p}
  IN  IF end - p < Header \/ here = {} THEN Bad
      ELSE LET m == members[CHOOSE i \in here : TRUE] IN IF Fits(m) THEN m ELSE Bad

IsTrailer(m) == ~m.name.dot /\ m.name.base \in Trailers
FilenameMatch(name, target) ==
  \/ name = target
  \/ name.dot /\ [dot |-> FALSE, base |-> name.base] = target

(* cpio_find and cpio_cat.                                                   *)
Find(target) ==
  LET from[n \in 0 .. MaxMembers, p \in Int] ==
        LET m == WalkNext(p) IN
        IF p >= end \/ m = Bad THEN Missing
        ELSE IF IsTrailer(m) THEN Missing
        ELSE IF FilenameMatch(m.name, target) THEN [data |-> m.data, size |-> m.size]
        ELSE from[n - 1, m.next]
  IN  from[MaxMembers, 0]

(* cpio_ls: one walk to count, which may find the archive invalid, and one   *)
(* to print.                                                                 *)
Invalid == <<Bad>>
Ls ==
  LET from[n \in 0 .. MaxMembers, p \in Int] ==
        LET m == WalkNext(p) IN
        IF p >= end THEN <<>>
        ELSE IF m = Bad THEN Invalid
        ELSE IF IsTrailer(m) THEN <<>>
        ELSE LET rest == from[n - 1, m.next]
             IN  IF rest = Invalid THEN Invalid ELSE <<m.name>> \o rest
  IN  from[MaxMembers, 0]

-----------------------------------------------------------------------------
(* ramfs_lookup and ramfs_open, ramfs_read, ramfs_lseek64; a read copies the *)
(* bytes at these places of the archive.                                     *)
Open(target) ==
  /\ end # NotYet
  /\ IF Find(target) = Missing THEN UNCHANGED vars
     ELSE /\ node' = Find(target) /\ f_pos' = 0 /\ got' = <<>>
          /\ UNCHANGED <<members, end>>
(* Faulty variant: as if at the start of the file.                           *)
ReadableAtStart(len) == Min({node.size, len})
Readable(len) == IF f_pos >= node.size THEN 0 ELSE Min({node.size - f_pos, len})
Read(len) ==
  /\ node # Missing
  /\ got' = [n \in 1 .. Readable(len) |-> node.data + f_pos + n - 1]
  /\ f_pos' = f_pos + Readable(len)
  /\ UNCHANGED <<members, end, node>>
Lseek(offset) ==
  /\ node # Missing /\ f_pos' = offset /\ got' = <<>>
  /\ UNCHANGED <<members, end, node>>

Next ==
  \/ \E name \in AllNames, size \in Sizes : Add(name, size)
  \/ \E e \in 1 .. Top + Padding : SetArchive(e)
  \/ \E name \in AllNames : Open(name)
  \/ \E len \in Lengths : Read(len) \/ Lseek(len)
Spec == Init /\ [][Next]_vars

-----------------------------------------------------------------------------
(* What the archive holds: the members before the first trailer, as far as   *)
(* they are in memory.                                                       *)
Held == {i \in DOMAIN members : /\ \A j \in 1 .. i : ~IsTrailer(members[j])
                                /\ members[i].next <= end}
Called(target) == {i \in Held : \/ members[i].name = target
                                \/ members[i].name.base = target.base /\ ~target.dot}
Complete == \E i \in DOMAIN members :
              /\ members[i].next <= end
              /\ IsTrailer(members[i]) \/ members[i].next = end

(* In every archive, also one that is cut short, padded or has no trailer, a *)
(* name finds the first member of that name, "./" or not, that is held       *)
(* whole; the list is of all members, or the archive is called invalid; and  *)
(* what is read from an open file is bytes of its member, those at the       *)
(* position of the file, until it ends.                                      *)
FilesAsArchived ==
  /\ end # NotYet =>
       /\ \A t \in AllNames :
            Find(t) = IF Called(t) = {} THEN Missing
                      ELSE LET m == members[Min(Called(t))]
                           IN  [data |-> m.data, size |-> m.size]
       /\ Ls = IF Complete THEN [n \in 1 .. Max(Held \cup {0}) |-> members[n].name]
               ELSE Invalid
  /\ got # <<>> => \E i \in Held :
       /\ members[i].data = node.data
       /\ got = [n \in DOMAIN got |-> members[i].data + f_pos - Len(got) + n - 1]
       /\ f_pos <= members[i].size
=============================================================================
