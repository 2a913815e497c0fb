--------------------------- MODULE OpenFilesProofs ---------------------------
(***************************************************************************)
(* The counts of the open files are exact, for any number of processes,    *)
(* files and descriptors, also while processes close their files with      *)
(* interrupts on, as long as nobody meets another in the middle of a       *)
(* vfs_close (Races = FALSE).                                              *)
(*                                                                         *)
(* The argument: a reference is a descriptor that shows the file and that  *)
(* a dying process has not closed yet (Standing).  Every action changes    *)
(* the references of one process.  Row says how the number of references   *)
(* to a file changes with them, and what the action does to ref_count is   *)
(* that difference.  Between reading a count and storing it a dying        *)
(* process has the right count in hand (InHand).                           *)
(***************************************************************************)
EXTENDS OpenFiles, FiniteSetTheorems, WellFoundedInduction, TLAPS

Shown(tab, f) == {slot \in Procs \X Fds : tab[slot[1]][slot[2]] = f}
InRow(row, f) == {fd \in Fds : row[fd] = f}
Tables == [Procs -> [Fds -> Files \cup {NoFile}]]

(* The descriptors that are references: a dying process has closed its first *)
(* one when only the clearing of it is left.                                 *)
Standing == [p \in Procs |-> [fd \in Fds |->
  IF Dying(p, "clear") /\ fd = First(Open(p)) THEN NoFile ELSE table[p][fd]]]

InHand ==
  /\ \A p \in Procs : step[p] # "scan" =>
       Open(p) # {} /\ held[p] = table[p][First(Open(p))]
  /\ \A p \in Procs : step[p] = "store" =>
       /\ held[p] \in live /\ count[p] = ref[held[p]] /\ count[p] > 1
       /\ \A q \in Procs \ {p} : step[q] = "store" => held[q] # held[p]
Reading ==
  \A p \in Procs : status[p] = "reading" =>
    held[p] # NoFile /\ \E fd \in Fds : table[p][fd] = held[p]
Exact ==
  \A f \in Files :
    Cardinality(Shown(Standing, f)) = IF f \in live THEN ref[f] ELSE 0

IInv == TypeOK /\ InHand /\ Reading /\ Exact

-----------------------------------------------------------------------------
LEMMA RowFinite ==
  ASSUME NEW row, NEW f
  PROVE  IsFiniteSet(InRow(row, f)) /\ Cardinality(InRow(row, f)) \in Nat
<1>1. IsFiniteSet(Fds)
  BY FS_Interval, OpenFilesAssumption DEF Fds
<1>2. InRow(row, f) \in SUBSET Fds
  BY DEF InRow
<1> QED BY <1>1, <1>2, FS_Subset, FS_CardinalityType

LEMMA ShownFinite ==
  ASSUME NEW tab, NEW f
  PROVE  IsFiniteSet(Shown(tab, f)) /\ Cardinality(Shown(tab, f)) \in Nat
<1>1. IsFiniteSet(Fds) /\ IsFiniteSet(Procs)
  BY FS_Interval, OpenFilesAssumption DEF Fds
<1>2. IsFiniteSet(Procs \X Fds)
  BY <1>1, FS_Product
<1>3. Shown(tab, f) \in SUBSET (Procs \X Fds)
  BY DEF Shown
<1> QED BY <1>2, <1>3, FS_Subset, FS_CardinalityType

(* The references p holds are as many as its descriptors that show f, and    *)
(* they are apart from those of all others.                                  *)
LEMMA Split ==
  ASSUME NEW tab, NEW p \in Procs, NEW f
  PROVE  LET others == {slot \in Shown(tab, f) : slot[1] # p}
         IN  /\ Cardinality(others) \in Nat
             /\ Cardinality(Shown(tab, f)) =
                  Cardinality(others) + Cardinality(InRow(tab[p], f))
<1> DEFINE others == {slot \in Shown(tab, f) : slot[1] # p}
           own == {p} \X InRow(tab[p], f)
<1>1. IsFiniteSet(others) /\ Cardinality(others) \in Nat
  BY ShownFinite, FS_Subset, FS_CardinalityType
<1>2. IsFiniteSet({p}) /\ Cardinality({p}) = 1
  BY FS_Singleton
<1>3. IsFiniteSet(own) /\ Cardinality(own) = Cardinality(InRow(tab[p], f))
  BY <1>2, RowFinite, FS_Product
<1>4. Shown(tab, f) = others \cup own
  BY DEF Shown, InRow
<1>5. others \cap own = {}
  OBVIOUS
<1>6. Cardinality(others \cap own) = 0
  BY <1>5, FS_EmptySet
<1>7. Cardinality(others \cup own) =
        Cardinality(others) + Cardinality(own) - Cardinality(others \cap own)
  BY <1>1, <1>3, FS_Union
<1>8. Cardinality(InRow(tab[p], f)) \in Nat
  BY RowFinite
<1> HIDE DEF others, own
<1>9. Cardinality(Shown(tab, f)) = Cardinality(others) + Cardinality(InRow(tab[p], f))
  BY <1>1, <1>3, <1>4, <1>6, <1>7, <1>8
<1> QED BY <1>1, <1>9 DEF others

(* When the row of p changes, the references change by the difference.       *)
LEMMA Row ==
  ASSUME NEW tab \in Tables, NEW p \in Procs, NEW new, NEW f,
         \A q \in Procs : q # p => new[q] = tab[q]
  PROVE  /\ Cardinality(Shown(new, f)) =
              Cardinality(Shown(tab, f)) - Cardinality(InRow(tab[p], f))
                + Cardinality(InRow(new[p], f))
         /\ Cardinality(InRow(tab[p], f)) <= Cardinality(Shown(tab, f))
<1> DEFINE others == {slot \in Shown(tab, f) : slot[1] # p}
<1>1. others = {slot \in Shown(new, f) : slot[1] # p}
  BY DEF Shown
<1>2. /\ Cardinality(others) \in Nat
      /\ Cardinality(Shown(tab, f)) =
           Cardinality(others) + Cardinality(InRow(tab[p], f))
  BY Split
<1>3. Cardinality(Shown(new, f)) =
        Cardinality({slot \in Shown(new, f) : slot[1] # p})
          + Cardinality(InRow(new[p], f))
  BY Split
<1>4. Cardinality(Shown(new, f)) = Cardinality(others) + Cardinality(InRow(new[p], f))
  BY <1>1, <1>3
<1> HIDE DEF others
<1> QED BY <1>2, <1>4, RowFinite

LEMMA EmptyRow ==
  ASSUME NEW row, NEW f, \A fd \in Fds : row[fd] # f
  PROVE  Cardinality(InRow(row, f)) = 0
<1>1. InRow(row, f) = {}
  BY DEF InRow
<1> QED BY <1>1, FS_EmptySet

LEMMA SingleRow ==
  ASSUME NEW row, NEW f, NEW fd \in Fds,
         \A other \in Fds : row[other] = f <=> other = fd
  PROVE  Cardinality(InRow(row, f)) = 1
<1>1. InRow(row, f) = {fd}
  BY DEF InRow
<1> QED BY <1>1, FS_Singleton

LEMMA UsesNone ==
  ASSUME NEW p, NEW f, Uses(p, f) = 0
  PROVE  \A fd \in Fds : table[p][fd] # f
<1>1. IsFiniteSet({fd \in Fds : table[p][fd] = f})
  BY RowFinite DEF InRow
<1>2. {fd \in Fds : table[p][fd] = f} = {}
  BY <1>1, FS_EmptySet DEF Uses
<1> QED BY <1>2

(* A set of descriptors has a first one.                                     *)
LEMMA FirstIn ==
  ASSUME NEW S \in SUBSET Fds, S # {}
  PROVE  First(S) \in S
<1>1. S \subseteq Nat
  BY DEF Fds
<1>2. PICK fd \in S : \A other \in S : <<other, fd>> \notin OpToRel(<, Nat)
  BY <1>1, WFMin, NatLessThanWellFounded
<1>3. OpToRel(<, Nat) = {pair \in Nat \X Nat : pair[1] < pair[2]}
  BY Zenon DEF OpToRel
<1>4. \A other \in S : ~(other < fd)
  BY <1>1, <1>2, <1>3
<1>5. \A other \in S : fd <= other
  BY <1>1, <1>4
<1> QED BY <1>2, <1>5 DEF First

(* When a row loses one descriptor, the file it showed loses a reference.    *)
LEMMA RowLess ==
  ASSUME NEW row \in [Fds -> Files \cup {NoFile}], NEW fd \in Fds, NEW g \in Files,
         row[fd] \in Files
  PROVE  Cardinality(InRow([row EXCEPT ![fd] = NoFile], g)) =
           Cardinality(InRow(row, g)) - (IF g = row[fd] THEN 1 ELSE 0)
<1> DEFINE less == [row EXCEPT ![fd] = NoFile]
<1>1. less[fd] = NoFile /\ \A other \in Fds : other # fd => less[other] = row[other]
  OBVIOUS
<1>2. CASE g = row[fd]
  <2>1. InRow(less, g) = InRow(row, g) \ {fd} /\ fd \in InRow(row, g)
    BY <1>1, <1>2, OpenFilesAssumption DEF InRow
  <2>2. IsFiniteSet(InRow(row, g))
    BY RowFinite
  <2>3. Cardinality(InRow(less, g)) = Cardinality(InRow(row, g)) - 1
    BY <2>1, <2>2, FS_RemoveElement, ZenonT(30)
  <2> QED BY <1>2, <2>3
<1>3. CASE g # row[fd]
  <2>1. InRow(less, g) = InRow(row, g)
    BY <1>1, <1>3, OpenFilesAssumption DEF InRow
  <2> QED BY <1>3, <2>1, RowFinite
<1> QED BY <1>2, <1>3

-----------------------------------------------------------------------------
(* References.                                                               *)

LEMMA StandingTables ==
  ASSUME TypeOK
  PROVE  Standing \in Tables
BY DEF TypeOK, Standing, Tables

LEMMA StandingIsTable ==
  ASSUME TypeOK, NEW p \in Procs, ~Dying(p, "clear")
  PROVE  Standing[p] = table[p]
BY DEF TypeOK, Standing

LEMMA ShownIsCounted ==
  ASSUME TypeOK, NEW f \in Files
  PROVE  Counted(f) = Shown(Standing, f)
BY OpenFilesAssumption DEF TypeOK, Counted, Shown, Standing

LEMMA SameStanding ==
  ASSUME UNCHANGED <<status, table, step>>
  PROVE  Standing' = Standing
<1>1. \A q \in Procs : Open(q)' = Open(q)
  BY DEF Open
<1>2. \A q \in Procs : Dying(q, "clear")' <=> Dying(q, "clear")
  BY <1>1 DEF Dying
<1> QED BY <1>1, <1>2 DEF Standing

(* An action of p, which is not in the middle of closing a file, before or   *)
(* after.                                                                    *)
LEMMA StandingStep ==
  ASSUME TypeOK, NEW p \in Procs, NEW row \in [Fds -> Files \cup {NoFile}],
         table' = [table EXCEPT ![p] = row], status'[p] # "dying",
         \A q \in Procs \ {p} : status'[q] = status[q] /\ step'[q] = step[q]
  PROVE  Standing' = [Standing EXCEPT ![p] = row]
<1>1. /\ table'[p] = row /\ ~Dying(p, "clear")'
      /\ \A q \in Procs \ {p} : table'[q] = table[q]
  BY DEF TypeOK, Dying
<1>2. Standing'[p] = row
  BY <1>1 DEF Standing
<1>3. ASSUME NEW q \in Procs \ {p}
      PROVE  Standing'[q] = Standing[q]
  BY <1>1 DEF Standing, Dying, Open
<1>4. Standing' = [q \in Procs |-> Standing'[q]] /\ Standing = [q \in Procs |-> Standing[q]]
  BY DEF Standing
<1> QED BY <1>2, <1>3, <1>4

-----------------------------------------------------------------------------
LEMMA InitIInv == Init => IInv
<1> SUFFICES ASSUME Init PROVE IInv
  OBVIOUS
<1>1. TypeOK /\ InHand /\ Reading
  BY DEF Init, TypeOK, InHand, Reading, Open, Closed
<1>2. ASSUME NEW f \in Files
      PROVE  Cardinality(Shown(Standing, f)) = 0
  <2>1. Shown(Standing, f) = {}
    BY OpenFilesAssumption DEF Init, Shown, Closed, Standing
  <2> QED BY <2>1, FS_EmptySet
<1> QED BY <1>1, <1>2 DEF Init, IInv, Exact

(* How the references of p come to differ, and what their number becomes.    *)
LEMMA Change ==
  ASSUME IInv, NEW p \in Procs, NEW row \in [Fds -> Files \cup {NoFile}],
         ~Dying(p, "clear"), Standing' = [Standing EXCEPT ![p] = row], NEW f \in Files
  PROVE  /\ Cardinality(Shown(Standing', f)) =
              Cardinality(Shown(Standing, f)) - Uses(p, f)
                + Cardinality(InRow(row, f))
         /\ Uses(p, f) \in Nat /\ Uses(p, f) <= Cardinality(Shown(Standing, f))
         /\ Cardinality(InRow(row, f)) \in Nat
         /\ Cardinality(Shown(Standing, f)) = IF f \in live THEN ref[f] ELSE 0
         /\ ref[f] \in Nat \ {0}
<1>1. Standing \in Tables /\ ref[f] \in Nat \ {0} /\ Standing[p] = table[p]
  BY StandingTables, StandingIsTable DEF IInv, TypeOK
<1>2. Uses(p, f) = Cardinality(InRow(Standing[p], f))
  BY <1>1 DEF Uses, InRow
<1>3. /\ Cardinality(Shown(Standing', f)) =
           Cardinality(Shown(Standing, f)) - Cardinality(InRow(Standing[p], f))
             + Cardinality(InRow(row, f))
      /\ Cardinality(InRow(Standing[p], f)) <= Cardinality(Shown(Standing, f))
  <2> DEFINE new == Standing'
             old == Standing
  <2>1. new[p] = row /\ \A q \in Procs : q # p => new[q] = old[q]
    BY <1>1 DEF Tables
  <2>2. old \in Tables
    BY <1>1
  <2> HIDE DEF new, old
  <2>3. /\ Cardinality(Shown(new, f)) =
             Cardinality(Shown(old, f)) - Cardinality(InRow(old[p], f))
               + Cardinality(InRow(new[p], f))
        /\ Cardinality(InRow(old[p], f)) <= Cardinality(Shown(old, f))
    BY <2>1, <2>2, Row
  <2> QED BY <2>1, <2>3 DEF new, old
<1>4. Cardinality(InRow(row, f)) \in Nat /\ Cardinality(InRow(Standing[p], f)) \in Nat
  BY RowFinite
<1>5. Cardinality(Shown(Standing, f)) = IF f \in live THEN ref[f] ELSE 0
  BY DEF IInv, Exact
<1> QED BY <1>1, <1>2, <1>3, <1>4, <1>5

LEMMA Owned ==
  ASSUME IInv, NEW p \in Procs, ~Dying(p, "clear"), NEW f
  PROVE  Uses(p, f) <= Cardinality(Shown(Standing, f))
<1>1. Standing \in Tables /\ Standing[p] = table[p]
  BY StandingTables, StandingIsTable DEF IInv
<1> DEFINE old == Standing
<1>2. old \in Tables
  BY <1>1
<1> HIDE DEF old
<1>3. Cardinality(InRow(old[p], f)) <= Cardinality(Shown(old, f))
  BY <1>2, Row
<1> QED BY <1>1, <1>3 DEF Uses, InRow, old

(* What p shows is allocated.                                                *)
LEMMA ShownIsLive ==
  ASSUME IInv, NEW p \in Procs, ~Dying(p, "clear"), NEW fd \in Fds, table[p][fd] # NoFile
  PROVE  table[p][fd] \in live
<1> DEFINE f == table[p][fd]
<1>1. f \in Files
  BY DEF IInv, TypeOK
<1>2. Uses(p, f) # 0
  BY UsesNone
<1>3. Uses(p, f) \in Nat
  BY RowFinite DEF Uses, InRow
<1>4. Uses(p, f) <= Cardinality(Shown(Standing, f))
  BY Owned
<1> QED BY <1>1, <1>2, <1>3, <1>4 DEF IInv, Exact

(* An action of p that ends with no file in hand, and leaves the counts that *)
(* others have in hand.                                                      *)
LEMMA InHandKept ==
  ASSUME IInv, NEW p \in Procs, step'[p] = "scan",
         \A q \in Procs \ {p} : /\ table'[q] = table[q] /\ step'[q] = step[q]
                                /\ held'[q] = held[q] /\ count'[q] = count[q],
         \A q \in Procs \ {p} : step[q] = "store" =>
           ref'[held[q]] = ref[held[q]] /\ held[q] \in live'
  PROVE  InHand'
<1>1. \A q \in Procs \ {p} : Open(q)' = Open(q)
  BY DEF Open
<1> QED BY <1>1 DEF IInv, InHand

LEMMA CreateIInv ==
  ASSUME IInv, NEW p \in Procs, Create(p)
  PROVE  IInv'
<1>1. PICK opened \in [0 .. Stdio - 1 -> Files \ live] :
        /\ \A i, j \in 0 .. Stdio - 1 : i # j => opened[i] # opened[j]
        /\ table' = [table EXCEPT ![p] = [fd \in Fds |->
                       IF fd < Stdio THEN opened[fd] ELSE NoFile]]
        /\ live' = live \cup {opened[i] : i \in 0 .. Stdio - 1}
        /\ ref' = [f \in Files |-> IF f \in live THEN ref[f] ELSE 1]
  BY DEF Create
<1> DEFINE row == [fd \in Fds |-> IF fd < Stdio THEN opened[fd] ELSE NoFile]
<1>2. /\ status[p] = "unused" /\ status' = [status EXCEPT ![p] = "alive"]
      /\ UNCHANGED <<step, held, count>>
  BY DEF Create
<1>3. \A fd \in Fds : fd < Stdio <=> fd \in 0 .. Stdio - 1
  BY OpenFilesAssumption DEF Fds
<1>4. row \in [Fds -> Files \cup {NoFile}] /\ table' = [table EXCEPT ![p] = row]
  BY <1>1, <1>3
<1>5. TypeOK'
  <2>1. /\ table' \in [Procs -> [Fds -> Files \cup {NoFile}]]
        /\ live' \subseteq Files /\ ref' \in [Files -> Nat \ {0}]
    BY <1>1, <1>4 DEF IInv, TypeOK
  <2>2. \A q \in Procs : status'[q] \in {"unused", "dead"} => Open(q)' = {}
    BY <1>1, <1>2 DEF IInv, TypeOK, Open
  <2> QED BY <2>1, <2>2, <1>2 DEF IInv, TypeOK
<1>6. Reading'
  BY <1>1, <1>2 DEF IInv, TypeOK, Reading
<1>7. InHand'
  <2>1. step'[p] = "scan"
    BY <1>2 DEF IInv, TypeOK
  <2>2. \A q \in Procs \ {p} : /\ table'[q] = table[q] /\ step'[q] = step[q]
                               /\ held'[q] = held[q] /\ count'[q] = count[q]
    BY <1>2, <1>4 DEF IInv, TypeOK
  <2>3. \A q \in Procs \ {p} : step[q] = "store" =>
          ref'[held[q]] = ref[held[q]] /\ held[q] \in live'
    BY <1>1 DEF IInv, TypeOK, InHand
  <2> QED BY <2>1, <2>2, <2>3, InHandKept
<1>8. ~Dying(p, "clear") /\ Standing' = [Standing EXCEPT ![p] = row]
  <2> HIDE DEF row
  <2> QED BY <1>2, <1>4, StandingStep DEF IInv, TypeOK, Dying
<1>9. ASSUME NEW f \in Files
      PROVE  Cardinality(Shown(Standing', f)) = IF f \in live' THEN ref'[f] ELSE 0
  <2>1. Uses(p, f) = 0
    <3>1. \A fd \in Fds : table[p][fd] # f
      BY <1>2, OpenFilesAssumption DEF IInv, TypeOK, Open
    <3> QED BY <3>1, EmptyRow DEF Uses, InRow
  <2>2. Cardinality(Shown(Standing', f)) =
          Cardinality(Shown(Standing, f)) + Cardinality(InRow(row, f))
    <3> HIDE DEF row
    <3>1. Cardinality(Shown(Standing', f)) =
            Cardinality(Shown(Standing, f)) - Uses(p, f) + Cardinality(InRow(row, f))
      BY <1>4, <1>8, Change
    <3> QED BY <3>1, <2>1, ShownFinite
  <2>3. CASE \E i \in 0 .. Stdio - 1 : opened[i] = f
    <3>1. PICK i \in 0 .. Stdio - 1 : opened[i] = f
      BY <2>3
    <3>2. i \in Fds /\ \A fd \in Fds : row[fd] = f <=> fd = i
      BY <1>1, <1>3, <3>1, OpenFilesAssumption DEF Fds
    <3>3. Cardinality(InRow(row, f)) = 1
      BY <3>2, SingleRow
    <3>4. f \notin live /\ f \in live' /\ ref'[f] = 1
      BY <1>1, <3>1
    <3>5. Cardinality(Shown(Standing, f)) = 0
      BY <3>4 DEF IInv, Exact
    <3> QED BY <2>2, <3>3, <3>4, <3>5
  <2>4. CASE ~ \E i \in 0 .. Stdio - 1 : opened[i] = f
    <3>1. \A fd \in Fds : row[fd] # f
      BY <1>3, <2>4, OpenFilesAssumption
    <3>2. Cardinality(InRow(row, f)) = 0
      BY <3>1, EmptyRow
    <3>3. (f \in live' <=> f \in live) /\ (f \in live => ref'[f] = ref[f])
      BY <1>1, <2>4
    <3> QED BY <2>2, <3>2, <3>3, ShownFinite DEF IInv, Exact
  <2> QED BY <2>3, <2>4
<1> QED BY <1>5, <1>6, <1>7, <1>9 DEF IInv, Exact

LEMMA ForkIInv ==
  ASSUME ~Races, IInv, NEW p \in Procs, NEW q \in Procs, Fork(p, q)
  PROVE  IInv'
<1>1. /\ status[p] = "alive" /\ status[q] = "unused"
      /\ table' = [table EXCEPT ![q] = table[p]]
      /\ ref' = [f \in Files |-> ref[f] + Uses(p, f)]
      /\ status' = [status EXCEPT ![q] = "alive"]
      /\ UNCHANGED <<live, step, held, count>>
  BY DEF Fork, Clone
<1>2. table[p] \in [Fds -> Files \cup {NoFile}]
  BY DEF IInv, TypeOK
<1>3. ASSUME NEW f \in Files
      PROVE  /\ Uses(p, f) = Cardinality(InRow(table[p], f))
             /\ Uses(p, f) \in Nat /\ ref[f] \in Nat \ {0}
  <2>1. Uses(p, f) = Cardinality(InRow(table[p], f))
    BY DEF Uses, InRow
  <2> QED BY <2>1, RowFinite DEF IInv, TypeOK
<1>4. TypeOK'
  <2>1. ref' \in [Files -> Nat \ {0}]
    BY <1>1, <1>3
  <2>2. table' \in [Procs -> [Fds -> Files \cup {NoFile}]]
    BY <1>1, <1>2 DEF IInv, TypeOK
  <2>3. \A r \in Procs : status'[r] \in {"unused", "dead"} => Open(r)' = {}
    BY <1>1 DEF IInv, TypeOK, Open
  <2> QED BY <1>1, <2>1, <2>2, <2>3 DEF IInv, TypeOK
<1>5. Reading'
  BY <1>1 DEF IInv, TypeOK, Reading
<1>6. InHand'
  <2>1. step'[q] = "scan"
    BY <1>1 DEF IInv, TypeOK
  <2>2. \A r \in Procs \ {q} : /\ table'[r] = table[r] /\ step'[r] = step[r]
                               /\ held'[r] = held[r] /\ count'[r] = count[r]
    BY <1>1 DEF IInv, TypeOK
  <2>3. ASSUME NEW r \in Procs \ {q}, step[r] = "store"
        PROVE  ref'[held[r]] = ref[held[r]] /\ held[r] \in live'
    <3>1. r # p /\ held[r] \in live /\ held[r] \in Files
      BY <1>1, <2>3 DEF IInv, TypeOK, InHand
    <3>2. held[r] \notin FilesOf(p)
      BY <2>3, <3>1 DEF Fork, Undisturbed
    <3>3. \A fd \in Fds : table[p][fd] # held[r]
      BY <3>1, <3>2, OpenFilesAssumption DEF FilesOf, Open
    <3>4. Uses(p, held[r]) = 0
      BY <3>3, EmptyRow DEF Uses, InRow
    <3> QED BY <1>1, <1>3, <3>1, <3>4
  <2> QED BY <2>1, <2>2, <2>3, InHandKept
<1>7. /\ ~Dying(p, "clear") /\ ~Dying(q, "clear")
      /\ Standing' = [Standing EXCEPT ![q] = table[p]]
  BY <1>1, <1>2, StandingStep DEF IInv, TypeOK, Dying
<1>8. ASSUME NEW f \in Files
      PROVE  Cardinality(Shown(Standing', f)) = IF f \in live' THEN ref'[f] ELSE 0
  <2>1. Uses(q, f) = 0
    <3>1. \A fd \in Fds : table[q][fd] # f
      BY <1>1, OpenFilesAssumption DEF IInv, TypeOK, Open
    <3> QED BY <3>1, EmptyRow DEF Uses, InRow
  <2>2. Cardinality(Shown(Standing', f)) = Cardinality(Shown(Standing, f)) + Uses(p, f)
    <3>1. Cardinality(Shown(Standing', f)) =
            Cardinality(Shown(Standing, f)) - Uses(q, f)
              + Cardinality(InRow(table[p], f))
      BY <1>2, <1>7, Change
    <3> QED BY <3>1, <2>1, <1>3, ShownFinite
  <2>3. Uses(p, f) <= Cardinality(Shown(Standing, f))
    BY <1>7, Owned
  <2> QED BY <1>1, <1>3, <2>2, <2>3 DEF IInv, Exact
<1> QED BY <1>4, <1>5, <1>8, <1>6 DEF IInv, Exact

LEMMA OpenFileIInv ==
  ASSUME IInv, NEW p \in Procs, NEW f \in Files, OpenFile(p, f)
  PROVE  IInv'
<1>1. /\ status[p] = "alive" /\ f \notin live /\ ref' = [ref EXCEPT ![f] = 1]
      /\ UNCHANGED <<status, step, held, count>>
  BY DEF OpenFile
<1>2. CASE Open(p) # Fds
            /\ table' = [table EXCEPT ![p][First(Fds \ Open(p))] = f]
            /\ live' = live \cup {f}
  <2> DEFINE fd == First(Fds \ Open(p))
             row == [table[p] EXCEPT ![fd] = f]
  <2>1. fd \in Fds /\ table[p][fd] = NoFile
    <3>1. Fds \ Open(p) # {} /\ Fds \ Open(p) \subseteq Nat
      BY <1>2 DEF Open, Fds
    <3>2. fd \in Fds \ Open(p)
      BY <3>1, FirstIn
    <3> QED BY <3>2 DEF Open
  <2> HIDE DEF fd
  <2>2. /\ table' = [table EXCEPT ![p] = row]
        /\ row \in [Fds -> Files \cup {NoFile}]
    BY <1>2, <2>1 DEF IInv, TypeOK, fd
  <2>3. /\ table[p] \in [Fds -> Files \cup {NoFile}]
        /\ row[fd] = f /\ \A other \in Fds : other # fd => row[other] = table[p][other]
    BY <2>1 DEF IInv, TypeOK
  <2>4. TypeOK'
    <3>1. table' \in [Procs -> [Fds -> Files \cup {NoFile}]]
      BY <2>2 DEF IInv, TypeOK
    <3>2. \A q \in Procs : q # p => table'[q] = table[q]
      BY <2>2 DEF IInv, TypeOK
    <3>3. \A q \in Procs : status'[q] \in {"unused", "dead"} => Open(q)' = {}
      BY <1>1, <3>2 DEF IInv, TypeOK, Open
    <3>4. live' \subseteq Files /\ ref' \in [Files -> Nat \ {0}]
      BY <1>1, <1>2 DEF IInv, TypeOK
    <3> QED BY <1>1, <3>1, <3>3, <3>4 DEF IInv, TypeOK
  <2>5. Reading'
    BY <1>1, <2>2 DEF IInv, TypeOK, Reading
  <2>6. InHand'
    <3>1. step'[p] = "scan"
      BY <1>1 DEF IInv, TypeOK
    <3>2. \A q \in Procs \ {p} : /\ table'[q] = table[q] /\ step'[q] = step[q]
                                 /\ held'[q] = held[q] /\ count'[q] = count[q]
      BY <1>1, <2>2 DEF IInv, TypeOK
    <3>3. \A q \in Procs \ {p} : step[q] = "store" =>
            ref'[held[q]] = ref[held[q]] /\ held[q] \in live'
      BY <1>1, <1>2 DEF IInv, TypeOK, InHand
    <3> QED BY <3>1, <3>2, <3>3, InHandKept
  <2>7. ~Dying(p, "clear") /\ Standing' = [Standing EXCEPT ![p] = row]
    <3> HIDE DEF row
    <3> QED BY <1>1, <2>2, StandingStep DEF IInv, TypeOK, Dying
  <2>8. ASSUME NEW g \in Files
        PROVE  Cardinality(Shown(Standing', g)) = IF g \in live' THEN ref'[g] ELSE 0
    <3> HIDE DEF row
    <3>1. /\ Cardinality(Shown(Standing', g)) =
               Cardinality(Shown(Standing, g)) - Uses(p, g)
                 + Cardinality(InRow(row, g))
          /\ Uses(p, g) \in Nat /\ Uses(p, g) <= Cardinality(Shown(Standing, g))
          /\ Cardinality(Shown(Standing, g)) = IF g \in live THEN ref[g] ELSE 0
          /\ ref[g] \in Nat \ {0}
      BY <2>2, <2>7, Change
    <3>2. CASE g = f
      <4>1. Uses(p, f) = 0 /\ Cardinality(Shown(Standing, f)) = 0
        BY <1>1, <3>1, <3>2
      <4>2. \A other \in Fds : table[p][other] # f
        BY <4>1, UsesNone
      <4>3. \A other \in Fds : row[other] = f <=> other = fd
        BY <2>1, <2>3, <4>2
      <4>4. Cardinality(InRow(row, f)) = 1
        BY <2>1, <4>3, SingleRow
      <4>5. f \in live' /\ ref'[f] = 1
        BY <1>1, <1>2 DEF IInv, TypeOK
      <4> QED BY <3>1, <3>2, <4>1, <4>4, <4>5
    <3>3. CASE g # f
      <4>1. InRow(row, g) = {other \in Fds : table[p][other] = g}
        BY <2>1, <2>3, <3>3, OpenFilesAssumption DEF InRow
      <4>2. Cardinality(InRow(row, g)) = Uses(p, g)
        BY <4>1 DEF Uses
      <4>3. (g \in live' <=> g \in live) /\ ref'[g] = ref[g]
        BY <1>1, <1>2, <3>3 DEF IInv, TypeOK
      <4> QED BY <3>1, <4>2, <4>3
    <3> QED BY <3>2, <3>3
  <2> QED BY <2>4, <2>5, <2>8, <2>6 DEF IInv, Exact
<1>3. CASE live' = live /\ UNCHANGED table
  <2>1. TypeOK' /\ Reading'
    BY <1>1, <1>3 DEF IInv, TypeOK, Reading, Open
  <2>2. InHand'
    <3>1. \A q \in Procs : Open(q)' = Open(q)
      BY <1>3 DEF Open
    <3> QED BY <1>1, <1>3, <3>1 DEF IInv, TypeOK, InHand
  <2>3. Standing' = Standing
    BY <1>1, <1>3, SameStanding
  <2>4. Exact'
    BY <1>1, <1>3, <2>3 DEF IInv, TypeOK, Exact, Shown
  <2> QED BY <2>1, <2>2, <2>4 DEF IInv
<1> QED BY <1>2, <1>3 DEF OpenFile

LEMMA CloseFileIInv ==
  ASSUME ~Races, IInv, NEW p \in Procs, NEW fd \in Fds, CloseFile(p, fd)
  PROVE  IInv'
<1> DEFINE f == table[p][fd]
           row == [table[p] EXCEPT ![fd] = NoFile]
<1>1. /\ status[p] = "alive" /\ f # NoFile /\ f \in Files
      /\ table' = [table EXCEPT ![p][fd] = NoFile]
      /\ live' = {g \in live : g # f \/ ~Frees(f, 1)}
      /\ ref' = [ref EXCEPT ![f] = Left(f, 1)]
      /\ UNCHANGED <<status, step, held, count>>
  BY DEF CloseFile, IInv, TypeOK
<1>2. /\ table' = [table EXCEPT ![p] = row]
      /\ row \in [Fds -> Files \cup {NoFile}]
  BY <1>1 DEF IInv, TypeOK
<1>3. /\ row[fd] = NoFile /\ \A other \in Fds : other # fd => row[other] = table[p][other]
  BY DEF IInv, TypeOK
<1>4. Left(f, 1) \in Nat \ {0} /\ (Left(f, 1) = IF ref[f] > 1 THEN ref[f] - 1 ELSE 1)
      /\ (Frees(f, 1) <=> ref[f] <= 1)
  BY <1>1 DEF Left, Frees, IInv, TypeOK
<1>5. TypeOK'
  <2>1. table' \in [Procs -> [Fds -> Files \cup {NoFile}]]
    BY <1>2 DEF IInv, TypeOK
  <2>2. \A q \in Procs : q # p => table'[q] = table[q]
    BY <1>2 DEF IInv, TypeOK
  <2>3. \A q \in Procs : status'[q] \in {"unused", "dead"} => Open(q)' = {}
    BY <1>1, <2>2 DEF IInv, TypeOK, Open
  <2>4. live' \subseteq Files /\ ref' \in [Files -> Nat \ {0}]
    BY <1>1, <1>4 DEF IInv, TypeOK
  <2> QED BY <1>1, <2>1, <2>3, <2>4 DEF IInv, TypeOK
<1>6. Reading'
  BY <1>1, <1>2 DEF IInv, TypeOK, Reading
<1>7. InHand'
  <2>1. step'[p] = "scan"
    BY <1>1 DEF IInv, TypeOK
  <2>2. \A q \in Procs \ {p} : /\ table'[q] = table[q] /\ step'[q] = step[q]
                               /\ held'[q] = held[q] /\ count'[q] = count[q]
    BY <1>1, <1>2 DEF IInv, TypeOK
  <2>3. ASSUME NEW q \in Procs \ {p}, step[q] = "store"
        PROVE  ref'[held[q]] = ref[held[q]] /\ held[q] \in live'
    <3>1. held[q] \in live /\ held[q] # f
      BY <2>3 DEF CloseFile, Undisturbed, IInv, InHand
    <3> QED BY <1>1, <3>1 DEF IInv, TypeOK
  <2> QED BY <2>1, <2>2, <2>3, InHandKept
<1>8. ~Dying(p, "clear") /\ Standing' = [Standing EXCEPT ![p] = row]
  <2> HIDE DEF row
  <2> QED BY <1>1, <1>2, StandingStep DEF IInv, TypeOK, Dying
<1>9. ASSUME NEW g \in Files
      PROVE  Cardinality(Shown(Standing', g)) = IF g \in live' THEN ref'[g] ELSE 0
  <2>1. Cardinality(InRow(row, g)) = Uses(p, g) - (IF g = f THEN 1 ELSE 0)
    <3>1. table[p] \in [Fds -> Files \cup {NoFile}]
      BY DEF IInv, TypeOK
    <3>2. Cardinality(InRow(row, g)) =
            Cardinality(InRow(table[p], g)) - (IF g = f THEN 1 ELSE 0)
      BY <1>1, <3>1, RowLess
    <3> QED BY <3>2 DEF Uses, InRow
  <2> HIDE DEF row
  <2>2. /\ Cardinality(Shown(Standing', g)) =
             Cardinality(Shown(Standing, g)) - Uses(p, g)
               + Cardinality(InRow(row, g))
        /\ Uses(p, g) \in Nat /\ Uses(p, g) <= Cardinality(Shown(Standing, g))
        /\ Cardinality(Shown(Standing, g)) = IF g \in live THEN ref[g] ELSE 0
        /\ Cardinality(InRow(row, g)) \in Nat /\ ref[g] \in Nat \ {0}
    BY <1>2, <1>8, Change
  <2>3. CASE g = f
    <3>1. ref'[g] = Left(f, 1) /\ (g \in live' <=> g \in live /\ ~Frees(f, 1))
      BY <1>1, <2>3 DEF IInv, TypeOK
    <3> HIDE DEF f
    <3> QED BY <1>4, <2>1, <2>2, <2>3, <3>1
  <2>4. CASE g # f
    <3>1. (g \in live' <=> g \in live) /\ ref'[g] = ref[g]
      BY <1>1, <2>4 DEF IInv, TypeOK
    <3> QED BY <2>1, <2>2, <2>4, <3>1
  <2> QED BY <2>3, <2>4
<1> QED BY <1>5, <1>6, <1>7, <1>9 DEF IInv, Exact

LEMMA CleanupIInv ==
  ASSUME ~Races, IInv, NEW p \in Procs, Cleanup(p), ~Dying(p, "clear")
  PROVE  IInv'
<1>1. /\ live' = {f \in live : ~Frees(f, Uses(p, f))}
      /\ ref' = [f \in Files |-> Left(f, Uses(p, f))]
      /\ table' = [table EXCEPT ![p] = Closed]
      /\ status' = [status EXCEPT ![p] = "dead"]
      /\ step' = [step EXCEPT ![p] = "scan"]
      /\ held' = [held EXCEPT ![p] = NoFile]
      /\ count' = [count EXCEPT ![p] = 0]
  BY DEF Cleanup
<1>2. Closed \in [Fds -> Files \cup {NoFile}]
  BY DEF Closed
<1>3. Standing' = [Standing EXCEPT ![p] = Closed]
  BY <1>1, <1>2, StandingStep DEF IInv, TypeOK
<1>4. ASSUME NEW f \in Files
      PROVE  /\ Cardinality(Shown(Standing', f)) =
                  Cardinality(Shown(Standing, f)) - Uses(p, f)
             /\ Uses(p, f) \in Nat /\ Uses(p, f) <= Cardinality(Shown(Standing, f))
             /\ Cardinality(Shown(Standing, f)) = IF f \in live THEN ref[f] ELSE 0
             /\ ref[f] \in Nat \ {0}
  <2>1. \A fd \in Fds : Closed[fd] # f
    BY OpenFilesAssumption DEF Closed
  <2>2. Cardinality(InRow(Closed, f)) = 0
    BY <2>1, EmptyRow
  <2>3. /\ Cardinality(Shown(Standing', f)) =
             Cardinality(Shown(Standing, f)) - Uses(p, f)
               + Cardinality(InRow(Closed, f))
        /\ Uses(p, f) \in Nat /\ Uses(p, f) <= Cardinality(Shown(Standing, f))
        /\ Cardinality(Shown(Standing, f)) = IF f \in live THEN ref[f] ELSE 0
        /\ ref[f] \in Nat \ {0}
    BY <1>2, <1>3, Change
  <2> QED BY <2>2, <2>3, ShownFinite
<1>5. ASSUME NEW f \in Files
      PROVE  Left(f, Uses(p, f)) \in Nat \ {0}
  BY <1>4 DEF Left
<1>6. TypeOK'
  <2>1. table' \in [Procs -> [Fds -> Files \cup {NoFile}]]
    BY <1>1, <1>2 DEF IInv, TypeOK
  <2>2. live' \subseteq Files /\ ref' \in [Files -> Nat \ {0}]
    BY <1>1, <1>5 DEF IInv, TypeOK
  <2>3. \A q \in Procs : status'[q] \in {"unused", "dead"} => Open(q)' = {}
    BY <1>1 DEF IInv, TypeOK, Open, Closed
  <2>4. /\ status' \in [Procs -> {"unused", "alive", "reading", "dying", "dead"}]
        /\ step' \in [Procs -> {"scan", "store", "clear"}]
        /\ held' \in [Procs -> Files \cup {NoFile}] /\ count' \in [Procs -> Nat]
        /\ \A q \in Procs : status'[q] # "dying" => step'[q] = "scan"
    BY <1>1 DEF IInv, TypeOK
  <2> QED BY <2>1, <2>2, <2>3, <2>4 DEF TypeOK
<1>7. Reading'
  BY <1>1 DEF IInv, TypeOK, Reading
<1>8. InHand'
  <2>1. step'[p] = "scan"
    BY <1>1 DEF IInv, TypeOK
  <2>2. \A q \in Procs \ {p} : /\ table'[q] = table[q] /\ step'[q] = step[q]
                               /\ held'[q] = held[q] /\ count'[q] = count[q]
    BY <1>1 DEF IInv, TypeOK
  <2>3. ASSUME NEW q \in Procs \ {p}, step[q] = "store"
        PROVE  ref'[held[q]] = ref[held[q]] /\ held[q] \in live'
    <3>1. held[q] \in live /\ held[q] \in Files /\ ref[held[q]] \in Nat \ {0}
      BY <2>3 DEF IInv, TypeOK, InHand
    <3>2. held[q] \notin FilesOf(p)
      BY <2>3 DEF Cleanup, Undisturbed
    <3>3. \A fd \in Fds : table[p][fd] # held[q]
      BY <3>1, <3>2, OpenFilesAssumption DEF FilesOf, Open
    <3>4. Uses(p, held[q]) = 0
      BY <3>3, EmptyRow DEF Uses, InRow
    <3> QED BY <1>1, <3>1, <3>4 DEF Left, Frees
  <2> QED BY <2>1, <2>2, <2>3, InHandKept
<1>9. ASSUME NEW f \in Files
      PROVE  Cardinality(Shown(Standing', f)) = IF f \in live' THEN ref'[f] ELSE 0
  <2>1. /\ f \in live' <=> f \in live /\ ~(Uses(p, f) > 0 /\ ref[f] <= Uses(p, f))
        /\ ref'[f] = IF ref[f] > Uses(p, f) THEN ref[f] - Uses(p, f) ELSE 1
    BY <1>1 DEF Frees, Left
  <2>2. /\ Cardinality(Shown(Standing', f)) =
             Cardinality(Shown(Standing, f)) - Uses(p, f)
        /\ Uses(p, f) \in Nat /\ Uses(p, f) <= Cardinality(Shown(Standing, f))
        /\ Cardinality(Shown(Standing, f)) = IF f \in live THEN ref[f] ELSE 0
        /\ ref[f] \in Nat \ {0}
    BY <1>4
  <2>3. CASE f \in live
    <3>1. Uses(p, f) <= ref[f]
      BY <2>2, <2>3
    <3> QED BY <2>1, <2>2, <2>3, <3>1
  <2>4. CASE f \notin live
    BY <2>1, <2>2, <2>4
  <2> QED BY <2>3, <2>4
<1> QED BY <1>6, <1>7, <1>9, <1>8 DEF IInv, Exact

(* The steps that leave every table and count alone.                         *)
LEMMA QuietIInv ==
  ASSUME IInv, NEW p \in Procs,
         Reap(p) \/ Trap(p) \/ ReadReturns(p) \/ \E fd \in Fds : ReadWaits(p, fd)
  PROVE  IInv'
<1>1. /\ UNCHANGED <<table, live, ref, step, count>>
      /\ \/ /\ status[p] = "dead" /\ status' = [status EXCEPT ![p] = "unused"]
            /\ held' = held
         \/ /\ status[p] = "alive" /\ status' = [status EXCEPT ![p] = "dying"]
            /\ held' = held
         \/ /\ status[p] = "reading" /\ status' = [status EXCEPT ![p] = "alive"]
            /\ held' = [held EXCEPT ![p] = NoFile]
         \/ \E fd \in Fds :
              /\ status[p] = "alive" /\ table[p][fd] # NoFile
              /\ status' = [status EXCEPT ![p] = "reading"]
              /\ held' = [held EXCEPT ![p] = table[p][fd]]
  BY DEF Reap, Trap, ReadReturns, ReadWaits
<1>2. step[p] = "scan"
  BY <1>1 DEF IInv, TypeOK
<1>3. /\ status' \in [Procs -> {"unused", "alive", "reading", "dying", "dead"}]
      /\ held' \in [Procs -> Files \cup {NoFile}]
      /\ \A q \in Procs \ {p} : status'[q] = status[q] /\ held'[q] = held[q]
  <2>1. /\ table \in [Procs -> [Fds -> Files \cup {NoFile}]]
        /\ held \in [Procs -> Files \cup {NoFile}]
        /\ status \in [Procs -> {"unused", "alive", "reading", "dying", "dead"}]
    BY DEF IInv, TypeOK
  <2>2. /\ status' \in [Procs -> {"unused", "alive", "reading", "dying", "dead"}]
        /\ \A q \in Procs \ {p} : status'[q] = status[q]
    BY <1>1, <2>1
  <2>3. CASE held' = held
    BY <2>1, <2>2, <2>3
  <2>4. CASE held' = [held EXCEPT ![p] = NoFile]
    BY <2>1, <2>2, <2>4
  <2>5. CASE \E fd \in Fds : held' = [held EXCEPT ![p] = table[p][fd]]
    BY <2>1, <2>2, <2>5
  <2> QED BY <1>1, <2>2, <2>3, <2>4, <2>5
<1>4. TypeOK'
  <2>1. \A q \in Procs : status'[q] \in {"unused", "dead"} => Open(q)' = {}
    BY <1>1 DEF IInv, TypeOK, Open
  <2>2. \A q \in Procs : status'[q] # "dying" => step'[q] = "scan"
    BY <1>1, <1>2, <1>3 DEF IInv, TypeOK
  <2> QED BY <1>1, <1>3, <2>1, <2>2 DEF IInv, TypeOK
<1>5. Reading'
  BY <1>1 DEF IInv, TypeOK, Reading
<1>6. InHand'
  <2>1. \A q \in Procs \ {p} : step[q] = "store" =>
          ref'[held[q]] = ref[held[q]] /\ held[q] \in live'
    BY <1>1 DEF IInv, InHand
  <2> QED BY <1>1, <1>2, <1>3, <2>1, InHandKept
<1>7. Exact'
  <2>1. \A q \in Procs : Dying(q, "clear")' <=> Dying(q, "clear")
    BY <1>1, <1>2, <1>3 DEF Dying, Open
  <2>2. \A q \in Procs : Open(q)' = Open(q)
    BY <1>1 DEF Open
  <2>3. Standing' = Standing
    BY <1>1, <2>1, <2>2 DEF Standing
  <2> QED BY <1>1, <2>3 DEF IInv, Exact, Shown
<1> QED BY <1>4, <1>5, <1>6, <1>7 DEF IInv

-----------------------------------------------------------------------------
(* The steps of a vfs_close with interrupts on.                              *)

LEMMA FirstOpen ==
  ASSUME IInv, NEW p \in Procs, Open(p) # {}
  PROVE  /\ First(Open(p)) \in Fds
         /\ table[p][First(Open(p))] \in Files
<1>1. First(Open(p)) \in Open(p)
  BY FirstIn DEF Open
<1> QED BY <1>1 DEF Open, IInv, TypeOK

(* The step in which p closes its first file.                                *)
LEMMA Dropped ==
  ASSUME IInv, NEW p \in Procs, NEW s, Dying(p, s), s # "clear", step'[p] = "clear",
         UNCHANGED <<status, table>>,
         \A q \in Procs \ {p} : step'[q] = step[q],
         NEW g \in Files
  PROVE  Cardinality(Shown(Standing', g)) =
           (IF g \in live THEN ref[g] ELSE 0)
             - (IF g = table[p][First(Open(p))] THEN 1 ELSE 0)
<1> DEFINE fd == First(Open(p))
           row == [table[p] EXCEPT ![fd] = NoFile]
<1>1. fd \in Fds /\ table[p][fd] \in Files
  BY FirstOpen DEF Dying
<1>2. \A q \in Procs : Open(q)' = Open(q)
  BY DEF Open
<1>3. table[p] \in [Fds -> Files \cup {NoFile}] /\ ~Dying(p, "clear")
  BY DEF IInv, TypeOK, Dying
<1>4. Standing' = [Standing EXCEPT ![p] = row]
  <2>1. Standing'[p] = row
    <3>1. Dying(p, "clear")'
      BY <1>2 DEF Dying
    <3>2. Standing'[p] = [d \in Fds |-> IF d = fd THEN NoFile ELSE table[p][d]]
      BY <1>2, <3>1 DEF Standing
    <3> QED BY <1>1, <1>3, <3>2
  <2>2. ASSUME NEW q \in Procs \ {p}
        PROVE  Standing'[q] = Standing[q]
    BY <1>2 DEF Standing, Dying
  <2>3. Standing' = [q \in Procs |-> Standing'[q]] /\ Standing = [q \in Procs |-> Standing[q]]
    BY DEF Standing
  <2> HIDE DEF row
  <2> QED BY <2>1, <2>2, <2>3
<1>5. Cardinality(InRow(row, g)) =
        Uses(p, g) - (IF g = table[p][fd] THEN 1 ELSE 0)
  <2>1. Cardinality(InRow(row, g)) =
          Cardinality(InRow(table[p], g)) - (IF g = table[p][fd] THEN 1 ELSE 0)
    BY <1>1, <1>3, RowLess
  <2> QED BY <2>1 DEF Uses, InRow
<1>6. row \in [Fds -> Files \cup {NoFile}]
  BY <1>3
<1> HIDE DEF row, fd
<1>7. /\ Cardinality(Shown(Standing', g)) =
           Cardinality(Shown(Standing, g)) - Uses(p, g) + Cardinality(InRow(row, g))
      /\ Uses(p, g) \in Nat /\ Uses(p, g) <= Cardinality(Shown(Standing, g))
      /\ Cardinality(Shown(Standing, g)) = IF g \in live THEN ref[g] ELSE 0
      /\ Cardinality(InRow(row, g)) \in Nat /\ ref[g] \in Nat \ {0}
  BY <1>3, <1>4, <1>6, Change
<1> QED BY <1>5, <1>7 DEF fd

LEMMA ReadCountIInv ==
  ASSUME ~Races, IInv, NEW p \in Procs, ReadCount(p)
  PROVE  IInv'
<1> DEFINE f == table[p][First(Open(p))]
<1>1. /\ Dying(p, "scan") /\ held' = [held EXCEPT ![p] = f]
      /\ UNCHANGED <<status, table, ref>>
      /\ \A q \in Procs \ {p} : step[q] = "store" => held[q] # f
  BY DEF ReadCount, Undisturbed
<1>2. f \in Files /\ f \in live /\ ref[f] \in Nat \ {0}
  <2>1. First(Open(p)) \in Fds /\ f \in Files
    BY <1>1, FirstOpen DEF Dying
  <2>2. ~Dying(p, "clear")
    BY <1>1 DEF Dying
  <2>3. f \in live
    BY <2>1, <2>2, ShownIsLive, OpenFilesAssumption
  <2> QED BY <2>1, <2>3 DEF IInv, TypeOK
<1>3. \A q \in Procs : Open(q)' = Open(q)
  BY <1>1 DEF Open
<1>4. held' \in [Procs -> Files \cup {NoFile}] /\ held'[p] = f
  BY <1>1, <1>2 DEF IInv, TypeOK
<1>5. Reading'
  BY <1>1, <1>4 DEF IInv, TypeOK, Reading, Dying
<1>6. CASE /\ ref[f] > 1 /\ count' = [count EXCEPT ![p] = ref[f]]
           /\ step' = [step EXCEPT ![p] = "store"] /\ UNCHANGED live
  <2>1. TypeOK'
    BY <1>1, <1>2, <1>3, <1>4, <1>6 DEF IInv, TypeOK, Dying
  <2>2. InHand'
    BY <1>1, <1>2, <1>3, <1>4, <1>6 DEF IInv, TypeOK, InHand, Dying
  <2>3. \A q \in Procs : Dying(q, "clear")' <=> Dying(q, "clear")
    BY <1>1, <1>3, <1>6 DEF IInv, TypeOK, Dying
  <2>4. Standing' = Standing
    BY <1>1, <1>3, <2>3 DEF Standing
  <2>5. Exact'
    BY <1>1, <1>6, <2>4 DEF IInv, Exact, Shown
  <2> QED BY <1>5, <2>1, <2>2, <2>5 DEF IInv
<1>7. CASE /\ ref[f] <= 1 /\ live' = live \ {f}
           /\ step' = [step EXCEPT ![p] = "clear"] /\ UNCHANGED count
  <2>1. TypeOK'
    BY <1>1, <1>2, <1>3, <1>4, <1>7 DEF IInv, TypeOK, Dying
  <2>2. InHand'
    BY <1>1, <1>2, <1>3, <1>4, <1>7 DEF IInv, TypeOK, InHand, Dying
  <2>3. step'[p] = "clear" /\ \A q \in Procs \ {p} : step'[q] = step[q]
    BY <1>7 DEF IInv, TypeOK
  <2>4. ASSUME NEW g \in Files
        PROVE  Cardinality(Shown(Standing', g)) = IF g \in live' THEN ref'[g] ELSE 0
    <3>1. Cardinality(Shown(Standing', g)) =
            (IF g \in live THEN ref[g] ELSE 0) - (IF g = f THEN 1 ELSE 0)
      BY <1>1, <2>3, Dropped
    <3>2. ref[g] \in Nat \ {0} /\ ref'[g] = ref[g] /\ (g \in live' <=> g \in live /\ g # f)
      BY <1>1, <1>7 DEF IInv, TypeOK
    <3> HIDE DEF f
    <3> QED BY <1>2, <1>7, <3>1, <3>2
  <2> QED BY <1>5, <2>1, <2>2, <2>4 DEF IInv, Exact
<1> QED BY <1>2, <1>6, <1>7 DEF ReadCount, Frees

LEMMA StoreCountIInv ==
  ASSUME IInv, NEW p \in Procs, StoreCount(p)
  PROVE  IInv'
<1> DEFINE f == held[p]
<1>1. /\ Dying(p, "store") /\ ref' = [ref EXCEPT ![f] = count[p] - 1]
      /\ count' = [count EXCEPT ![p] = 0] /\ step' = [step EXCEPT ![p] = "clear"]
      /\ UNCHANGED <<status, table, live, held>>
  BY DEF StoreCount
<1>2. /\ f = table[p][First(Open(p))] /\ f \in live /\ f \in Files
      /\ count[p] = ref[f] /\ count[p] > 1 /\ ref[f] \in Nat \ {0}
      /\ \A q \in Procs \ {p} : step[q] = "store" => held[q] # f
  BY <1>1 DEF IInv, TypeOK, InHand, Dying
<1>3. \A q \in Procs : Open(q)' = Open(q)
  BY <1>1 DEF Open
<1>4. step'[p] = "clear" /\ \A q \in Procs \ {p} : step'[q] = step[q]
  BY <1>1 DEF IInv, TypeOK
<1>5. ref' \in [Files -> Nat \ {0}] /\ \A g \in Files \ {f} : ref'[g] = ref[g]
  <2>1. count[p] - 1 \in Nat \ {0}
    BY <1>2
  <2> QED BY <1>1, <2>1 DEF IInv, TypeOK
<1>6. TypeOK'
  BY <1>1, <1>3, <1>5 DEF IInv, TypeOK, Dying
<1>7. Reading'
  BY <1>1 DEF IInv, Reading
<1>8. InHand'
  <2>1. /\ \A q \in Procs \ {p} : count'[q] = count[q]
        /\ \A q \in Procs : step[q] = "store" => held[q] \in live /\ held[q] \in Files
    BY <1>1 DEF IInv, TypeOK, InHand
  <2> QED BY <1>1, <1>2, <1>3, <1>4, <1>5, <2>1 DEF IInv, InHand, Dying
<1>9. ASSUME NEW g \in Files
      PROVE  Cardinality(Shown(Standing', g)) = IF g \in live' THEN ref'[g] ELSE 0
  <2>1. Cardinality(Shown(Standing', g)) =
          (IF g \in live THEN ref[g] ELSE 0) - (IF g = f THEN 1 ELSE 0)
    BY <1>1, <1>2, <1>4, Dropped
  <2>2. g # f => ref'[g] = ref[g]
    BY <1>5
  <2>3. g = f => ref'[g] = ref[f] - 1
    BY <1>1, <1>2 DEF IInv, TypeOK
  <2>4. ref[g] \in Nat \ {0}
    BY DEF IInv, TypeOK
  <2> HIDE DEF f
  <2> QED BY <1>1, <1>2, <2>1, <2>2, <2>3, <2>4
<1> QED BY <1>6, <1>7, <1>8, <1>9 DEF IInv, Exact

LEMMA ClearIInv ==
  ASSUME IInv, NEW p \in Procs, Clear(p)
  PROVE  IInv'
<1> DEFINE fd == First(Open(p))
           row == [table[p] EXCEPT ![fd] = NoFile]
<1>1. /\ Dying(p, "clear") /\ table' = [table EXCEPT ![p][fd] = NoFile]
      /\ step' = [step EXCEPT ![p] = "scan"] /\ held' = [held EXCEPT ![p] = NoFile]
      /\ UNCHANGED <<status, live, ref, count>>
  BY DEF Clear
<1>2. fd \in Fds /\ table[p] \in [Fds -> Files \cup {NoFile}]
  BY <1>1, FirstOpen DEF Dying, IInv, TypeOK
<1>3. /\ table' = [table EXCEPT ![p] = row] /\ row \in [Fds -> Files \cup {NoFile}]
      /\ row = [d \in Fds |-> IF d = fd THEN NoFile ELSE table[p][d]]
  BY <1>1, <1>2 DEF IInv, TypeOK
<1> HIDE DEF row
<1>4. /\ table'[p] = row /\ step'[p] = "scan"
      /\ \A q \in Procs \ {p} : /\ table'[q] = table[q] /\ step'[q] = step[q]
                                /\ held'[q] = held[q] /\ count'[q] = count[q]
  BY <1>1, <1>3 DEF IInv, TypeOK
<1>5. \A q \in Procs \ {p} : Open(q)' = Open(q)
  BY <1>4 DEF Open
<1>6. TypeOK'
  <2>1. table' \in [Procs -> [Fds -> Files \cup {NoFile}]]
    BY <1>3 DEF IInv, TypeOK
  <2>2. \A q \in Procs : status'[q] \in {"unused", "dead"} => Open(q)' = {}
    BY <1>1, <1>5 DEF IInv, TypeOK, Dying
  <2> QED BY <1>1, <1>4, <2>1, <2>2 DEF IInv, TypeOK
<1>7. Reading'
  BY <1>1, <1>4 DEF IInv, Reading, Dying
<1>8. InHand'
  BY <1>1, <1>4, InHandKept DEF IInv, InHand
<1>9. Standing' = Standing
  <2>1. Standing'[p] = Standing[p]
    <3>1. Standing'[p] = [d \in Fds |-> row[d]]
      BY <1>4 DEF Standing, Dying
    <3>2. Standing[p] = [d \in Fds |-> IF d = fd THEN NoFile ELSE table[p][d]]
      BY <1>1 DEF Standing
    <3> QED BY <1>3, <3>1, <3>2
  <2>2. ASSUME NEW q \in Procs \ {p}
        PROVE  Standing'[q] = Standing[q]
    BY <1>1, <1>4, <1>5 DEF Standing, Dying
  <2>3. Standing' = [q \in Procs |-> Standing'[q]] /\ Standing = [q \in Procs |-> Standing[q]]
    BY DEF Standing
  <2> QED BY <2>1, <2>2, <2>3
<1>10. Exact'
  BY <1>1, <1>9 DEF IInv, Exact, Shown
<1> QED BY <1>6, <1>7, <1>8, <1>10 DEF IInv

-----------------------------------------------------------------------------
LEMMA StutterIInv ==
  ASSUME IInv, UNCHANGED vars
  PROVE  IInv'
<1>1. Standing' = Standing
  BY SameStanding DEF vars
<1>2. \A q \in Procs : Open(q)' = Open(q)
  BY DEF vars, Open
<1> QED BY <1>1, <1>2 DEF vars, IInv, TypeOK, InHand, Reading, Exact, Shown

LEMMA NextIInv ==
  ASSUME ~Races, IInv, [Next]_vars
  PROVE  IInv'
<1>1. CASE UNCHANGED vars
  BY <1>1, StutterIInv
<1>2. ASSUME NEW p \in Procs,
             \/ Create(p) \/ NoMemory(p) \/ Exit(p) \/ Reap(p) \/ Trap(p)
             \/ ReadCount(p) \/ StoreCount(p) \/ Clear(p) \/ Gone(p) \/ ReadReturns(p)
             \/ \E q \in Procs : Fork(p, q) \/ Stop(p, q)
             \/ \E f \in Files : OpenFile(p, f)
             \/ \E fd \in Fds : CloseFile(p, fd) \/ ReadWaits(p, fd)
      PROVE  IInv'
  <2>1. CASE Create(p)
    BY <2>1, CreateIInv
  <2>2. CASE NoMemory(p)
    BY <2>2, StutterIInv DEF NoMemory
  <2>3. CASE Exit(p)
    BY <2>3, CleanupIInv DEF Exit, Dying
  <2>4. CASE Reap(p) \/ Trap(p) \/ ReadReturns(p) \/ \E fd \in Fds : ReadWaits(p, fd)
    BY <2>4, QuietIInv
  <2>5. CASE ReadCount(p)
    BY <2>5, ReadCountIInv
  <2>6. CASE StoreCount(p)
    BY <2>6, StoreCountIInv
  <2>7. CASE Clear(p)
    BY <2>7, ClearIInv
  <2>8. CASE Gone(p)
    BY <2>8, CleanupIInv DEF Gone, Dying
  <2>9. CASE \E q \in Procs : Fork(p, q)
    BY <2>9, ForkIInv
  <2>10. CASE \E q \in Procs : Stop(p, q)
    BY <2>10, CleanupIInv DEF Stop, Dying
  <2>11. CASE \E f \in Files : OpenFile(p, f)
    BY <2>11, OpenFileIInv
  <2>12. CASE \E fd \in Fds : CloseFile(p, fd)
    BY <2>12, CloseFileIInv
  <2> QED
    BY <1>2, <2>1, <2>2, <2>3, <2>4, <2>5, <2>6, <2>7, <2>8, <2>9, <2>10, <2>11, <2>12
<1> QED BY <1>1, <1>2 DEF Next

-----------------------------------------------------------------------------
LEMMA AlwaysIInv ==
  ASSUME ~Races
  PROVE  Spec => []IInv
<1>1. Init => IInv
  BY InitIInv
<1>2. IInv /\ [Next]_vars => IInv'
  BY NextIInv
<1> QED BY <1>1, <1>2, PTL DEF Spec

(* Every allocated open file has as many references as its ref_count says,   *)
(* at least one, and no descriptor shows a freed file, through fork, open,   *)
(* close, exit, stop and the end by a trap with interrupts on, as long as    *)
(* nobody meets another in the middle of a vfs_close (vfs.c, syscall.c), for *)
(* any number of processes, files and descriptors.                           *)
THEOREM FileCounts ==
  ASSUME ~Races
  PROVE  Spec => []CountsExact
<1>1. IInv => CountsExact
  BY ShownIsCounted DEF IInv, Exact, CountsExact
<1> QED BY <1>1, AlwaysIInv, PTL

(* A read that waits for the UART with the hart given up still has its file  *)
(* when it goes on, although it took no reference to it (devfs_uart_read).   *)
THEOREM ReadersKeepFiles ==
  ASSUME ~Races
  PROVE  Spec => []ReaderKeepsFile
<1>1. ASSUME IInv PROVE ReaderKeepsFile
  <2>1. SUFFICES ASSUME NEW p \in Procs, status[p] = "reading"
                 PROVE  held[p] \in live
    BY DEF ReaderKeepsFile
  <2>2. PICK fd \in Fds : table[p][fd] = held[p] /\ held[p] # NoFile
    BY <1>1, <2>1 DEF IInv, Reading
  <2>3. ~Dying(p, "clear")
    BY <2>1 DEF Dying
  <2> QED BY <1>1, <2>2, <2>3, ShownIsLive
<1> QED BY <1>1, AlwaysIInv, PTL
=============================================================================
