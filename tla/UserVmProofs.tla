---------------------------- MODULE UserVmProofs ----------------------------
(***************************************************************************)
(* Address spaces stay apart, for any number of processes, pages, frames   *)
(* and programs.                                                           *)
(*                                                                         *)
(* The argument: an entry of a page table points to the frame recorded for *)
(* its page, and lets through what the area permits, or that without       *)
(* stores and then it is marked (PageOK).  A frame is at most one page of  *)
(* a process (Apart), so the count of a frame, which is that of its owners *)
(* (Exact), tells whether a marked page is shared; and so no frame that    *)
(* two pages show is ever writable.                                        *)
(***************************************************************************)
EXTENDS UserVm, MmapArea, FiniteSetTheorems, WellFoundedInduction, TLAPS

Rights == (SUBSET {"r", "w", "x"}) \cup {NoProt}
Entries == [frame : Frames \cup {NoFrame}, allow : SUBSET Kinds, cow : BOOLEAN]

(* A page with the protection pr, the recorded frame fr and the entry e.     *)
PageOK(pr, fr, e) ==
  /\ e.frame = fr
  /\ fr = NoFrame => e = NoEntry
  /\ fr # NoFrame =>
       /\ pr # NoProt
       /\ \/ ~e.cow /\ e.allow = Allowed(pr)
          \/ e.cow /\ "store" \in Allowed(pr) /\ e.allow = Allowed(pr) \ {"store"}
Recorded == \A p \in Procs, v \in Pages : PageOK(prot[p][v], frame[p][v], pte[p][v])

(* No frame is two pages of one process, or a page and its signal stack.     *)
Apart ==
  \A p \in Procs, v \in Pages :
    frame[p][v] # NoFrame =>
      /\ sig[p] # frame[p][v]
      /\ \A w \in Pages : frame[p][w] = frame[p][v] => w = v

(* A slot without a process owns nothing.                                    *)
Bare ==
  \A p \in Procs : life[p] = "none" => frame[p] = NoFrames /\ sig[p] = NoFrame

Has(p, f) == sig[p] = f \/ \E v \in Pages : frame[p][v] = f
Owners(f) == {p \in Procs : Has(p, f)}
Exact == \A f \in Frames : refs[f] = Cardinality(Owners(f))

IInv == TypeOK /\ Recorded /\ Apart /\ Bare /\ Exact /\ WritableIsPrivate

-----------------------------------------------------------------------------
(* Entries and frames.                                                       *)

LEMMA Types ==
  ASSUME IInv, NEW p \in Procs, NEW v \in Pages
  PROVE  /\ prot[p][v] \in Rights /\ frame[p][v] \in Frames \cup {NoFrame}
         /\ pte[p][v] \in Entries /\ sig[p] \in Frames \cup {NoFrame}
         /\ PageOK(prot[p][v], frame[p][v], pte[p][v])
BY DEF IInv, TypeOK, Recorded, Rights, Entries

LEMMA AllowedKinds ==
  ASSUME NEW pr
  PROVE  Allowed(pr) \in SUBSET Kinds /\ Allowed(NoProt) = {}
BY DEF Allowed, NoProt

LEMMA NewEntry ==
  ASSUME NEW f \in Frames, NEW pr \in Rights, pr # NoProt
  PROVE  Entry(f, pr) \in Entries /\ PageOK(pr, f, Entry(f, pr))
BY AllowedKinds, UserVmAssumption DEF Entry, Entries, PageOK

LEMMA NothingMapped ==
  ASSUME NEW pr
  PROVE  NoEntry \in Entries /\ PageOK(pr, NoFrame, NoEntry)
BY DEF NoEntry, Entries, PageOK

LEMMA Marked ==
  ASSUME NEW e \in Entries
  PROVE  /\ MakeCow(e) \in Entries /\ MakeCow(e).frame = e.frame
         /\ "store" \notin MakeCow(e).allow
         /\ \A pr, fr : PageOK(pr, fr, e) => PageOK(pr, fr, MakeCow(e))
<1>1. CASE "store" \in e.allow
  <2>1. MakeCow(e) = [frame |-> e.frame, allow |-> e.allow \ {"store"}, cow |-> TRUE]
    <3>1. e = [frame |-> e.frame, allow |-> e.allow, cow |-> e.cow]
      BY DEF Entries
    <3> QED BY <1>1, <3>1 DEF MakeCow
  <2>2. MakeCow(e) \in Entries
    BY <2>1 DEF Entries
  <2>3. ASSUME NEW pr, NEW fr, PageOK(pr, fr, e)
        PROVE  PageOK(pr, fr, MakeCow(e))
    <3>1. fr # NoFrame
      BY <1>1, <2>3 DEF PageOK, NoEntry
    <3> QED BY <1>1, <2>1, <2>3, <3>1 DEF PageOK
  <2>4. MakeCow(e).frame = e.frame /\ "store" \notin MakeCow(e).allow
    BY <2>1
  <2>5. \A pr, fr : PageOK(pr, fr, e) => PageOK(pr, fr, MakeCow(e))
    BY <2>3
  <2> QED BY <2>2, <2>4, <2>5
<1>2. CASE "store" \notin e.allow
  BY <1>2 DEF MakeCow
<1> QED BY <1>1, <1>2

LEMMA Restored ==
  ASSUME NEW e \in Entries, NEW pr \in Rights, NEW f \in Frames,
         e.cow, PageOK(pr, e.frame, e)
  PROVE  Writable(f, e) \in Entries /\ PageOK(pr, f, Writable(f, e))
<1>1. e.frame # NoFrame
  BY DEF PageOK, NoEntry
<1>2. /\ pr # NoProt /\ "store" \in Allowed(pr) /\ e.allow = Allowed(pr) \ {"store"}
  BY <1>1 DEF PageOK
<1>3. e.allow \cup {"store"} = Allowed(pr)
  BY <1>2
<1> QED BY <1>2, <1>3, AllowedKinds, UserVmAssumption DEF Writable, Entries, PageOK

-----------------------------------------------------------------------------
(* Counting owners.                                                          *)

LEMMA OwnedIsHad ==
  ASSUME NEW f \in Frames, NEW p
  PROVE  f \in Owned(p) <=> Has(p, f)
BY UserVmAssumption DEF Owned, Has

LEMMA Count ==
  ASSUME NEW S \in SUBSET Procs
  PROVE  /\ IsFiniteSet(S) /\ Cardinality(S) \in Nat
         /\ Cardinality(S) = 0 <=> S = {}
         /\ \A p \in Procs \ S : Cardinality(S \cup {p}) = Cardinality(S) + 1
         /\ \A p \in S : Cardinality(S \ {p}) = Cardinality(S) - 1
<1>1. IsFiniteSet(S)
  BY FS_Subset, UserVmAssumption
<1>2. Cardinality(S) \in Nat /\ (Cardinality(S) = 0 <=> S = {})
  BY <1>1, FS_CardinalityType, FS_EmptySet
<1>3. \A p \in Procs \ S : Cardinality(S \cup {p}) = Cardinality(S) + 1
  BY <1>1, FS_AddElement
<1>4. \A p \in S : Cardinality(S \ {p}) = Cardinality(S) - 1
  BY <1>1, FS_RemoveElement
<1> QED BY <1>1, <1>2, <1>3, <1>4

(* A frame nobody refers to is nobody's.                                     *)
LEMMA FreeIsNobodys ==
  ASSUME IInv, NEW f \in FreeFrames, NEW p \in Procs
  PROVE  f \in Frames /\ sig[p] # f /\ \A v \in Pages : frame[p][v] # f /\ pte[p][v].frame # f
<1>1. f \in Frames /\ Cardinality(Owners(f)) = 0
  BY DEF FreeFrames, IInv, Exact
<1>2. Owners(f) \in SUBSET Procs
  BY DEF Owners
<1>3. ~Has(p, f)
  BY <1>1, <1>2, Count DEF Owners
<1> QED BY <1>1, <1>3, Types DEF Has, PageOK

LEMMA FreshIsFree ==
  ASSUME FreeFrames # {}
  PROVE  Fresh \in FreeFrames
BY DEF Fresh

-----------------------------------------------------------------------------
(* The steps.  Sound is what they keep of the tables, the counts and the     *)
(* frames; the rest of the types is easy.                                    *)

Shape ==
  /\ prot \in [Procs -> [Pages -> Rights]]
  /\ frame \in [Procs -> [Pages -> Frames \cup {NoFrame}]]
  /\ pte \in [Procs -> [Pages -> Entries]]
  /\ sig \in [Procs -> Frames \cup {NoFrame}]
  /\ refs \in [Frames -> Nat]
Sound == Shape /\ Recorded /\ Apart /\ Exact /\ WritableIsPrivate

LEMMA IInvShape == IInv => Shape
BY DEF IInv, TypeOK, Shape, Rights, Entries

LEMMA OwnersCounted ==
  ASSUME NEW f
  PROVE  Owners(f) \in SUBSET Procs /\ Cardinality(Owners(f)) \in Nat
<1>1. Owners(f) \in SUBSET Procs
  BY DEF Owners
<1> QED BY <1>1, Count

(* Start, exec and kill_zombies: everything the process had is put back.     *)
LEMMA EmptiedStep ==
  ASSUME IInv, NEW p \in Procs, NEW pr \in [Pages -> Rights],
         prot' = [prot EXCEPT ![p] = pr],
         frame' = [frame EXCEPT ![p] = NoFrames],
         pte' = [pte EXCEPT ![p] = Unmapped],
         sig' = [sig EXCEPT ![p] = NoFrame],
         PutAll(p)
  PROVE  Sound'
<1>1. Shape
  BY IInvShape
<1>2. /\ frame'[p] = NoFrames /\ pte'[p] = Unmapped /\ sig'[p] = NoFrame /\ prot'[p] = pr
      /\ \A q \in Procs \ {p} : /\ frame'[q] = frame[q] /\ pte'[q] = pte[q]
                                /\ sig'[q] = sig[q] /\ prot'[q] = prot[q]
  BY <1>1 DEF Shape
<1>3. NoFrames \in [Pages -> Frames \cup {NoFrame}] /\ Unmapped \in [Pages -> Entries]
  BY NothingMapped DEF NoFrames, Unmapped
<1>4. \A f \in Frames : Owners(f)' = Owners(f) \ {p}
  BY <1>2, UserVmAssumption DEF Owners, Has, NoFrames
<1>5. \A f \in Frames : refs'[f] = Cardinality(Owners(f)')
  <2>1. SUFFICES ASSUME NEW f \in Frames PROVE refs'[f] = Cardinality(Owners(f) \ {p})
    BY <1>4
  <2>2. refs'[f] = (IF p \in Owners(f) THEN refs[f] - 1 ELSE refs[f])
    BY OwnedIsHad DEF PutAll, Owners
  <2>3. refs[f] = Cardinality(Owners(f)) /\ Owners(f) \in SUBSET Procs
    BY OwnersCounted DEF IInv, Exact
  <2>4. CASE p \in Owners(f)
    BY <2>2, <2>3, <2>4, Count
  <2>5. CASE p \notin Owners(f)
    <3>1. Owners(f) \ {p} = Owners(f)
      BY <2>5
    <3> QED BY <2>2, <2>3, <2>5, <3>1
  <2> QED BY <2>4, <2>5
<1>6. Exact'
  BY <1>5 DEF Exact
<1>7. \A f \in Frames : refs'[f] \in Nat
  BY <1>4, <1>5, OwnersCounted, Count
<1>8. Shape'
  BY <1>1, <1>3, <1>7 DEF Shape, PutAll
<1>9. \A q \in Procs, v \in Pages :
        \/ q # p /\ pte'[q][v] = pte[q][v] /\ frame'[q][v] = frame[q][v] /\ prot'[q][v] = prot[q][v]
        \/ q = p /\ pte'[q][v] = NoEntry /\ frame'[q][v] = NoFrame
  BY <1>2 DEF NoFrames, Unmapped
<1>10. Recorded'
  <2>1. SUFFICES ASSUME NEW q \in Procs, NEW v \in Pages
                 PROVE  PageOK(prot'[q][v], frame'[q][v], pte'[q][v])
    BY DEF Recorded
  <2> QED BY <1>9, Types, NothingMapped
<1>11. Apart'
  BY <1>2, <1>9 DEF Apart, IInv
<1>12. WritableIsPrivate'
  <2>1. SUFFICES ASSUME NEW q \in Procs, NEW r \in Procs, NEW v \in Pages, NEW w \in Pages,
                        "store" \in pte'[q][v].allow, <<r, w>> # <<q, v>>
                 PROVE  pte'[r][w].frame # pte'[q][v].frame
    BY DEF WritableIsPrivate
  <2>2. q # p /\ pte'[q][v] = pte[q][v]
    BY <1>9, <2>1 DEF NoEntry
  <2>3. pte[q][v].frame # NoFrame
    BY <2>1, <2>2, Types DEF PageOK, NoEntry
  <2>4. CASE r = p
    BY <1>9, <2>2, <2>3, <2>4 DEF NoEntry
  <2>5. CASE r # p
    BY <1>9, <2>1, <2>2, <2>5 DEF IInv, WritableIsPrivate
  <2> QED BY <2>4, <2>5
<1> QED BY <1>6, <1>8, <1>10, <1>11, <1>12 DEF Sound

(* fork: parent and child show the same marked entries, and every frame of a *)
(* page has one owner more.                                                  *)
LEMMA ForkStep ==
  ASSUME IInv, NEW p \in Procs, NEW child \in Procs, Fork(p, child)
  PROVE  Sound'
<1> DEFINE shared == [v \in Pages |-> MakeCow(pte[p][v])]
<1>1. /\ Shape /\ life[p] = "runs" /\ life[child] = "none" /\ p # child
      /\ prot' = [prot EXCEPT ![child] = prot[p]]
      /\ pte' = [pte EXCEPT ![p] = shared, ![child] = shared]
      /\ frame' = [frame EXCEPT ![child] = frame[p]]
      /\ sig' = [sig EXCEPT ![child] = NoFrame]
      /\ refs' = [f \in Frames |->
                    IF \E v \in Pages : frame[p][v] = f THEN refs[f] + 1 ELSE refs[f]]
  BY IInvShape DEF Fork, SharePages, CloneFrames
<1>2. shared \in [Pages -> Entries]
  BY Marked, Types
<1>3. /\ pte'[p] = shared /\ pte'[child] = shared
      /\ frame'[child] = frame[p] /\ frame'[p] = frame[p]
      /\ prot'[child] = prot[p] /\ prot'[p] = prot[p]
      /\ sig'[child] = NoFrame /\ sig'[p] = sig[p]
      /\ \A q \in Procs \ {p, child} : /\ frame'[q] = frame[q] /\ pte'[q] = pte[q]
                                       /\ sig'[q] = sig[q] /\ prot'[q] = prot[q]
  BY <1>1 DEF Shape
<1>4. Bare /\ frame[child] = NoFrames /\ sig[child] = NoFrame
  BY <1>1 DEF IInv, Bare
<1>5. \A f \in Frames : /\ child \notin Owners(f)
                        /\ Owners(f)' = Owners(f) \cup
                             (IF \E v \in Pages : frame[p][v] = f THEN {child} ELSE {})
  <2>1. \A f \in Frames, q \in Procs :
          Has(q, f)' <=> Has(q, f) \/ (q = child /\ \E v \in Pages : frame[p][v] = f)
    BY <1>3, <1>4, UserVmAssumption DEF Has, NoFrames
  <2>2. \A f \in Frames : ~Has(child, f)
    BY <1>4, UserVmAssumption DEF Has, NoFrames
  <2> QED BY <2>1, <2>2 DEF Owners
<1>6. \A f \in Frames : refs'[f] = Cardinality(Owners(f)')
  <2>1. SUFFICES ASSUME NEW f \in Frames PROVE refs'[f] = Cardinality(Owners(f)')
    OBVIOUS
  <2>2. refs[f] = Cardinality(Owners(f)) /\ Owners(f) \in SUBSET Procs
    BY OwnersCounted DEF IInv, Exact
  <2>3. Cardinality(Owners(f) \cup {child}) = Cardinality(Owners(f)) + 1
    BY <1>5, <2>2, Count
  <2> QED BY <1>1, <1>5, <2>2, <2>3
<1>7. Exact' /\ \A f \in Frames : refs'[f] \in Nat
  BY <1>1, <1>6 DEF Exact, Shape
<1>8. Shape'
  BY <1>1, <1>2, <1>7, UserVmAssumption DEF Shape
<1>9. \A q \in Procs, v \in Pages :
        \/ q \in {p, child} /\ pte'[q][v] = MakeCow(pte[p][v])
           /\ frame'[q][v] = frame[p][v] /\ prot'[q][v] = prot[p][v]
        \/ q \notin {p, child} /\ pte'[q][v] = pte[q][v]
           /\ frame'[q][v] = frame[q][v] /\ prot'[q][v] = prot[q][v]
  BY <1>3
<1>10. Recorded'
  <2>1. SUFFICES ASSUME NEW q \in Procs, NEW v \in Pages
                 PROVE  PageOK(prot'[q][v], frame'[q][v], pte'[q][v])
    BY DEF Recorded
  <2> QED BY <1>9, Types, Marked
<1>11. Apart'
  BY <1>3 DEF Apart, IInv
<1>12. WritableIsPrivate'
  <2>1. SUFFICES ASSUME NEW q \in Procs, NEW r \in Procs, NEW v \in Pages, NEW w \in Pages,
                        "store" \in pte'[q][v].allow, <<r, w>> # <<q, v>>
                 PROVE  pte'[r][w].frame # pte'[q][v].frame
    BY DEF WritableIsPrivate
  <2>2. q \notin {p, child} /\ pte'[q][v] = pte[q][v]
    BY <1>9, <2>1, Types, Marked
  <2>3. \/ pte'[r][w].frame = pte[p][w].frame
        \/ r # p /\ pte'[r][w].frame = pte[r][w].frame
    <3>1. CASE r \in {p, child}
      BY <1>9, <3>1, Types, Marked
    <3>2. CASE r \notin {p, child}
      BY <1>9, <3>2
    <3> QED BY <3>1, <3>2
  <2> QED BY <2>1, <2>2, <2>3 DEF IInv, WritableIsPrivate
<1> QED BY <1>7, <1>8, <1>10, <1>11, <1>12 DEF Sound

LEMMA CountOne ==
  ASSUME NEW p \in Procs
  PROVE  Cardinality({p}) = 1
BY FS_Singleton

(* mmap and the page fault handlers: pages that had none get frames that are *)
(* free, each its own.                                                       *)
LEMMA FillStep ==
  ASSUME IInv, NEW p \in Procs, NEW new \in SUBSET Pages,
         NEW rights \in Rights, rights # NoProt, NEW fill \in Distinct(new),
         \A v \in new : frame[p][v] = NoFrame,
         Fill(p, new, rights, fill),
         prot' = [prot EXCEPT ![p] =
                    [v \in Pages |-> IF v \in new THEN rights ELSE prot[p][v]]],
         sig' = sig
  PROVE  Sound'
<1>1. Shape
  BY IInvShape
<1>2. \A v \in new : fill[v] \in FreeFrames /\ fill[v] \in Frames
  BY DEF Distinct, FreeFrames
<1>3. \A v, w \in new : v # w => fill[v] # fill[w]
  BY DEF Distinct
<1>4. \A q \in Procs, v \in Pages :
        \/ /\ q = p /\ v \in new
           /\ frame'[q][v] = fill[v] /\ pte'[q][v] = Entry(fill[v], rights)
           /\ prot'[q][v] = rights
        \/ /\ ~(q = p /\ v \in new)
           /\ frame'[q][v] = frame[q][v] /\ pte'[q][v] = pte[q][v]
           /\ prot'[q][v] = prot[q][v]
  BY <1>1 DEF Shape, Fill
<1>5. \A f \in Frames :
        /\ (\E v \in new : fill[v] = f) => Owners(f)' = {p}
        /\ ~(\E v \in new : fill[v] = f) => Owners(f)' = Owners(f)
  <2>1. ASSUME NEW f \in Frames, NEW v \in new, fill[v] = f, NEW q \in Procs
        PROVE  Has(q, f)' <=> q = p
    BY <1>2, <1>4, <2>1, FreeIsNobodys DEF Has
  <2>2. ASSUME NEW f \in Frames, ~(\E v \in new : fill[v] = f), NEW q \in Procs
        PROVE  Has(q, f)' <=> Has(q, f)
    BY <1>4, <2>2, UserVmAssumption DEF Has
  <2> QED BY <2>1, <2>2 DEF Owners
<1>6. \A f \in Frames : refs'[f] = Cardinality(Owners(f)') /\ refs'[f] \in Nat
  <2>1. SUFFICES ASSUME NEW f \in Frames
                 PROVE  refs'[f] = Cardinality(Owners(f)') /\ refs'[f] \in Nat
    OBVIOUS
  <2>2. refs'[f] = (IF \E v \in new : fill[v] = f THEN 1 ELSE refs[f])
    BY DEF Fill
  <2>3. refs[f] = Cardinality(Owners(f)) /\ refs[f] \in Nat
    BY <1>1 DEF IInv, Exact, Shape
  <2> QED BY <1>5, <2>2, <2>3, CountOne
<1>7. Exact'
  BY <1>6 DEF Exact
<1>8. Shape'
  <2>1. frame' \in [Procs -> [Pages -> Frames \cup {NoFrame}]]
    BY <1>1, <1>2 DEF Shape, Fill
  <2>2. pte' \in [Procs -> [Pages -> Entries]]
    BY <1>1, <1>2, NewEntry DEF Shape, Fill
  <2>3. prot' \in [Procs -> [Pages -> Rights]]
    BY <1>1 DEF Shape
  <2>4. refs' \in [Frames -> Nat]
    BY <1>6 DEF Fill
  <2> QED BY <1>1, <2>1, <2>2, <2>3, <2>4 DEF Shape
<1>9. Recorded'
  <2>1. SUFFICES ASSUME NEW q \in Procs, NEW v \in Pages
                 PROVE  PageOK(prot'[q][v], frame'[q][v], pte'[q][v])
    BY DEF Recorded
  <2> QED BY <1>2, <1>4, Types, NewEntry
<1>10. Apart'
  <2>1. SUFFICES ASSUME NEW q \in Procs, NEW v \in Pages, frame'[q][v] # NoFrame
                 PROVE  /\ sig'[q] # frame'[q][v]
                        /\ \A w \in Pages : frame'[q][w] = frame'[q][v] => w = v
    BY DEF Apart
  <2>2. sig'[q] = sig[q]
    OBVIOUS
  <2>3. CASE q = p /\ v \in new
    BY <1>2, <1>3, <1>4, <2>2, <2>3, FreeIsNobodys
  <2>4. CASE ~(q = p /\ v \in new)
    <3>1. frame'[q][v] = frame[q][v] /\ frame[q][v] # NoFrame
      BY <1>4, <2>1, <2>4
    <3> QED BY <1>2, <1>4, <2>2, <2>4, <3>1, FreeIsNobodys DEF IInv, Apart
  <2> QED BY <2>3, <2>4
<1>11. WritableIsPrivate'
  <2>1. SUFFICES ASSUME NEW q \in Procs, NEW r \in Procs, NEW v \in Pages, NEW w \in Pages,
                        "store" \in pte'[q][v].allow, <<r, w>> # <<q, v>>
                 PROVE  frame'[r][w] # frame'[q][v]
    BY <1>9 DEF WritableIsPrivate, Recorded, PageOK
  <2>2. CASE q = p /\ v \in new
    BY <1>2, <1>3, <1>4, <2>1, <2>2, FreeIsNobodys
  <2>3. CASE ~(q = p /\ v \in new)
    <3>1. frame'[q][v] = frame[q][v] /\ "store" \in pte[q][v].allow
      BY <1>4, <2>1, <2>3
    <3>2. CASE r = p /\ w \in new
      BY <1>2, <1>4, <3>1, <3>2, FreeIsNobodys
    <3>3. CASE ~(r = p /\ w \in new)
      <4>1. frame'[r][w] = frame[r][w]
        BY <1>4, <3>3
      <4>2. pte[r][w].frame # pte[q][v].frame
        BY <2>1, <3>1 DEF IInv, WritableIsPrivate
      <4> QED BY <3>1, <4>1, <4>2, Types DEF PageOK
    <3> QED BY <3>2, <3>3
  <2> QED BY <2>2, <2>3
<1> QED BY <1>7, <1>8, <1>9, <1>10, <1>11 DEF Sound

(* The entries of one process change, and a page that becomes writable is    *)
(* shown nowhere else.                                                       *)
Alone(p, v) ==
  \A r \in Procs, w \in Pages :
    <<r, w>> # <<p, v>> => frame[r][w] # frame[p][v]

LEMMA EntriesStep ==
  ASSUME IInv, NEW p \in Procs, NEW es \in [Pages -> Entries],
         \A v \in Pages : /\ PageOK(prot[p][v], frame[p][v], es[v])
                          /\ "store" \in es[v].allow =>
                               "store" \in pte[p][v].allow \/ Alone(p, v),
         pte' = [pte EXCEPT ![p] = es],
         UNCHANGED <<prot, frame, sig, refs>>
  PROVE  Sound'
<1>1. Shape
  BY IInvShape
<1>2. Shape'
  BY <1>1 DEF Shape
<1>3. \A q \in Procs, v \in Pages : pte'[q][v] = IF q = p THEN es[v] ELSE pte[q][v]
  BY <1>1 DEF Shape
<1>4. Recorded'
  <2>1. SUFFICES ASSUME NEW q \in Procs, NEW v \in Pages
                 PROVE  PageOK(prot[q][v], frame[q][v], pte'[q][v])
    BY DEF Recorded
  <2> QED BY <1>3, Types
<1>5. \A f : Owners(f)' = Owners(f)
  BY DEF Owners, Has
<1>6. Exact' /\ Apart'
  BY <1>5 DEF IInv, Exact, Apart
<1>7. WritableIsPrivate'
  <2>1. SUFFICES ASSUME NEW q \in Procs, NEW r \in Procs, NEW v \in Pages, NEW w \in Pages,
                        "store" \in pte'[q][v].allow, <<r, w>> # <<q, v>>
                 PROVE  frame[r][w] # frame[q][v]
    BY <1>4 DEF WritableIsPrivate, Recorded, PageOK
  <2>2. "store" \in pte[q][v].allow \/ Alone(q, v)
    BY <1>3, <2>1
  <2>3. CASE "store" \in pte[q][v].allow
    <3>1. pte[r][w].frame # pte[q][v].frame
      BY <2>1, <2>3 DEF IInv, WritableIsPrivate
    <3> QED BY <3>1, Types DEF PageOK
  <2>4. CASE Alone(q, v)
    BY <2>1, <2>4 DEF Alone
  <2> QED BY <2>2, <2>3, <2>4
<1> QED BY <1>2, <1>4, <1>6, <1>7 DEF Sound

LEMMA ForkFailsStep ==
  ASSUME IInv, NEW p \in Procs, NEW reached \in SUBSET Pages, ForkFails(p, reached)
  PROVE  Sound'
<1> DEFINE es == [v \in Pages |-> IF v \in reached THEN MakeCow(pte[p][v]) ELSE pte[p][v]]
<1>1. es \in [Pages -> Entries]
  BY Types, Marked
<1>2. \A v \in Pages : /\ PageOK(prot[p][v], frame[p][v], es[v])
                       /\ "store" \in es[v].allow => "store" \in pte[p][v].allow
  BY Types, Marked
<1>3. pte' = [pte EXCEPT ![p] = es] /\ UNCHANGED <<prot, frame, sig, refs>>
  BY DEF ForkFails
<1> HIDE DEF es
<1> QED BY <1>1, <1>2, <1>3, EntriesStep

(* A frame that one process at most has is shown by one page at most.        *)
LEMMA LastSharer ==
  ASSUME IInv, NEW p \in Procs, NEW v \in Pages,
         frame[p][v] \in Frames, refs[frame[p][v]] <= 1
  PROVE  Alone(p, v)
<1> DEFINE f == frame[p][v]
<1>1. /\ Owners(f) \in SUBSET Procs /\ p \in Owners(f)
      /\ refs[f] = Cardinality(Owners(f)) /\ Cardinality(Owners(f)) \in Nat
  BY OwnersCounted DEF Owners, Has, IInv, Exact
<1>2. /\ Cardinality(Owners(f) \ {p}) = Cardinality(Owners(f)) - 1
      /\ Cardinality(Owners(f) \ {p}) \in Nat
      /\ Cardinality(Owners(f) \ {p}) = 0 <=> Owners(f) \ {p} = {}
  BY <1>1, Count
<1>3. Owners(f) \ {p} = {}
  BY <1>1, <1>2
<1>4. SUFFICES ASSUME NEW r \in Procs, NEW w \in Pages, frame[r][w] = f
               PROVE  <<r, w>> = <<p, v>>
  BY DEF Alone
<1>5. r = p
  BY <1>3, <1>4 DEF Owners, Has
<1>6. f # NoFrame
  BY UserVmAssumption
<1> QED BY <1>4, <1>5, <1>6 DEF IInv, Apart

LEMMA MarkedHasFrame ==
  ASSUME IInv, NEW p \in Procs, NEW v \in Pages, pte[p][v].cow
  PROVE  /\ frame[p][v] \in Frames /\ pte[p][v].frame = frame[p][v]
         /\ prot[p][v] # NoProt /\ "store" \in Allowed(prot[p][v])
BY Types DEF PageOK, NoEntry

LEMMA CowRestoreStep ==
  ASSUME IInv, NEW p \in Procs, NEW i \in Instructions, CowRestore(p, i)
  PROVE  Sound'
<1> DEFINE v == i.page
           es == [pte[p] EXCEPT ![v] = Writable(pte[p][v].frame, pte[p][v])]
<1>1. v \in Pages /\ pte[p][v].cow /\ refs[pte[p][v].frame] <= 1 /\ Shape
  BY IInvShape DEF CowRestore, OnCow, Sharers, Instructions
<1>2. /\ frame[p][v] \in Frames /\ pte[p][v].frame = frame[p][v]
      /\ Alone(p, v)
  BY <1>1, MarkedHasFrame, LastSharer
<1>3. /\ Writable(pte[p][v].frame, pte[p][v]) \in Entries
      /\ PageOK(prot[p][v], frame[p][v], Writable(pte[p][v].frame, pte[p][v]))
  BY <1>1, <1>2, Types, Restored
<1>4. es \in [Pages -> Entries]
  BY <1>1, <1>3 DEF Shape
<1>5. \A w \in Pages : /\ PageOK(prot[p][w], frame[p][w], es[w])
                       /\ "store" \in es[w].allow =>
                            "store" \in pte[p][w].allow \/ Alone(p, w)
  BY <1>1, <1>2, <1>3, Types DEF Shape
<1>6. pte' = [pte EXCEPT ![p] = es] /\ UNCHANGED <<prot, frame, sig, refs>>
  BY <1>1 DEF CowRestore
<1> HIDE DEF es
<1> QED BY <1>4, <1>5, <1>6, EntriesStep

(* The copy takes a free frame, and the frame copied has one owner less.     *)
LEMMA CowCopyStep ==
  ASSUME IInv, NEW p \in Procs, NEW i \in Instructions, CowCopy(p, i)
  PROVE  Sound'
<1> DEFINE v == i.page
<1>1. /\ v \in Pages /\ pte[p][v].cow /\ Shape /\ FreeFrames # {}
      /\ frame[p][v] \in Frames /\ pte[p][v].frame = frame[p][v] /\ prot[p][v] \in Rights
  BY IInvShape, MarkedHasFrame, Types DEF CowCopy, CanCopy, OnCow, Instructions
<1>2. PICK fresh \in Frames : fresh = Fresh /\ fresh \in FreeFrames
  BY <1>1, FreshIsFree DEF FreeFrames
<1>3. PICK old \in Frames : old = frame[p][v] /\ old # NoFrame
  BY <1>1, UserVmAssumption
<1>4. PICK copy : copy = Writable(fresh, pte[p][v])
  OBVIOUS
<1>5. /\ copy \in Entries /\ PageOK(prot[p][v], fresh, copy)
  BY <1>1, <1>4, Types, Restored
<1>6. /\ frame' = [frame EXCEPT ![p][v] = fresh]
      /\ pte' = [pte EXCEPT ![p][v] = copy]
      /\ refs' = [refs EXCEPT ![fresh] = 1, ![old] = @ - 1]
      /\ UNCHANGED <<prot, sig>>
  BY <1>1, <1>2, <1>3, <1>4 DEF CowCopy, Shape
<1>7. \A q \in Procs, w \in Pages :
        \/ q = p /\ w = v /\ frame'[q][w] = fresh /\ pte'[q][w] = copy
        \/ /\ <<q, w>> # <<p, v>>
           /\ frame'[q][w] = frame[q][w] /\ pte'[q][w] = pte[q][w]
  BY <1>1, <1>6 DEF Shape
<1>8. fresh # old
  BY <1>1, <1>2, <1>3, FreeIsNobodys
<1>9. \A q \in Procs : /\ Has(q, fresh)' <=> q = p
                       /\ Has(q, old)' <=> Has(q, old) /\ q # p
                       /\ \A f \in Frames \ {fresh, old} : Has(q, f)' <=> Has(q, f)
  <2>1. SUFFICES ASSUME NEW q \in Procs
                 PROVE  /\ Has(q, fresh)' <=> q = p
                        /\ Has(q, old)' <=> Has(q, old) /\ q # p
                        /\ \A f \in Frames \ {fresh, old} : Has(q, f)' <=> Has(q, f)
    OBVIOUS
  <2>2. Has(q, fresh)' <=> q = p
    BY <1>1, <1>2, <1>6, <1>7, FreeIsNobodys DEF Has
  <2>3. Has(q, old)' <=> Has(q, old) /\ q # p
    <3>1. CASE q = p
      <4>1. sig[p] # old /\ \A w \in Pages : frame[p][w] = old => w = v
        BY <1>1, <1>3 DEF IInv, Apart
      <4> QED BY <1>6, <1>7, <1>8, <3>1, <4>1 DEF Has
    <3>2. CASE q # p
      BY <1>6, <1>7, <3>2 DEF Has
    <3> QED BY <3>1, <3>2
  <2>4. ASSUME NEW f \in Frames \ {fresh, old} PROVE Has(q, f)' <=> Has(q, f)
    BY <1>1, <1>3, <1>6, <1>7, <2>4 DEF Has
  <2> QED BY <2>2, <2>3, <2>4
<1>10. /\ Owners(fresh)' = {p} /\ p \in Owners(old) /\ Owners(old)' = Owners(old) \ {p}
      /\ \A f \in Frames \ {fresh, old} : Owners(f)' = Owners(f)
  <2>1. Has(p, old)
    BY <1>1, <1>3 DEF Has
  <2> QED BY <1>9, <2>1 DEF Owners
<1>11. \A f \in Frames : refs'[f] = Cardinality(Owners(f)') /\ refs'[f] \in Nat
  <2>1. /\ refs'[fresh] = 1 /\ refs'[old] = refs[old] - 1
        /\ \A f \in Frames \ {fresh, old} : refs'[f] = refs[f]
    BY <1>1, <1>3, <1>6, <1>8 DEF Shape
  <2>2. \A f \in Frames : /\ refs[f] = Cardinality(Owners(f)) /\ refs[f] \in Nat
                          /\ Owners(f) \in SUBSET Procs
    BY <1>1, OwnersCounted DEF IInv, Exact, Shape
  <2>3. /\ Cardinality(Owners(old) \ {p}) = Cardinality(Owners(old)) - 1
        /\ Cardinality(Owners(old) \ {p}) \in Nat
    BY <1>3, <1>10, <2>2, Count
  <2>4. refs'[fresh] = Cardinality(Owners(fresh)') /\ refs'[fresh] \in Nat
    BY <1>10, <2>1, CountOne
  <2>5. refs'[old] = Cardinality(Owners(old)') /\ refs'[old] \in Nat
    BY <1>3, <1>10, <2>1, <2>2, <2>3
  <2> QED BY <1>10, <2>1, <2>2, <2>4, <2>5
<1>12. Exact'
  BY <1>11 DEF Exact
<1>13. Shape'
  <2>1. frame' \in [Procs -> [Pages -> Frames \cup {NoFrame}]]
    BY <1>1, <1>6 DEF Shape
  <2>2. pte' \in [Procs -> [Pages -> Entries]]
    BY <1>1, <1>5, <1>6 DEF Shape
  <2>3. refs' \in [Frames -> Nat]
    <3>1. refs' = [f \in Frames |-> refs'[f]]
      BY <1>1, <1>6 DEF Shape
    <3> QED BY <1>11, <3>1
  <2> QED BY <1>1, <1>6, <2>1, <2>2, <2>3 DEF Shape
<1>14. Recorded'
  <2>1. SUFFICES ASSUME NEW q \in Procs, NEW w \in Pages
                 PROVE  PageOK(prot[q][w], frame'[q][w], pte'[q][w])
    BY <1>6 DEF Recorded
  <2> QED BY <1>5, <1>7, Types
<1>15. Apart'
  <2>1. SUFFICES ASSUME NEW q \in Procs, NEW w \in Pages, frame'[q][w] # NoFrame
                 PROVE  /\ sig[q] # frame'[q][w]
                        /\ \A u \in Pages : frame'[q][u] = frame'[q][w] => u = w
    BY <1>6 DEF Apart
  <2>2. CASE q = p /\ w = v
    BY <1>1, <1>2, <1>7, <2>2, FreeIsNobodys
  <2>3. CASE <<q, w>> # <<p, v>>
    <3>1. frame'[q][w] = frame[q][w] /\ frame[q][w] # NoFrame
      BY <1>7, <2>1, <2>3
    <3> QED BY <1>1, <1>2, <1>7, <2>3, <3>1, FreeIsNobodys DEF IInv, Apart
  <2> QED BY <2>2, <2>3
<1>16. WritableIsPrivate'
  <2>1. SUFFICES ASSUME NEW q \in Procs, NEW r \in Procs, NEW w \in Pages, NEW u \in Pages,
                        "store" \in pte'[q][w].allow, <<r, u>> # <<q, w>>
                 PROVE  frame'[r][u] # frame'[q][w]
    BY <1>14 DEF WritableIsPrivate, Recorded, PageOK
  <2>2. CASE q = p /\ w = v
    BY <1>1, <1>2, <1>7, <2>1, <2>2, FreeIsNobodys
  <2>3. CASE <<q, w>> # <<p, v>>
    <3>1. frame'[q][w] = frame[q][w] /\ "store" \in pte[q][w].allow
      BY <1>7, <2>1, <2>3
    <3>2. CASE r = p /\ u = v
      BY <1>1, <1>2, <1>7, <3>1, <3>2, FreeIsNobodys
    <3>3. CASE <<r, u>> # <<p, v>>
      <4>1. frame'[r][u] = frame[r][u]
        BY <1>7, <3>3
      <4>2. pte[r][u].frame # pte[q][w].frame
        BY <2>1, <3>1 DEF IInv, WritableIsPrivate
      <4> QED BY <3>1, <4>1, <4>2, Types DEF PageOK
    <3> QED BY <3>2, <3>3
  <2> QED BY <2>2, <2>3
<1> QED BY <1>12, <1>13, <1>14, <1>15, <1>16 DEF Sound

(* The signal stack comes and goes: the pages do not change.                 *)
LEMMA SignalStep ==
  ASSUME IInv, NEW p \in Procs, Deliver(p) \/ SigReturn(p)
  PROVE  Sound'
<1>1. Shape /\ UNCHANGED <<prot, frame, pte>>
  BY IInvShape DEF Deliver, SigReturn
<1>2. Recorded' /\ WritableIsPrivate'
  BY <1>1 DEF IInv, Recorded, WritableIsPrivate
<1>3. CASE Deliver(p)
  <2>1. PICK f \in Frames : f = Fresh /\ f \in FreeFrames
    BY <1>3, FreshIsFree DEF Deliver, FreeFrames
  <2>2. /\ f \in Frames /\ sig[p] = NoFrame
        /\ sig' = [sig EXCEPT ![p] = f] /\ refs' = [refs EXCEPT ![f] = 1]
    BY <1>3, <2>1 DEF Deliver, FreeFrames
  <2>3. \A q \in Procs : /\ Has(q, f)' <=> q = p
                         /\ \A g \in Frames \ {f} : Has(q, g)' <=> Has(q, g)
    BY <1>1, <2>1, <2>2, FreeIsNobodys, UserVmAssumption DEF Shape, Has
  <2>4. /\ Owners(f)' = {p}
        /\ \A g \in Frames \ {f} : Owners(g)' = Owners(g)
    BY <2>3 DEF Owners
  <2>5. Exact'
    BY <1>1, <2>2, <2>4, CountOne DEF Exact, IInv, Shape
  <2>6. Apart'
    BY <1>1, <2>1, <2>2, FreeIsNobodys DEF Apart, IInv, Shape
  <2>7. Shape'
    BY <1>1, <2>2 DEF Shape
  <2> QED BY <1>2, <2>5, <2>6, <2>7 DEF Sound
<1>4. CASE SigReturn(p)
  <2>1. PICK f \in Frames : f = sig[p] /\ f # NoFrame
    BY <1>1, <1>4 DEF SigReturn, Shape
  <2>2. /\ f \in Frames /\ f # NoFrame /\ sig[p] = f
        /\ sig' = [sig EXCEPT ![p] = NoFrame] /\ refs' = [refs EXCEPT ![f] = @ - 1]
    BY <1>1, <1>4, <2>1 DEF SigReturn, Shape
  <2>3. \A w \in Pages : frame[p][w] # f
    BY <2>2 DEF IInv, Apart
  <2>4. \A q \in Procs : /\ Has(q, f)' <=> Has(q, f) /\ q # p
                         /\ \A g \in Frames \ {f} : Has(q, g)' <=> Has(q, g)
    BY <1>1, <2>2, <2>3, UserVmAssumption DEF Shape, Has
  <2>5. /\ Owners(f)' = Owners(f) \ {p} /\ p \in Owners(f)
        /\ \A g \in Frames \ {f} : Owners(g)' = Owners(g)
    BY <2>1, <2>4 DEF Owners, Has
  <2>6. /\ refs[f] = Cardinality(Owners(f)) /\ Owners(f) \in SUBSET Procs
        /\ Cardinality(Owners(f) \ {p}) = Cardinality(Owners(f)) - 1
        /\ Cardinality(Owners(f) \ {p}) \in Nat
    BY <2>2, <2>5, OwnersCounted, Count DEF IInv, Exact
  <2>7. refs' \in [Frames -> Nat] /\ refs'[f] = Cardinality(Owners(f)')
    BY <1>1, <2>2, <2>5, <2>6 DEF Shape
  <2>8. Exact'
    BY <1>1, <2>2, <2>5, <2>7 DEF Exact, IInv, Shape
  <2>9. Apart'
    BY <1>1, <2>2 DEF Apart, IInv, Shape
  <2>10. Shape'
    BY <1>1, <2>2, <2>7 DEF Shape
  <2> QED BY <1>2, <2>8, <2>9, <2>10 DEF Sound
<1> QED BY <1>3, <1>4

(* An mmap region without MAP_POPULATE: only the protection of pages without *)
(* a frame changes.                                                          *)
LEMMA NotMapped ==
  ASSUME IInv, NEW p \in Procs, NEW v \in Pages, prot[p][v] = NoProt
  PROVE  frame[p][v] = NoFrame /\ pte[p][v] = NoEntry
BY Types DEF PageOK

LEMMA RegionTypes ==
  ASSUME IInv, NEW p \in Procs, NEW new, NEW rights \in Prots, Region(p, new, rights)
  PROVE  /\ new \in SUBSET Pages /\ rights \in Rights /\ rights # NoProt
         /\ \A v \in new : prot[p][v] = NoProt /\ frame[p][v] = NoFrame /\ pte[p][v] = NoEntry
         /\ prot' \in [Procs -> [Pages -> Rights]]
         /\ \A q \in Procs, v \in Pages :
              prot'[q][v] = IF q = p /\ v \in new THEN rights ELSE prot[q][v]
<1>1. new \in SUBSET Pages
  BY DEF Region, Pages
<1>2. rights \in Rights /\ rights # NoProt
  BY UserVmAssumption DEF Rights, NoProt
<1>3. \A v \in new : prot[p][v] = NoProt
  BY DEF Region
<1>4. Shape
  BY IInvShape
<1> QED BY <1>1, <1>2, <1>3, <1>4, NotMapped DEF Region, Shape

LEMMA MmapStep ==
  ASSUME IInv, NEW p \in Procs, NEW new \in SUBSET MmapPages, NEW rights \in Prots,
         Mmap(p, new, rights)
  PROVE  Sound'
<1>1. Region(p, new, rights) /\ UNCHANGED <<frame, pte, refs, sig>> /\ Shape
  BY IInvShape DEF Mmap, Region
<1>2. Recorded'
  <2>1. SUFFICES ASSUME NEW q \in Procs, NEW v \in Pages
                 PROVE  PageOK(prot'[q][v], frame[q][v], pte[q][v])
    BY <1>1 DEF Recorded
  <2> QED BY <1>1, RegionTypes, Types, NothingMapped
<1>3. \A f : Owners(f)' = Owners(f)
  BY <1>1 DEF Owners, Has
<1>4. Exact' /\ Apart' /\ WritableIsPrivate'
  BY <1>1, <1>3 DEF IInv, Exact, Apart, WritableIsPrivate
<1>5. Shape'
  BY <1>1, RegionTypes DEF Shape
<1> QED BY <1>2, <1>4, <1>5 DEF Sound

LEMMA PopulateStep ==
  ASSUME IInv, NEW p \in Procs, NEW new \in SUBSET MmapPages, NEW rights \in Prots,
         Populate(p, new, rights)
  PROVE  Sound'
<1> DEFINE fill == CHOOSE chosen \in Distinct(new) : TRUE
<1>1. /\ Region(p, new, rights) /\ Distinct(new) # {} /\ Fill(p, new, rights, fill)
  BY DEF Populate
<1>2. fill \in Distinct(new)
  BY <1>1
<1>3. prot' = [prot EXCEPT ![p] = [v \in Pages |-> IF v \in new THEN rights ELSE prot[p][v]]]
      /\ sig' = sig
  BY <1>1 DEF Region
<1> HIDE DEF fill
<1> QED BY <1>1, <1>2, <1>3, RegionTypes, FillStep

(* A page without an entry has no frame.                                     *)
LEMMA DemandTypes ==
  ASSUME IInv, NEW p \in Procs, NEW i \in Instructions, Demand(p, i)
  PROVE  /\ i.page \in Pages /\ frame[p][i.page] = NoFrame
         /\ prot[p][i.page] \in Rights /\ prot[p][i.page] # NoProt
         /\ Fresh \in FreeFrames /\ Fresh \in Frames
<1>1. i.page \in Pages /\ pte[p][i.page] = NoEntry /\ i.kind \in Allowed(prot[p][i.page])
  BY DEF Demand, OnDemand, Instructions
<1>2. pte[p][i.page].frame = NoFrame
  BY <1>1 DEF NoEntry
<1> QED BY <1>1, <1>2, Types, AllowedKinds, FreshIsFree DEF PageOK, Demand, FreeFrames

LEMMA DemandStep ==
  ASSUME IInv, NEW p \in Procs, NEW i \in Instructions, Demand(p, i)
  PROVE  Sound'
<1> DEFINE v == i.page
           fill == [u \in {v} |-> Fresh]
<1>1. /\ v \in Pages /\ frame[p][v] = NoFrame
      /\ prot[p][v] \in Rights /\ prot[p][v] # NoProt
      /\ Fresh \in FreeFrames
  BY DemandTypes
<1>2. fill \in Distinct({v})
  BY <1>1 DEF Distinct
<1>3. /\ Fill(p, {v}, prot[p][v], fill) /\ prot' = prot /\ sig' = sig
  BY DEF Demand
<1>4. prot' = [prot EXCEPT ![p] = [u \in Pages |-> IF u \in {v} THEN prot[p][v] ELSE prot[p][u]]]
  <2>1. Shape
    BY IInvShape
  <2>2. [u \in Pages |-> IF u \in {v} THEN prot[p][v] ELSE prot[p][u]] = prot[p]
    BY <2>1 DEF Shape
  <2> QED BY <1>3, <2>1, <2>2 DEF Shape
<1> HIDE DEF fill
<1> QED BY <1>1, <1>2, <1>3, <1>4, FillStep

(* What changes neither tables nor counts.                                   *)
LEMMA QuietStep ==
  ASSUME IInv, UNCHANGED <<tables, refs>>
  PROVE  Sound'
<1>1. \A f : Owners(f)' = Owners(f)
  BY DEF Owners, Has, tables
<1> QED BY <1>1, IInvShape
    DEF tables, Sound, IInv, Shape, Recorded, Apart, Exact, WritableIsPrivate

-----------------------------------------------------------------------------
(* The invariant.                                                            *)

LEMMA InitIInv == Init => IInv
<1> SUFFICES ASSUME Init PROVE IInv
  OBVIOUS
<1>1. \A p \in Procs, v \in Pages :
        prot[p][v] = NoProt /\ frame[p][v] = NoFrame /\ pte[p][v] = NoEntry
  BY DEF Init, NoFrames, Unmapped
<1>2. TypeOK
  <2>1. (CHOOSE first \in Programs : TRUE) \in Programs
    BY UserVmAssumption
  <2>2. Unmapped \in [Pages -> Entries]
    BY NothingMapped DEF Unmapped
  <2> QED BY <2>1, <2>2, UserVmAssumption DEF Init, TypeOK, NoFrames, Entries
<1>3. Recorded
  BY <1>1, NothingMapped DEF Recorded
<1>4. Apart /\ Bare
  BY <1>1 DEF Apart, Bare, Init
<1>5. Exact
  <2>1. \A f \in Frames : Owners(f) = {}
    BY <1>1, UserVmAssumption DEF Owners, Has, Init
  <2> QED BY <2>1, FS_EmptySet DEF Exact, Init
<1>6. WritableIsPrivate
  BY <1>1 DEF WritableIsPrivate, NoEntry
<1> QED BY <1>2, <1>3, <1>4, <1>5, <1>6 DEF IInv

(* What the tables and counts do not determine.                              *)
Rest ==
  /\ life \in [Procs -> {"none", "runs", "zombie"}]
  /\ prog \in [Procs -> Programs]
  /\ data \in [Frames -> Values]
  /\ access \in [Procs -> Instructions \cup {Idle}]

LEMMA Whole ==
  ASSUME Sound', Rest', Bare'
  PROVE  IInv'
BY DEF Sound, Rest, Shape, IInv, TypeOK, Rights, Entries

LEMMA IInvRest == IInv => Rest /\ Bare
BY DEF IInv, TypeOK, Rest

LEMMA FieldsRights ==
  ASSUME NEW new
  PROVE  Fields(new) \in [Pages -> Rights]
BY DEF Fields, Rights

LEMMA StartKeeps ==
  ASSUME IInv, NEW p \in Procs, NEW new \in Programs, Start(p, new)
  PROVE  IInv'
<1>1. Shape /\ Rest /\ frame[p] = NoFrames /\ sig[p] = NoFrame
  BY IInvShape, IInvRest DEF Start, Bare
<1>2. PutAll(p)
  <2>1. Owned(p) = {}
    BY <1>1 DEF Owned, NoFrames
  <2>2. refs' = refs /\ refs \in [Frames -> Nat]
    BY <1>1 DEF Start, Shape
  <2> QED BY <2>1, <2>2 DEF PutAll
<1>3. /\ prot' = [prot EXCEPT ![p] = Fields(new)] /\ frame' = [frame EXCEPT ![p] = NoFrames]
      /\ pte' = [pte EXCEPT ![p] = Unmapped] /\ sig' = [sig EXCEPT ![p] = NoFrame]
  BY DEF Start, NewSpace
<1>4. Sound'
  BY <1>2, <1>3, FieldsRights, EmptiedStep
<1>5. Rest'
  BY <1>1 DEF Rest, Start, NewSpace
<1>6. Bare'
  BY <1>1, <1>3, IInvRest DEF Bare, Start, Shape, Rest
<1> QED BY <1>4, <1>5, <1>6, Whole

LEMMA ExecKeeps ==
  ASSUME IInv, NEW p \in Procs, NEW new \in Programs, Exec(p, new)
  PROVE  IInv'
<1>1. Shape /\ Rest
  BY IInvShape, IInvRest
<1>2. /\ prot' = [prot EXCEPT ![p] = Fields(new)] /\ frame' = [frame EXCEPT ![p] = NoFrames]
      /\ pte' = [pte EXCEPT ![p] = Unmapped] /\ sig' = [sig EXCEPT ![p] = NoFrame]
      /\ PutAll(p)
  BY DEF Exec, NewSpace
<1>3. Sound'
  BY <1>2, FieldsRights, EmptiedStep
<1>4. Rest'
  BY <1>1 DEF Rest, Exec, NewSpace
<1>5. Bare'
  BY <1>1, <1>2, IInvRest DEF Bare, Exec, Shape, Rest
<1> QED BY <1>3, <1>4, <1>5, Whole

LEMMA ReapKeeps ==
  ASSUME IInv, NEW p \in Procs, Reap(p)
  PROVE  IInv'
<1>1. Shape /\ Rest
  BY IInvShape, IInvRest
<1>2. /\ prot' = [prot EXCEPT ![p] = [v \in Pages |-> NoProt]]
      /\ frame' = [frame EXCEPT ![p] = NoFrames]
      /\ pte' = [pte EXCEPT ![p] = Unmapped] /\ sig' = [sig EXCEPT ![p] = NoFrame]
      /\ PutAll(p)
  BY DEF Reap, Forgotten
<1>3. Sound'
  <2>1. [v \in Pages |-> NoProt] \in [Pages -> Rights]
    BY DEF Rights
  <2> QED BY <1>2, <2>1, EmptiedStep
<1>4. Rest'
  BY <1>1 DEF Rest, Reap
<1>5. Bare'
  BY <1>1, <1>2, IInvRest DEF Bare, Reap, Shape, Rest
<1> QED BY <1>3, <1>4, <1>5, Whole

LEMMA ForkKeeps ==
  ASSUME IInv, NEW p \in Procs, NEW child \in Procs, Fork(p, child)
  PROVE  IInv'
<1>1. Shape /\ Rest /\ Bare
  BY IInvShape, IInvRest
<1>2. Rest'
  BY <1>1 DEF Rest, Fork
<1>3. Bare'
  <2>1. SUFFICES ASSUME NEW q \in Procs, life'[q] = "none"
                 PROVE  frame'[q] = NoFrames /\ sig'[q] = NoFrame
    BY DEF Bare
  <2>2. q # child /\ life[q] = "none"
    BY <1>1, <2>1 DEF Rest, Fork
  <2> QED BY <1>1, <2>2 DEF Bare, Fork, CloneFrames, Shape
<1> QED BY <1>2, <1>3, ForkStep, Whole

LEMMA ForkFailsKeeps ==
  ASSUME IInv, NEW p \in Procs, NEW reached \in SUBSET Pages, ForkFails(p, reached)
  PROVE  IInv'
<1>1. Rest' /\ Bare'
  BY IInvRest DEF Rest, Bare, ForkFails
<1> QED BY <1>1, ForkFailsStep, Whole

LEMMA RegionKeeps ==
  ASSUME IInv, NEW p \in Procs, NEW new \in SUBSET MmapPages, NEW rights \in Prots,
         Mmap(p, new, rights) \/ Populate(p, new, rights)
  PROVE  IInv'
<1>1. /\ Rest /\ Bare /\ Shape
      /\ life[p] = "runs" /\ life' = life /\ prog' = prog /\ access' = access /\ sig' = sig
  BY IInvRest, IInvShape DEF Mmap, Populate, Region
<1>2. CASE Mmap(p, new, rights)
  <2>1. Rest' /\ Bare'
    BY <1>1, <1>2 DEF Rest, Bare, Mmap
  <2> QED BY <1>2, <2>1, MmapStep, Whole
<1>3. CASE Populate(p, new, rights)
  <2>1. Rest'
    BY <1>1, <1>3, UserVmAssumption DEF Rest, Populate
  <2>2. Bare'
    BY <1>1, <1>3 DEF Bare, Populate, Fill, Shape
  <2> QED BY <1>3, <2>1, <2>2, PopulateStep, Whole
<1> QED BY <1>2, <1>3

(* An entry that lets a store through shows a frame.                         *)
LEMMA PassedHasFrame ==
  ASSUME IInv, NEW p \in Procs, NEW i \in Instructions, Passes(p, i)
  PROVE  /\ i.page \in Pages /\ i.kind \in Kinds /\ i.value \in Values
         /\ frame[p][i.page] \in Frames /\ frame[p][i.page] # NoFrame
         /\ pte[p][i.page].frame = frame[p][i.page]
         /\ prot[p][i.page] # NoProt
<1>1. i.page \in Pages /\ i.kind \in Kinds /\ i.value \in Values
  BY DEF Instructions
<1>2. frame[p][i.page] # NoFrame
  BY <1>1, Types DEF PageOK, Passes, NoEntry
<1> QED BY <1>1, <1>2, Types DEF PageOK

LEMMA ExecuteKeeps ==
  ASSUME IInv, NEW p \in Procs, NEW i \in Instructions, Execute(p, i)
  PROVE  IInv'
<1>1. Rest /\ Bare /\ Shape
  BY IInvRest, IInvShape
<1>2. CASE Complete(p, i)
  <2>1. Sound'
    BY <1>2, QuietStep DEF Complete
  <2>2. data' \in [Frames -> Values]
    <3>1. /\ i.value \in Values /\ pte[p][i.page].frame \in Frames
          /\ data \in [Frames -> Values]
      BY <1>1, <1>2, PassedHasFrame DEF Rest, Complete
    <3>2. \/ data' = data
          \/ data' = [data EXCEPT ![pte[p][i.page].frame] = i.value]
      BY <1>2 DEF Complete
    <3> QED BY <3>1, <3>2
  <2>3. Rest'
    BY <1>1, <1>2, <2>2 DEF Rest, Complete, tables
  <2>4. Bare'
    BY <1>1, <1>2 DEF Bare, Complete, tables
  <2> QED BY <2>1, <2>3, <2>4, Whole
<1>3. CASE CowRestore(p, i)
  <2>1. Rest' /\ Bare'
    BY <1>1, <1>3 DEF Rest, Bare, CowRestore, Retry
  <2> QED BY <1>3, <2>1, CowRestoreStep, Whole
<1>4. CASE CowCopy(p, i)
  <2>1. i.page \in Pages /\ frame[p][i.page] \in Frames /\ life[p] = "runs"
    BY <1>4, MarkedHasFrame DEF CowCopy, CanCopy, OnCow, Instructions, Faults, Executes
  <2>2. Rest'
    BY <1>1, <1>4, <2>1 DEF Rest, CowCopy, Retry
  <2>3. Bare'
    BY <1>1, <1>4, <2>1 DEF Bare, CowCopy, Shape
  <2> QED BY <1>4, <2>2, <2>3, CowCopyStep, Whole
<1>5. CASE Demand(p, i)
  <2>1. i.page \in Pages /\ life[p] = "runs"
    BY <1>5 DEF Demand, Instructions, Faults, Executes
  <2>2. Initial(p, i.page) \in Values
    BY <1>1, UserVmAssumption DEF Initial, Rest
  <2>3. Rest'
    BY <1>1, <1>5, <2>1, <2>2 DEF Rest, Demand, Retry
  <2>4. Bare'
    BY <1>1, <1>5, <2>1 DEF Bare, Demand, Fill, Shape
  <2> QED BY <1>5, <2>3, <2>4, DemandStep, Whole
<1>6. CASE SegmentationFault(p, i)
  <2>1. Sound'
    BY <1>6, QuietStep DEF SegmentationFault, Ended
  <2>2. Rest' /\ Bare'
    BY <1>1, <1>6 DEF Rest, Bare, SegmentationFault, Ended, tables
  <2> QED BY <2>1, <2>2, Whole
<1> QED BY <1>2, <1>3, <1>4, <1>5, <1>6 DEF Execute

LEMMA OthersKeep ==
  ASSUME IInv, NEW p \in Procs, Deliver(p) \/ SigReturn(p) \/ End(p)
  PROVE  IInv'
<1>1. Rest /\ Bare /\ Shape
  BY IInvRest, IInvShape
<1>2. CASE Deliver(p) \/ SigReturn(p)
  <2>1. Rest' /\ Bare'
    BY <1>1, <1>2 DEF Rest, Bare, Deliver, SigReturn, Shape
  <2> QED BY <1>2, <2>1, SignalStep, Whole
<1>3. CASE End(p)
  <2>1. Sound'
    BY <1>3, QuietStep DEF End, Ended
  <2>2. Rest' /\ Bare'
    BY <1>1, <1>3 DEF Rest, Bare, End, Ended, tables
  <2> QED BY <2>1, <2>2, Whole
<1> QED BY <1>2, <1>3

LEMMA NextIInv == IInv /\ [Next]_vars => IInv'
<1> SUFFICES ASSUME IInv, [Next]_vars PROVE IInv'
  OBVIOUS
<1>1. CASE UNCHANGED vars
  <2>1. Sound' /\ Rest' /\ Bare'
    BY <1>1, IInvRest, QuietStep DEF vars, tables, Rest, Bare
  <2> QED BY <2>1, Whole
<1>2. CASE Next
  BY <1>2, StartKeeps, ExecKeeps, ForkKeeps, ForkFailsKeeps, RegionKeeps,
     ExecuteKeeps, OthersKeep, ReapKeeps DEF Next
<1> QED BY <1>1, <1>2

LEMMA AlwaysIInv == Spec => []IInv
BY InitIInv, NextIInv, PTL DEF Spec

-----------------------------------------------------------------------------
(* A process's memory is its own.  Mem is what UserVm shows of PrivateMemory.*)

Mapped(p) == {w \in Pages : prot[p][w] # NoProt}
View(p) == [v \in Mapped(p) |-> Content(p, v)]
Mem == [p \in Procs |-> IF life[p] = "runs" THEN View(p) ELSE NoMemory]

LEMMA ViewIsMemory ==
  ASSUME IInv, NEW p \in Procs
  PROVE  View(p) # NoMemory /\ DOMAIN View(p) = Mapped(p)
<1>1. Rest /\ Shape
  BY IInvRest, IInvShape
<1>2. ASSUME NEW v \in Pages PROVE Content(p, v) \in Values
  BY <1>1, UserVmAssumption DEF Content, Initial, Rest, Shape
<1>3. Mapped(p) \in SUBSET Pages
  BY DEF Mapped
<1>4. View(p) \in [Mapped(p) -> Values]
  BY <1>2, <1>3 DEF View
<1> QED BY <1>3, <1>4, UserVmAssumption

LEMMA SameMem ==
  ASSUME NEW q \in Procs,
         life'[q] = life[q], prog'[q] = prog[q], prot'[q] = prot[q], frame'[q] = frame[q],
         \A v \in Pages : frame[q][v] # NoFrame => data'[frame[q][v]] = data[frame[q][v]]
  PROVE  Mem'[q] = Mem[q]
<1>1. \A v \in Pages : Content(q, v)' = Content(q, v)
  BY DEF Content, Initial
<1>2. Mapped(q)' = Mapped(q) /\ Mapped(q) \subseteq Pages
  BY DEF Mapped
<1>3. View(q)' = View(q)
  BY <1>1, <1>2 DEF View
<1> QED BY <1>3 DEF Mem

LEMMA MemChange ==
  ASSUME NEW p \in Procs, \A q \in Procs \ {p} : Mem'[q] = Mem[q]
  PROVE  Mem' = [Mem EXCEPT ![p] = Mem'[p]]
BY DEF Mem

(* start and exec: the image of the program.                                 *)
LEMMA NewSpaceView ==
  ASSUME IInv, NEW p \in Procs, NEW new \in Programs, NewSpace(p, new), life'[p] = "runs"
  PROVE  Mem'[p] = LoadImage(new)
<1>1. Shape /\ Rest
  BY IInvShape, IInvRest
<1>2. prot'[p] = Fields(new) /\ prog'[p] = new /\ frame'[p] = NoFrames
  BY <1>1 DEF NewSpace, Shape, Rest
<1>3. Mapped(p)' = (DOMAIN Image[new]) \cup StackPages
  <2>1. (DOMAIN Image[new]) \cup StackPages \subseteq Pages
    BY DEF Pages, ImagePages
  <2> QED BY <1>2, <2>1 DEF Mapped, Fields, NoProt
<1>4. \A v \in Mapped(p)' :
        Content(p, v)' = IF v \in DOMAIN Image[new] THEN Image[new][v] ELSE Zero
  <2>1. \A v \in Mapped(p)' : v \in Pages
    BY DEF Mapped
  <2> QED BY <1>2, <2>1 DEF Content, Initial, NoFrames
<1>5. View(p)' = LoadImage(new)
  BY <1>3, <1>4 DEF View, LoadImage
<1> QED BY <1>5 DEF Mem

LEMMA NewSpaceMaps ==
  ASSUME IInv, NEW p \in Procs, NEW new \in Programs, NewSpace(p, new), life'[p] = "runs",
         data' = data, \A q \in Procs \ {p} : life'[q] = life[q]
  PROVE  Private!Load(p)
<1>1. \A q \in Procs \ {p} : Mem'[q] = Mem[q]
  BY SameMem, IInvShape, IInvRest DEF NewSpace, Shape, Rest
<1>2. Mem' = [Mem EXCEPT ![p] = LoadImage(new)]
  BY <1>1, MemChange, NewSpaceView
<1> QED BY <1>2 DEF Private!Load, Mem, View, Mapped

LEMMA ForkMaps ==
  ASSUME IInv, NEW p \in Procs, NEW child \in Procs, Fork(p, child)
  PROVE  Private!Fork(p, child)
<1>1. Shape /\ Rest
  BY IInvShape, IInvRest
<1>2. /\ life[p] = "runs" /\ life'[p] = "runs" /\ life[child] = "none" /\ life'[child] = "runs"
      /\ p # child /\ data' = data
      /\ frame'[child] = frame[p] /\ prot'[child] = prot[p] /\ prog'[child] = prog[p]
  BY <1>1 DEF Fork, CloneFrames, Shape, Rest
<1>3. \A q \in Procs \ {child} : /\ life'[q] = life[q] /\ frame'[q] = frame[q]
                                 /\ prot'[q] = prot[q] /\ prog'[q] = prog[q]
  BY <1>1 DEF Fork, CloneFrames, Shape, Rest
<1>4. \A q \in Procs \ {child} : Mem'[q] = Mem[q]
  BY <1>2, <1>3, SameMem
<1>5. Mem'[child] = Mem[p]
  <2>1. \A v \in Pages : Content(child, v)' = Content(p, v)
    BY <1>2 DEF Content, Initial
  <2>2. Mapped(child)' = Mapped(p) /\ Mapped(p) \subseteq Pages
    BY <1>2 DEF Mapped
  <2>3. View(child)' = View(p)
    BY <2>1, <2>2 DEF View
  <2> QED BY <1>2, <2>3 DEF Mem
<1>6. Mem' = [Mem EXCEPT ![child] = Mem[p]]
  BY <1>4, <1>5, MemChange
<1>7. Mem[p] # NoMemory /\ Mem[child] = NoMemory
  BY <1>2, ViewIsMemory DEF Mem
<1> QED BY <1>6, <1>7 DEF Private!Fork, Mem, View, Mapped

(* mmap: the new pages read as zero, whether they are filled now or later.   *)
LEMMA RegionMaps ==
  ASSUME IInv, NEW p \in Procs, NEW new \in SUBSET MmapPages, NEW rights \in Prots,
         Region(p, new, rights),
         \A q \in Procs \ {p} : frame'[q] = frame[q],
         \A q \in Procs, v \in Pages :
           frame[q][v] # NoFrame => data'[frame[q][v]] = data[frame[q][v]],
         \A v \in Pages \ new : frame'[p][v] = frame[p][v],
         \A v \in new : Content(p, v)' = Zero
  PROVE  Private!Mmap(p, new)
<1>1. /\ life[p] = "runs" /\ life' = life /\ prog' = prog /\ prot' = [prot EXCEPT ![p] = prot'[p]]
      /\ Shape
  BY IInvShape DEF Region, Shape
<1>2. \A q \in Procs \ {p} : Mem'[q] = Mem[q]
  BY <1>1, SameMem DEF Shape
<1>3. \A v \in Pages \ new : Content(p, v)' = Content(p, v)
  BY <1>1 DEF Content, Initial
<1>4. /\ Mapped(p)' = Mapped(p) \cup new /\ new \cap Mapped(p) = {}
      /\ Mapped(p) \subseteq Pages
  BY RegionTypes DEF Mapped
<1>5. View(p)' = [v \in Mapped(p) \cup new |-> IF v \in new THEN Zero ELSE View(p)[v]]
  <2>1. \A v \in Mapped(p) \cup new :
          Content(p, v)' = IF v \in new THEN Zero ELSE View(p)[v]
    BY <1>3, <1>4 DEF View
  <2>2. View(p)' = [v \in Mapped(p) \cup new |-> Content(p, v)']
    BY <1>4 DEF View
  <2> QED BY <2>1, <2>2
<1>6. Mem[p] = View(p) /\ Mem'[p] = View(p)' /\ Mem[p] # NoMemory /\ DOMAIN Mem[p] = Mapped(p)
  BY <1>1, ViewIsMemory DEF Mem
<1>7. Mem' = [Mem EXCEPT ![p] =
                [v \in (DOMAIN Mem[p]) \cup new |-> IF v \in new THEN Zero ELSE Mem[p][v]]]
  BY <1>2, <1>5, <1>6, MemChange
<1> QED BY <1>4, <1>6, <1>7 DEF Private!Mmap, Mem, View, Mapped

LEMMA NotInImage ==
  ASSUME IInv, NEW p \in Procs, NEW v \in MmapPages
  PROVE  Initial(p, v) = Zero
<1>1. prog[p] \in Programs
  BY IInvRest DEF Rest
<1>2. v \notin DOMAIN Image[prog[p]]
  BY <1>1, UserVmAssumption DEF ImagePages
<1> QED BY <1>2 DEF Initial

LEMMA MmapMaps ==
  ASSUME IInv, NEW p \in Procs, NEW new \in SUBSET MmapPages, NEW rights \in Prots,
         Mmap(p, new, rights)
  PROVE  Private!Mmap(p, new)
<1>1. Region(p, new, rights) /\ frame' = frame /\ data' = data /\ prog' = prog
  BY DEF Mmap, Region
<1>2. \A v \in new : Content(p, v)' = Zero
  <2>1. SUFFICES ASSUME NEW v \in new PROVE Content(p, v)' = Zero
    OBVIOUS
  <2>2. frame[p][v] = NoFrame /\ Initial(p, v) = Zero
    BY <1>1, RegionTypes, NotInImage
  <2> QED BY <1>1, <2>2 DEF Content, Initial
<1> QED BY <1>1, <1>2, RegionMaps

LEMMA PopulateMaps ==
  ASSUME IInv, NEW p \in Procs, NEW new \in SUBSET MmapPages, NEW rights \in Prots,
         Populate(p, new, rights)
  PROVE  Private!Mmap(p, new)
<1>1. PICK fill \in Distinct(new) :
        /\ Region(p, new, rights) /\ Fill(p, new, rights, fill)
        /\ data' = [f \in Frames |-> IF \E v \in new : fill[v] = f THEN Zero ELSE data[f]]
  BY DEF Populate
<1>2. \A v \in new : fill[v] \in FreeFrames /\ fill[v] \in Frames
  BY DEF Distinct, FreeFrames
<1>3. /\ \A q \in Procs \ {p} : frame'[q] = frame[q]
      /\ \A v \in Pages \ new : frame'[p][v] = frame[p][v]
      /\ \A v \in new : frame'[p][v] = fill[v]
      /\ new \subseteq Pages
  BY <1>1, IInvShape DEF Fill, Shape, Pages
<1>4. \A q \in Procs, v \in Pages :
        frame[q][v] # NoFrame => data'[frame[q][v]] = data[frame[q][v]]
  <2>1. SUFFICES ASSUME NEW q \in Procs, NEW v \in Pages, frame[q][v] # NoFrame
                 PROVE  data'[frame[q][v]] = data[frame[q][v]]
    OBVIOUS
  <2>2. frame[q][v] \in Frames /\ \A w \in new : fill[w] # frame[q][v]
    BY <1>2, <2>1, Types, FreeIsNobodys
  <2> QED BY <1>1, <2>2
<1>5. \A v \in new : Content(p, v)' = Zero
  <2>1. SUFFICES ASSUME NEW v \in new PROVE Content(p, v)' = Zero
    OBVIOUS
  <2>2. frame'[p][v] = fill[v] /\ fill[v] # NoFrame /\ data'[fill[v]] = Zero
    BY <1>1, <1>2, <1>3, UserVmAssumption
  <2> QED BY <2>2 DEF Content
<1> QED BY <1>1, <1>3, <1>4, <1>5, RegionMaps

(* A store changes one page of one process: no other shows the frame.        *)
LEMMA StoreMaps ==
  ASSUME IInv, NEW p \in Procs, NEW i \in Instructions, Complete(p, i), i.kind = "store"
  PROVE  /\ i.page \in DOMAIN Mem[p] /\ Mem[p] # NoMemory /\ i.value \in Values
         /\ Private!Store(p, i.page, i.value)
<1> DEFINE v == i.page
           f == frame[p][v]
<1>1. /\ v \in Pages /\ i.value \in Values /\ f \in Frames /\ f # NoFrame
      /\ pte[p][v].frame = f /\ prot[p][v] # NoProt /\ "store" \in pte[p][v].allow
  BY PassedHasFrame DEF Complete, Passes
<1>2. /\ life[p] = "runs" /\ data' = [data EXCEPT ![f] = i.value] /\ Rest
      /\ life' = life /\ prog' = prog /\ prot' = prot /\ frame' = frame
  BY <1>1, IInvRest DEF Complete, Executes, tables
<1>3. \A q \in Procs, w \in Pages : <<q, w>> # <<p, v>> => frame[q][w] # f
  <2>1. SUFFICES ASSUME NEW q \in Procs, NEW w \in Pages, <<q, w>> # <<p, v>>
                 PROVE  frame[q][w] # f
    OBVIOUS
  <2>2. pte[q][w].frame # f
    BY <1>1, <2>1 DEF IInv, WritableIsPrivate
  <2> QED BY <2>2, Types DEF PageOK
<1>4. \A q \in Procs, w \in Pages : frame[q][w] \in Frames \cup {NoFrame}
  BY Types
<1>5. \A q \in Procs \ {p} : Mem'[q] = Mem[q]
  <2>1. SUFFICES ASSUME NEW q \in Procs \ {p} PROVE Mem'[q] = Mem[q]
    OBVIOUS
  <2>2. \A w \in Pages : frame[q][w] # NoFrame => data'[frame[q][w]] = data[frame[q][w]]
    BY <1>1, <1>2, <1>3, <1>4 DEF Rest
  <2> QED BY <1>2, <2>2, SameMem
<1>6. Mem[p] = View(p) /\ Mem'[p] = View(p)' /\ Mem[p] # NoMemory /\ v \in DOMAIN Mem[p]
  BY <1>1, <1>2, ViewIsMemory DEF Mem, Mapped
<1>7. View(p)' = [View(p) EXCEPT ![v] = i.value]
  <2>1. Mapped(p)' = Mapped(p) /\ Mapped(p) \subseteq Pages
    BY <1>2 DEF Mapped
  <2>2. Content(p, v)' = i.value
    BY <1>1, <1>2 DEF Content, Rest
  <2>3. ASSUME NEW w \in Pages, w # v PROVE Content(p, w)' = Content(p, w)
    BY <1>1, <1>2, <1>3, <1>4, <2>3 DEF Content, Initial, Rest
  <2> QED BY <2>1, <2>2, <2>3 DEF View
<1>8. Mem' = [Mem EXCEPT ![p][v] = i.value]
  BY <1>5, <1>6, <1>7, MemChange
<1> QED BY <1>1, <1>6, <1>8 DEF Private!Store, Mem, View, Mapped

(* Sharing, restoring, copying and filling are not seen.                     *)
LEMMA UnseenStep ==
  ASSUME \A q \in Procs : Mem'[q] = Mem[q]
  PROVE  Mem' = Mem
BY DEF Mem

LEMMA KeptMem ==
  ASSUME life' = life, prog' = prog, prot' = prot, frame' = frame, data' = data
  PROVE  Mem' = Mem
BY SameMem, UnseenStep

LEMMA CopyUnseen ==
  ASSUME IInv, NEW p \in Procs, NEW i \in Instructions, CowCopy(p, i) \/ Demand(p, i)
  PROVE  Mem' = Mem
<1> DEFINE v == i.page
<1>1. PICK f \in Frames : f = Fresh /\ f \in FreeFrames
  BY FreshIsFree DEF CowCopy, CanCopy, Demand, FreeFrames
<1>2. /\ v \in Pages /\ Shape /\ Rest /\ f # NoFrame
      /\ life' = life /\ prog' = prog /\ prot' = prot
  BY <1>1, IInvShape, IInvRest, UserVmAssumption DEF CowCopy, Demand, Instructions
<1>3. /\ frame' = [frame EXCEPT ![p][v] = f]
      /\ data' = [data EXCEPT ![f] = Content(p, v)]
  <2>1. CASE CowCopy(p, i)
    <3>1. frame[p][v] # NoFrame
      BY <1>2, <2>1, MarkedHasFrame, UserVmAssumption DEF CowCopy, CanCopy, OnCow
    <3> QED BY <1>1, <2>1, <3>1 DEF CowCopy, Content
  <2>2. CASE Demand(p, i)
    <3>1. frame[p][v] = NoFrame
      BY <2>2, DemandTypes
    <3>2. frame' = [frame EXCEPT ![p] =
                      [w \in Pages |-> IF w \in {v} THEN f ELSE frame[p][w]]]
      BY <1>1, <2>2 DEF Demand, Fill
    <3>3. [w \in Pages |-> IF w \in {v} THEN f ELSE frame[p][w]] = [frame[p] EXCEPT ![v] = f]
      BY <1>2 DEF Shape
    <3>4. data' = [data EXCEPT ![f] = Initial(p, v)]
      BY <1>1, <2>2 DEF Demand
    <3> QED BY <3>1, <3>2, <3>3, <3>4 DEF Content
  <2> QED BY <2>1, <2>2
<1>4. \A q \in Procs, w \in Pages : frame[q][w] # f /\ frame[q][w] \in Frames \cup {NoFrame}
  BY <1>1, Types, FreeIsNobodys
<1>5. \A q \in Procs, w \in Pages : Content(q, w)' = Content(q, w)
  <2>1. SUFFICES ASSUME NEW q \in Procs, NEW w \in Pages
                 PROVE  Content(q, w)' = Content(q, w)
    OBVIOUS
  <2>2. CASE q = p /\ w = v
    <3>1. frame'[q][w] = f /\ data'[f] = Content(p, v)
      BY <1>2, <1>3, <2>2 DEF Shape, Rest
    <3> QED BY <1>2, <2>2, <3>1 DEF Content
  <2>3. CASE <<q, w>> # <<p, v>>
    <3>1. frame'[q][w] = frame[q][w]
      BY <1>2, <1>3, <2>3 DEF Shape
    <3>2. frame[q][w] # NoFrame => data'[frame[q][w]] = data[frame[q][w]]
      BY <1>2, <1>3, <1>4 DEF Rest
    <3> QED BY <1>2, <3>1, <3>2 DEF Content, Initial
  <2> QED BY <2>2, <2>3
<1>6. \A q \in Procs : View(q)' = View(q)
  <2>1. SUFFICES ASSUME NEW q \in Procs PROVE View(q)' = View(q)
    OBVIOUS
  <2>2. Mapped(q)' = Mapped(q) /\ Mapped(q) \subseteq Pages
    BY <1>2 DEF Mapped
  <2> QED BY <1>5, <2>2 DEF View
<1> QED BY <1>2, <1>6 DEF Mem

LEMMA EndMaps ==
  ASSUME IInv, NEW p \in Procs, Ended(p)
  PROVE  Private!End(p)
<1>1. /\ life'[p] = "zombie" /\ \A q \in Procs \ {p} : life'[q] = life[q]
      /\ prog' = prog /\ prot' = prot /\ frame' = frame /\ data' = data
  BY IInvRest DEF Ended, tables, Rest
<1>2. \A q \in Procs \ {p} : Mem'[q] = Mem[q]
  BY <1>1, SameMem
<1>3. Mem'[p] = NoMemory
  BY <1>1 DEF Mem
<1>4. Mem' = [Mem EXCEPT ![p] = NoMemory]
  BY <1>2, <1>3, MemChange
<1> QED BY <1>4 DEF Private!End, Mem, View, Mapped

LEMMA ReapUnseen ==
  ASSUME IInv, NEW p \in Procs, Reap(p)
  PROVE  Mem' = Mem
<1>1. /\ life[p] = "zombie" /\ life'[p] = "none" /\ data' = data
      /\ \A q \in Procs \ {p} : /\ life'[q] = life[q] /\ prog'[q] = prog[q]
                                /\ prot'[q] = prot[q] /\ frame'[q] = frame[q]
  BY IInvRest, IInvShape DEF Reap, Forgotten, Rest, Shape
<1>2. \A q \in Procs \ {p} : Mem'[q] = Mem[q]
  BY <1>1, SameMem
<1>3. Mem'[p] = NoMemory /\ Mem[p] = NoMemory
  BY <1>1 DEF Mem
<1> QED BY <1>2, <1>3, UnseenStep

-----------------------------------------------------------------------------
(* The kernel's tables of address spaces keep their types.                   *)
THEOREM TypeCorrect == Spec => []TypeOK
<1>1. IInv => TypeOK
  BY DEF IInv
<1> QED BY <1>1, AlwaysIInv, PTL

(* No process can write what another one, or another page of its own, shows: *)
(* MakeCow on fork, the last sharer's restore and the copy together.         *)
THEOREM WritableStaysPrivate == Spec => []WritableIsPrivate
<1>1. IInv => WritableIsPrivate
  BY DEF IInv
<1> QED BY <1>1, AlwaysIInv, PTL

(* mm_page_get and mm_page_put are balanced over fork, faults, exec, signals *)
(* and death, and no permitted access ends in "Kill Process" while there is  *)
(* memory.                                                                   *)
THEOREM PagesStaySound == Spec => []PagesSound
<1>1. IInv => PagesSound
  <2>1. SUFFICES ASSUME IInv PROVE RefsExact /\ PermittedIsServed
    BY DEF PagesSound
  <2>2. RefsExact
    <3>1. \A f \in Frames : {p \in Procs : f \in Owned(p)} = Owners(f)
      BY OwnedIsHad DEF Owners
    <3> QED BY <2>1, <3>1 DEF RefsExact, IInv, Exact
  <2>3. ASSUME NEW p \in Procs, NEW i \in Instructions,
               Faults(p, i), i.kind \in Allowed(prot[p][i.page]), FreeFrames # {}
        PROVE  Served(p, i)
    <3>1. /\ i.page \in Pages /\ i.kind \notin pte[p][i.page].allow
          /\ PageOK(prot[p][i.page], frame[p][i.page], pte[p][i.page])
      BY <2>1, <2>3, Types DEF Instructions, Faults, Passes
    <3>2. CASE frame[p][i.page] = NoFrame
      BY <2>3, <3>1, <3>2 DEF PageOK, OnDemand, Served
    <3>3. CASE frame[p][i.page] # NoFrame
      <4>1. OnCow(p, i)
        BY <2>3, <3>1, <3>3 DEF PageOK, OnCow
      <4>2. Sharers(p, i) \in Nat
        BY <2>1, <3>1, <4>1, MarkedHasFrame, IInvShape DEF OnCow, Sharers, Shape
      <4>3. Replaceable(p, i.page)
        BY <2>3, <3>1, <4>1
        DEF PageOK, OnCow, Replaceable, RegionReplaceable, Allowed
      <4>4. CASE Sharers(p, i) <= 1
        BY <4>1, <4>4 DEF Served
      <4>5. CASE Sharers(p, i) > 1
        BY <2>3, <4>1, <4>3, <4>5 DEF Served, CanCopy
      <4> QED BY <4>2, <4>4, <4>5
    <3> QED BY <3>2, <3>3
  <2> QED BY <2>2, <2>3 DEF PermittedIsServed
<1> QED BY <1>1, AlwaysIInv, PTL

LEMMA NextMaps == IInv /\ [Next]_vars => [Private!Next]_Mem
<1> SUFFICES ASSUME IInv, [Next]_vars, Mem' # Mem PROVE Private!Next
  OBVIOUS
<1> USE DEF Mem, View, Mapped
<1>1. CASE UNCHANGED vars
  <2>1. Mem' = Mem
    BY <1>1, KeptMem DEF vars, tables
  <2> QED BY <2>1
<1>2. ASSUME NEW p \in Procs, NEW new \in Programs, Start(p, new) \/ Exec(p, new)
      PROVE  Private!Next
  <2>1. Private!Load(p)
    BY <1>2, NewSpaceMaps, IInvRest DEF Start, Exec, Rest
  <2> QED BY <2>1 DEF Private!Next
<1>3. ASSUME NEW p \in Procs, NEW child \in Procs, Fork(p, child)
      PROVE  Private!Next
  BY <1>3, ForkMaps DEF Private!Next
<1>4. ASSUME NEW p \in Procs, NEW new \in SUBSET MmapPages, NEW rights \in Prots,
             Mmap(p, new, rights) \/ Populate(p, new, rights)
      PROVE  Private!Next
  BY <1>4, MmapMaps, PopulateMaps DEF Private!Next
<1>5. ASSUME NEW p \in Procs, NEW i \in Instructions, Execute(p, i)
      PROVE  Private!Next
  <2>1. CASE Complete(p, i) /\ i.kind = "store"
    BY <2>1, StoreMaps DEF Private!Next
  <2>2. CASE Complete(p, i) /\ i.kind # "store"
    BY <2>2, KeptMem DEF Complete, tables
  <2>3. CASE CowRestore(p, i)
    BY <2>3, KeptMem DEF CowRestore
  <2>4. CASE CowCopy(p, i) \/ Demand(p, i)
    BY <2>4, CopyUnseen
  <2>5. CASE SegmentationFault(p, i)
    BY <2>5, EndMaps DEF SegmentationFault, Private!Next
  <2> QED BY <1>5, <2>1, <2>2, <2>3, <2>4, <2>5 DEF Execute
<1>6. ASSUME NEW p \in Procs, End(p)
      PROVE  Private!Next
  BY <1>6, EndMaps DEF End, Private!Next
<1>7. ASSUME NEW p \in Procs,
             \/ \E reached \in SUBSET Pages : ForkFails(p, reached)
             \/ Deliver(p) \/ SigReturn(p)
      PROVE  Private!Next
  BY <1>7, KeptMem DEF ForkFails, Deliver, SigReturn
<1>8. ASSUME NEW p \in Procs, Reap(p)
      PROVE  Private!Next
  BY <1>8, ReapUnseen
<1>9. CASE Next
  BY <1>9, <1>2, <1>3, <1>4, <1>5, <1>6, <1>7, <1>8 DEF Next
<1> QED BY <1>1, <1>9

(* The paging, sharing and copying of user_vm.c and mmap.c implement         *)
(* memories that no process shares.                                          *)
THEOREM MemoryIsPrivate == Spec => KeepsPrivate
<1>1. Init => Private!Init
  BY DEF Init, Private!Init
<1>2. IInv /\ [Next]_vars => [Private!Next]_(Private!vars)
  BY NextMaps DEF Private!vars, Mem, View, Mapped
<1> QED BY <1>1, <1>2, AlwaysIInv, PTL DEF Spec, KeepsPrivate, Private!Spec

-----------------------------------------------------------------------------
(* Where mmap puts a region (MmapArea), for any layout and any word size.    *)
(*                                                                           *)
(* The argument: regions are whole pages, apart from each other and from the *)
(* image (AreaInv), so a request fits where its whole pages do (RoomIsFit),  *)
(* and that is what the code checks on addresses that wrap (RoomAt).  No     *)
(* place is skipped by the search (Skips): what comes before a value of its  *)
(* variable overlaps what was in the way (CandidatesReached).                *)
LEMMA AreaFacts ==
  /\ PageSize \in Nat \ {0} /\ Word \in Nat /\ Word % PageSize = 0
  /\ MmapBase \in Nat /\ SigBase \in Nat /\ StackBase \in Nat /\ StackTop \in Nat
  /\ MmapBase < SigBase /\ SigBase < StackBase /\ StackBase < StackTop /\ StackTop < Word
  /\ MmapBase % PageSize = 0 /\ SigBase % PageSize = 0
<1>1. /\ PageSize \in Nat \ {0} /\ Word \in Nat
      /\ MmapBase < SigBase /\ SigBase < StackBase /\ StackBase < StackTop
  BY MmapAreaAssumption
<1>2. \A a \in {MmapBase, SigBase, Word} \cup ImageEnds : a % PageSize = 0
  BY MmapAreaAssumption
<1>3. Word % PageSize = 0 /\ MmapBase % PageSize = 0 /\ SigBase % PageSize = 0
  BY <1>2
<1>4. MmapBase \in Address /\ SigBase \in Address /\ StackBase \in Address /\ StackTop \in Address
  BY MmapAreaAssumption
<1>5. \A a \in Address : a \in Nat /\ a < Word
  BY <1>1 DEF Address
<1> QED BY <1>1, <1>3, <1>4, <1>5

LEMMA ImageFacts ==
  ASSUME NEW a \in ImageEnds
  PROVE  a \in Nat /\ a % PageSize = 0 /\ a <= MmapBase
BY MmapAreaAssumption DEF Address

LEMMA RequestFacts == Hints \subseteq Nat /\ Lengths \subseteq Nat
BY MmapAreaAssumption DEF Address

(* Division by the page size.                                                *)
LEMMA PagesOf ==
  ASSUME NEW x \in Int
  PROVE  /\ x = PageSize * (x \div PageSize) + (x % PageSize)
         /\ x \div PageSize \in Int /\ x % PageSize \in 0 .. PageSize - 1
BY AreaFacts

LEMMA WholePages ==
  ASSUME NEW q \in Int, NEW r \in 0 .. PageSize - 1
  PROVE  (q * PageSize + r) % PageSize = r
BY AreaFacts

LEMMA Scaled ==
  ASSUME NEW x \in Int, NEW y \in Int, x <= y
  PROVE  x * PageSize <= y * PageSize
BY AreaFacts

LEMMA AlignedIs ==
  ASSUME NEW x \in Int, x % PageSize = 0
  PROVE  \E q \in Int : x = q * PageSize
<1>1. x = PageSize * (x \div PageSize) /\ x \div PageSize \in Int
  BY PagesOf, AreaFacts
<1>2. PageSize * (x \div PageSize) = (x \div PageSize) * PageSize
  BY <1>1, AreaFacts
<1> QED BY <1>1, <1>2

LEMMA PageAfter ==
  ASSUME NEW x \in Int, NEW y \in Int, x % PageSize = 0, y % PageSize = 0, x < y
  PROVE  x + PageSize <= y
<1>1. PICK p \in Int, q \in Int : x = p * PageSize /\ y = q * PageSize
  BY AlignedIs
<1>2. p < q
  <2>1. q <= p => q * PageSize <= p * PageSize
    BY Scaled
  <2> QED BY <1>1, <2>1
<1>3. (p + 1) * PageSize <= q * PageSize
  BY <1>2, Scaled
<1>4. (p + 1) * PageSize = p * PageSize + PageSize
  BY AreaFacts
<1> QED BY <1>1, <1>3, <1>4

LEMMA SpaceBelow == SigBase + PageSize <= Word
<1>1. SigBase \in Int /\ Word \in Int /\ SigBase < Word
  BY AreaFacts
<1>2. SigBase % PageSize = 0 /\ Word % PageSize = 0
  BY AreaFacts
<1> QED BY <1>1, <1>2, PageAfter

LEMMA SumAligned ==
  ASSUME NEW x \in Int, NEW y \in Int, x % PageSize = 0, y % PageSize = 0
  PROVE  (x + y) % PageSize = 0
<1>1. PICK p \in Int, q \in Int : x = p * PageSize /\ y = q * PageSize
  BY AlignedIs
<1>2. x + y = (p + q) * PageSize + 0 /\ p + q \in Int /\ 0 \in 0 .. PageSize - 1
  BY <1>1, AreaFacts
<1> QED BY <1>2, WholePages

(* Addition as the machine does it.                                          *)
LEMMA WrapIs ==
  ASSUME NEW x \in Int
  PROVE  /\ 0 <= x /\ x < Word => Wrap(x) = x
         /\ Word <= x /\ x < Word + Word => Wrap(x) = x - Word
<1>1. Word \in Nat \ {0}
  BY AreaFacts
<1> QED BY <1>1 DEF Wrap

LEMMA RoundUp ==
  ASSUME NEW x \in Nat, x + PageSize <= Word
  PROVE  /\ AlignUp(x) \in Nat /\ AlignUp(x) % PageSize = 0
         /\ x <= AlignUp(x) /\ AlignUp(x) < x + PageSize
         /\ x % PageSize = 0 => AlignUp(x) = x
<1> DEFINE y == x + PageSize - 1
           r == y % PageSize
           q == y \div PageSize
<1>1. y \in Nat /\ Wrap(y) = y
  BY WrapIs, AreaFacts
<1>2. y = PageSize * q + r /\ q \in Int /\ r \in 0 .. PageSize - 1
  BY <1>1, PagesOf
<1>3. PageSize * q = q * PageSize + 0 /\ q * PageSize \in Int
  <2> HIDE DEF q
  <2> QED BY <1>2, AreaFacts
<1>4. AlignUp(x) = y - r
  BY <1>1 DEF AlignUp
<1>5. AlignUp(x) = q * PageSize + 0
  <2> DEFINE whole == q * PageSize
  <2>1. y = whole + r /\ whole \in Int /\ r \in Int /\ y \in Int
    BY <1>1, <1>2, <1>3
  <2> HIDE DEF y, r, whole
  <2>2. AlignUp(x) = whole + 0
    BY <1>4, <2>1
  <2> QED BY <2>2 DEF whole
<1>6. AlignUp(x) % PageSize = 0
  <2>1. 0 \in 0 .. PageSize - 1
    BY AreaFacts
  <2> HIDE DEF q
  <2> QED BY <1>2, <1>5, <2>1, WholePages
<1>7. x <= AlignUp(x) /\ AlignUp(x) < x + PageSize /\ AlignUp(x) \in Nat
  <2>1. PageSize \in Nat /\ y = x + PageSize - 1
    BY AreaFacts
  <2> HIDE DEF y, r
  <2> QED BY <1>1, <1>2, <1>4, <2>1
<1>8. ASSUME x % PageSize = 0 PROVE AlignUp(x) = x
  <2>1. SUFFICES ASSUME x < AlignUp(x) PROVE FALSE
    BY <1>7
  <2>2. x + PageSize <= AlignUp(x)
    BY <1>6, <1>7, <1>8, <2>1, PageAfter
  <2> QED BY <1>7, <2>2, AreaFacts
<1> QED BY <1>6, <1>7, <1>8

LEMMA LeastOf ==
  ASSUME NEW X \in SUBSET Nat, X # {}
  PROVE  \E n \in X : \A x \in X : n <= x
<1>1. PICK n \in X : \A other \in X : <<other, n>> \notin OpToRel(<, Nat)
  <2>1. X \subseteq Nat /\ X # {}
    OBVIOUS
  <2> QED BY <2>1, WFMin, NatLessThanWellFounded
<1>2. OpToRel(<, Nat) = {pair \in Nat \X Nat : pair[1] < pair[2]}
  BY Zenon DEF OpToRel
<1>3. ASSUME NEW x \in X
      PROVE  n <= x
  <2>1. n \in Nat /\ x \in Nat
    OBVIOUS
  <2>2. <<x, n>> \notin OpToRel(<, Nat)
    BY <1>1
  <2>3. <<x, n>> \notin {pair \in Nat \X Nat : pair[1] < pair[2]}
    BY <1>2, <2>2
  <2> QED BY <2>1, <2>3
<1> QED BY <1>3

LEMMA GreatestOf ==
  ASSUME NEW b \in Nat, NEW X \in SUBSET (0 .. b), X # {}
  PROVE  \E n \in X : \A x \in X : x <= n
<1> DEFINE Y == {b - x : x \in X}
<1>1. Y \in SUBSET Nat /\ Y # {}
  <2>1. \A x \in X : b - x \in Nat
    OBVIOUS
  <2> QED BY <2>1
<1>2. PICK m \in Y : \A y \in Y : m <= y
  <2> HIDE DEF Y
  <2> QED BY <1>1, LeastOf
<1>3. PICK n \in X : m = b - n
  BY <1>2
<1>4. ASSUME NEW x \in X PROVE x <= n
  <2>1. b - n <= b - x /\ x \in 0 .. b /\ n \in 0 .. b
    BY <1>2, <1>3
  <2> QED BY <2>1
<1> QED BY <1>4

LEMMA MinOf ==
  ASSUME NEW X \in SUBSET Int, NEW n \in X, \A x \in X : n <= x
  PROVE  Min(X) = n
<1>1. Min(X) \in X /\ \A y \in X : Min(X) <= y
  BY DEF Min
<1>2. Min(X) <= n /\ n <= Min(X) /\ n \in Int /\ Min(X) \in Int
  BY <1>1
<1> QED BY <1>2

LEMMA MaxOf ==
  ASSUME NEW X \in SUBSET Int, NEW n \in X, \A x \in X : x <= n
  PROVE  Max(X) = n
<1>1. \A y \in X : n >= y
  OBVIOUS
<1>2. Max(X) \in X /\ \A y \in X : Max(X) >= y
  BY <1>1 DEF Max
<1>3. Max(X) >= n /\ n >= Max(X) /\ n \in Int /\ Max(X) \in Int
  BY <1>1, <1>2
<1> QED BY <1>3

-----------------------------------------------------------------------------
(* The regions are whole pages of user space, apart from the image and from  *)
(* each other.                                                               *)
Placed(r) ==
  /\ r.start \in Nat /\ r.end \in Nat /\ image <= r.start /\ r.start < r.end /\ r.end <= SigBase
  /\ r.start % PageSize = 0 /\ r.end % PageSize = 0
AreaInv ==
  /\ image \in ImageEnds
  /\ \A r \in regions : Placed(r)
  /\ \A r, s \in regions : r # s => ~Overlap(r, s)

(* The same for the whole pages of a request.                                *)
Room(a, size) ==
  /\ a + size <= SigBase
  /\ \A r \in regions \cup {Area(0, image)} : r.end <= a \/ a + size <= r.start

LEMMA ImageIs == Area(0, image).start = 0 /\ Area(0, image).end = image
BY DEF Area

LEMMA RoomIsFit ==
  ASSUME AreaInv, NEW length \in Nat, length + PageSize <= Word, 0 < length, NEW a \in Nat, a % PageSize = 0
  PROVE  Fits(a, length) <=> Room(a, AlignUp(length))
<1> DEFINE size == AlignUp(length)
<1>1. size \in Nat /\ size % PageSize = 0 /\ length <= size /\ size < length + PageSize
  BY RoundUp
<1> HIDE DEF size
<1>2. ASSUME NEW b \in Nat, b % PageSize = 0
      PROVE  a + length <= b <=> a + size <= b
  <2>1. a + size <= b => a + length <= b
    BY <1>1
  <2>2. ASSUME a + length <= b, b < a + size
        PROVE  FALSE
    <3>1. (a + size) % PageSize = 0 /\ a + size \in Int
      BY <1>1, SumAligned
    <3>2. b + PageSize <= a + size
      BY <1>2, <2>2, <3>1, PageAfter
    <3> QED BY <1>1, <2>2, <3>2, AreaFacts
  <2> QED BY <1>1, <2>1, <2>2
<1>3. SigBase \in Nat /\ SigBase % PageSize = 0
  BY AreaFacts
<1>4. \A r \in regions \cup {Area(0, image)} : r.start \in Nat /\ r.start % PageSize = 0
  <2>1. 0 \in Nat /\ 0 % PageSize = 0
    BY AreaFacts
  <2> QED BY <2>1, ImageIs DEF AreaInv, Placed
<1>5. a + length <= SigBase <=> a + size <= SigBase
  BY <1>2, <1>3
<1>6. \A r \in regions \cup {Area(0, image)} : a + length <= r.start <=> a + size <= r.start
  BY <1>2, <1>4
<1> QED BY <1>5, <1>6 DEF Fits, Room, size

(* What the code finds available is what has room: the stacks are above.     *)
LEMMA NothingAbove ==
  ASSUME NEW a \in Nat, NEW e \in Nat, e <= SigBase, AreaInv
  PROVE  Conflicts(a, e) = {r \in regions \cup {Area(0, image)} : a < r.end /\ r.start < e}
<1>1. /\ Area(StackBase, StackTop).start = StackBase /\ Area(SigBase, StackBase).start = SigBase
      /\ Area(a, e).start = a /\ Area(a, e).end = e
  BY DEF Area
<1>2. ~(StackBase < e) /\ ~(SigBase < e)
  BY AreaFacts
<1>3. \A r \in Taken : Overlap(Area(a, e), r) <=> a < r.end /\ r.start < e
  BY <1>1 DEF Overlap
<1>4. \A r \in Taken : r.start < e => r \in regions \cup {Area(0, image)}
  BY <1>1, <1>2 DEF Taken
<1>5. regions \cup {Area(0, image)} \subseteq Taken
  BY DEF Taken
<1> QED BY <1>3, <1>4, <1>5 DEF Conflicts

LEMMA RoomAt ==
  ASSUME AreaInv, NEW a \in Nat, a < Word, NEW size \in Nat, 0 < size, size < Word
  PROVE  /\ Room(a, size) <=> a <= EndOf(a, size) /\ EndOf(a, size) <= SigBase
                              /\ Conflicts(a, EndOf(a, size)) = {}
         /\ a <= EndOf(a, size) /\ EndOf(a, size) <= SigBase <=> a + size <= SigBase
         /\ a + size <= SigBase => EndOf(a, size) = a + size
<1>1. a + size < Word => EndOf(a, size) = a + size
  BY WrapIs, AreaFacts DEF EndOf
<1>2. Word <= a + size => EndOf(a, size) = a + size - Word
  BY WrapIs, AreaFacts DEF EndOf
<1>3. a + size <= SigBase => EndOf(a, size) = a + size
  BY <1>1, AreaFacts
<1>4. a <= EndOf(a, size) /\ EndOf(a, size) <= SigBase <=> a + size <= SigBase
  <2>1. CASE a + size < Word
    BY <1>1, <2>1, AreaFacts
  <2>2. CASE Word <= a + size
    <3>1. ~(a <= EndOf(a, size))
      BY <1>2, <2>2, AreaFacts
    <3> QED BY <2>2, <3>1, AreaFacts
  <2> QED BY <2>1, <2>2, AreaFacts
<1>5. ASSUME a + size <= SigBase
      PROVE  Room(a, size) <=> Conflicts(a, a + size) = {}
  <2>1. Conflicts(a, a + size) = {r \in regions \cup {Area(0, image)} : a < r.end /\ r.start < a + size}
    BY <1>5, NothingAbove
  <2>2. \A r \in regions \cup {Area(0, image)} : r.start \in Int /\ r.end \in Int
    BY ImageIs, ImageFacts DEF AreaInv, Placed
  <2>3. \A r \in regions \cup {Area(0, image)} :
           (r.end <= a \/ a + size <= r.start) <=> ~(a < r.end /\ r.start < a + size)
    BY <2>2
  <2> QED BY <1>5, <2>1, <2>3 DEF Room
<1>6. Room(a, size) => a + size <= SigBase
  BY DEF Room
<1> QED BY <1>3, <1>4, <1>5, <1>6

-----------------------------------------------------------------------------
(* The search has come to c: nothing before it takes the request.            *)
Reached(c, length) ==
  /\ c \in Nat /\ c % PageSize = 0 /\ MmapBase <= c /\ c < SigBase
  /\ \A a \in MmapBase .. c - 1 : ~Fits(a, length)

(* A request: its bytes are rounded up to whole pages without wrapping.      *)
LEMMA SizeOf ==
  ASSUME NEW length \in Nat, length + PageSize <= Word, 0 < length
  PROVE  /\ AlignUp(length) \in Nat /\ AlignUp(length) % PageSize = 0
         /\ 0 < AlignUp(length) /\ AlignUp(length) < Word
BY RoundUp, AreaFacts

LEMMA InSpaceIs ==
  ASSUME AreaInv, NEW c \in Nat, c < SigBase, NEW size \in Nat, 0 < size, size < Word
  PROVE  /\ InSpace(c, size) <=> c + size <= SigBase
         /\ Room(c, size) <=> InSpace(c, size) /\ Blocking(c, size) = {}
         /\ InSpace(c, size) => Blocking(c, size) =
              {r \in regions \cup {Area(0, image)} : c < r.end /\ r.start < c + size}
<1>1. c < Word
  BY AreaFacts
<1>2. InSpace(c, size) <=> c + size <= SigBase
  BY <1>1, RoomAt DEF InSpace
<1>3. Room(c, size) <=> InSpace(c, size) /\ Blocking(c, size) = {}
  BY <1>1, RoomAt DEF InSpace, Blocking
<1>4. ASSUME c + size <= SigBase
      PROVE  Blocking(c, size) = {r \in regions \cup {Area(0, image)} : c < r.end /\ r.start < c + size}
  <2>1. EndOf(c, size) = c + size /\ c + size \in Nat
    BY <1>1, <1>4, RoomAt
  <2> QED BY <1>4, <2>1, NothingAbove DEF Blocking
<1> QED BY <1>2, <1>3, <1>4

(* What is in the way is a region, and the search goes on behind the last of *)
(* those: it does not skip a place.                                          *)
LEMMA Skips ==
  ASSUME AreaInv, NEW length \in Nat, length + PageSize <= Word, 0 < length,
         NEW c \in Nat, Reached(c, length),
         InSpace(c, AlignUp(length)), Blocking(c, AlignUp(length)) # {}
  PROVE  LET next == After(c, AlignUp(length))
         IN  /\ next \in Nat /\ next % PageSize = 0 /\ c < next /\ next <= SigBase
             /\ next \in Stops
             /\ \A a \in MmapBase .. next - 1 : ~Fits(a, length)
<1> DEFINE size == AlignUp(length)
           hits == Blocking(c, size)
           ends == {r.end : r \in hits}
<1>1. size \in Nat /\ 0 < size /\ size < Word
  BY SizeOf
<1>2. c < SigBase /\ MmapBase <= c
  BY DEF Reached
<1>3. hits = {r \in regions \cup {Area(0, image)} : c < r.end /\ r.start < c + size}
  BY <1>1, <1>2, InSpaceIs
<1>4. \A r \in hits : r \in regions
  <2>1. image \in Nat /\ image <= MmapBase
    BY ImageFacts DEF AreaInv
  <2>2. ~(c < image)
    BY <1>2, <2>1, AreaFacts
  <2> QED BY <1>3, <2>2, ImageIs
<1>5. \A r \in hits : Placed(r)
  BY <1>4 DEF AreaInv
<1>6. ends # {} /\ ends \in SUBSET (0 .. SigBase)
  <2>1. \A r \in hits : r.end \in 0 .. SigBase
    BY <1>5, AreaFacts DEF Placed
  <2> QED BY <2>1
<1>7. PICK n \in ends : \A x \in ends : x <= n
  <2> HIDE DEF ends
  <2> QED BY <1>6, GreatestOf, AreaFacts
<1>8. PICK m \in hits : n = m.end
  BY <1>7
<1>9. m \in regions /\ Placed(m) /\ c < m.end /\ m.start < c + size
  BY <1>3, <1>4, <1>5, <1>8
<1>10. Behind(hits) = m.end
  <2>1. ends \in SUBSET Int /\ n \in ends
    BY <1>6, <1>7
  <2>2. Max(ends) = n
    <3> HIDE DEF ends
    <3> QED BY <1>7, <2>1, MaxOf
  <2> QED BY <1>8, <2>2 DEF Behind
<1>11. m.end \in Nat /\ m.end <= SigBase /\ m.end % PageSize = 0 /\ m.start \in Nat
  BY <1>9 DEF Placed
<1>12. AlignUp(m.end) = m.end
  <2>1. SigBase + PageSize <= Word
    BY SpaceBelow
  <2>2. m.end + PageSize <= Word
    BY <1>11, <2>1, AreaFacts
  <2> QED BY <1>11, <2>2, RoundUp
<1>13. After(c, size) = m.end
  BY <1>10, <1>12 DEF After
<1>14. m.end \in Stops
  BY <1>9, <1>12 DEF Stops, Taken
<1>15. ASSUME NEW a \in MmapBase .. m.end - 1
       PROVE  ~Fits(a, length)
  <2>1. CASE a < c
    BY <1>15, <2>1, AreaFacts DEF Reached
  <2>2. CASE c <= a
    <3>1. SUFFICES ASSUME Fits(a, length) PROVE FALSE
      OBVIOUS
    <3>2. a \in Nat /\ a % PageSize = 0
      BY <1>15, <3>1, AreaFacts DEF Fits
    <3>3. Room(a, size)
      BY <3>1, <3>2, RoomIsFit
    <3>4. m.end <= a \/ a + size <= m.start
      BY <1>9, <3>3 DEF Room
    <3> HIDE DEF size
    <3> QED BY <1>1, <1>9, <1>11, <1>15, <2>2, <3>2, <3>4
  <2> QED BY <1>15, <2>1, <2>2, AreaFacts
<1> QED BY <1>9, <1>11, <1>13, <1>14, <1>15


(* The values of the search's variable: each was reached, the first is among *)
(* them, and with each the one it goes on with.                              *)
LEMMA CandidatesReached ==
  ASSUME AreaInv, NEW length \in Nat, length + PageSize <= Word, 0 < length
  PROVE  LET size == AlignUp(length)
         IN  /\ \A c \in Candidates(size) : Reached(c, length)
             /\ MmapBase \in Candidates(size)
             /\ \A c \in Candidates(size) : GoesOn(c, size) => After(c, size) \in Candidates(size)
<1> DEFINE size == AlignUp(length)
           stops == Stops \cap (MmapBase .. SigBase - 1)
           moves == {<<c, After(c, size)>> : c \in {d \in stops : GoesOn(d, size)}}
           Closed(S) == MmapBase \in S /\ \A m \in moves : m[1] \in S => m[2] \in S
           good == {c \in stops : Reached(c, length)}
<1>1. Candidates(size) = {c \in stops : \A S \in SUBSET stops : Closed(S) => c \in S}
  BY DEF Candidates
<1>2. MmapBase \in stops /\ Reached(MmapBase, length)
  <2>1. MmapBase \in Nat /\ MmapBase < SigBase /\ MmapBase % PageSize = 0 /\ SigBase \in Nat
    BY AreaFacts
  <2>2. MmapBase \in Stops
    BY DEF Stops
  <2> QED BY <2>1, <2>2 DEF Reached
<1>3. ASSUME NEW d \in good, GoesOn(d, size)
      PROVE  After(d, size) \in good
  <2>1. InSpace(d, size) /\ Blocking(d, size) # {} /\ After(d, size) \in MmapBase .. SigBase - 1
    BY <1>3 DEF GoesOn
  <2>2. d \in Nat /\ Reached(d, length)
    BY DEF Reached
  <2>3. /\ After(d, size) \in Nat /\ After(d, size) % PageSize = 0 /\ After(d, size) \in Stops
        /\ \A a \in MmapBase .. After(d, size) - 1 : ~Fits(a, length)
    BY <2>1, <2>2, Skips
  <2>4. MmapBase <= After(d, size) /\ After(d, size) < SigBase
    BY <2>1, <2>3, AreaFacts
  <2> QED BY <2>1, <2>3, <2>4 DEF Reached
<1>4. Closed(good) /\ good \in SUBSET stops
  <2>1. \A m \in moves : m[1] \in good => m[2] \in good
    <3> SUFFICES ASSUME NEW d \in stops, GoesOn(d, size), d \in good
                 PROVE  After(d, size) \in good
      OBVIOUS
    <3> HIDE DEF good
    <3> QED BY <1>3
  <2> QED BY <1>2, <2>1
<1>5. \A c \in Candidates(size) : Reached(c, length)
  <2> HIDE DEF Closed
  <2> QED BY <1>1, <1>4
<1>6. MmapBase \in Candidates(size)
  BY <1>1, <1>2
<1>7. ASSUME NEW c \in Candidates(size), GoesOn(c, size)
      PROVE  After(c, size) \in Candidates(size)
  <2>1. c \in stops /\ c \in good
    BY <1>1, <1>5
  <2>2. After(c, size) \in stops
    <3> HIDE DEF stops
    <3> QED BY <1>3, <1>7, <2>1
  <2>3. <<c, After(c, size)>> \in moves
    <3> HIDE DEF stops
    <3> QED BY <1>7, <2>1
  <2>4. ASSUME NEW S \in SUBSET stops, Closed(S)
        PROVE  After(c, size) \in S
    <3>1. c \in S
      <4> HIDE DEF Closed, stops
      <4> QED BY <1>1, <2>4
    <3> HIDE DEF moves
    <3> QED BY <2>3, <2>4, <3>1
  <2> HIDE DEF moves, Closed, stops
  <2> QED BY <1>1, <2>2, <2>4
<1> QED BY <1>5, <1>6, <1>7

(* The search finds the lowest place that takes the request, and nothing     *)
(* only when there is none.                                                  *)
LEMMA SearchIsLowest ==
  ASSUME AreaInv, NEW length \in Nat, length + PageSize <= Word, 0 < length
  PROVE  LET rooms == {a \in MmapBase .. SigBase : Fits(a, length)}
         IN  /\ Search(AlignUp(length)) = IF rooms = {} THEN 0 ELSE Min(rooms)
             /\ rooms # {} => /\ Search(AlignUp(length)) \in Nat
                              /\ Search(AlignUp(length)) % PageSize = 0
                              /\ Room(Search(AlignUp(length)), AlignUp(length))
<1> DEFINE size == AlignUp(length)
           rooms == {a \in MmapBase .. SigBase : Fits(a, length)}
<1>1. size \in Nat /\ 0 < size /\ size < Word
  BY SizeOf
<1>2. \A c \in Candidates(size) : Reached(c, length)
  BY CandidatesReached
<1>3. ASSUME NEW c \in Found(size)
      PROVE  /\ rooms # {} /\ c = Min(rooms)
             /\ c \in Nat /\ c % PageSize = 0 /\ Room(c, size)
  <2>1. c \in Candidates(size) /\ InSpace(c, size) /\ Blocking(c, size) = {}
    BY DEF Found
  <2>2. Reached(c, length)
    BY <1>2, <2>1
  <2>3. c \in Nat /\ c % PageSize = 0 /\ MmapBase <= c /\ c < SigBase
    BY <2>2 DEF Reached
  <2>4. Room(c, size)
    BY <1>1, <2>1, <2>3, InSpaceIs
  <2>5. Fits(c, length)
    BY <2>3, <2>4, RoomIsFit
  <2>6. c \in rooms
    BY <2>3, <2>5, AreaFacts
  <2>7. \A x \in rooms : c <= x
    BY <2>2, <2>3, AreaFacts DEF Reached
  <2>8. rooms \in SUBSET Int
    BY AreaFacts
  <2>9. Min(rooms) = c
    <3> HIDE DEF rooms
    <3> QED BY <2>6, <2>7, <2>8, MinOf
  <2> QED BY <2>3, <2>4, <2>6, <2>9
<1>4. ASSUME Found(size) = {}
      PROVE  rooms = {}
  <2>1. Candidates(size) # {} /\ Candidates(size) \in SUBSET (0 .. SigBase)
    <3>1. \A c \in Candidates(size) : c \in 0 .. SigBase
      BY <1>2, AreaFacts DEF Reached
    <3> QED BY <3>1, CandidatesReached
  <2>2. PICK c \in Candidates(size) : \A d \in Candidates(size) : d <= c
    BY <2>1, GreatestOf, AreaFacts
  <2>3. Reached(c, length) /\ c \in Nat /\ MmapBase <= c /\ c < SigBase
    BY <1>2 DEF Reached
  <2>4. SUFFICES ASSUME NEW a \in MmapBase .. SigBase, Fits(a, length)
                 PROVE  FALSE
    OBVIOUS
  <2>5. a \in Nat /\ a % PageSize = 0 /\ c <= a
    BY <2>3, <2>4, AreaFacts DEF Reached, Fits
  <2>6. Room(a, size)
    BY <2>4, <2>5, RoomIsFit
  <2>7. a + size <= SigBase
    BY <2>6 DEF Room
  <2>8. c + size <= SigBase
    <3> HIDE DEF size
    <3> QED BY <1>1, <2>3, <2>5, <2>7, AreaFacts
  <2>9. InSpace(c, size)
    BY <1>1, <2>3, <2>8, InSpaceIs
  <2>10. Blocking(c, size) # {}
    BY <1>4, <2>9 DEF Found
  <2>11. /\ After(c, size) \in Nat /\ c < After(c, size) /\ After(c, size) <= SigBase
         /\ \A b \in MmapBase .. After(c, size) - 1 : ~Fits(b, length)
    BY <2>3, <2>9, <2>10, Skips
  <2>12. After(c, size) <= a
    BY <2>4, <2>5, <2>11, AreaFacts
  <2>13. After(c, size) \in MmapBase .. SigBase - 1
    <3> HIDE DEF size
    <3> QED BY <1>1, <2>3, <2>5, <2>7, <2>11, <2>12, AreaFacts
  <2>14. After(c, size) \in Candidates(size)
    BY <2>9, <2>10, <2>13, CandidatesReached DEF GoesOn
  <2>15. After(c, size) <= c
    BY <2>2, <2>14
  <2> QED BY <2>3, <2>11, <2>15
<1>5. CASE Found(size) = {}
  BY <1>4, <1>5 DEF Search
<1>6. CASE Found(size) # {}
  <2>1. Search(size) \in Found(size)
    BY <1>6 DEF Search
  <2> HIDE DEF rooms
  <2> QED BY <1>3, <2>1 DEF rooms
<1> QED BY <1>5, <1>6


(* user_mmap_find_base: the hint if it takes the request, otherwise the      *)
(* lowest place, and 0 only when there is none.                              *)
LEMMA FindBaseIs ==
  ASSUME AreaInv, NEW hint \in Hints, NEW length \in Nat, length + PageSize <= Word, 0 < length
  PROVE  LET rooms == {a \in MmapBase .. SigBase : Fits(a, length)}
             base == FindBase(hint, AlignUp(length))
         IN  /\ base = IF hint # 0 /\ Fits(hint, length) THEN hint
                       ELSE IF rooms = {} THEN 0 ELSE Min(rooms)
             /\ base # 0 => base \in Nat /\ base % PageSize = 0 /\ Room(base, AlignUp(length))
<1> DEFINE size == AlignUp(length)
           rooms == {a \in MmapBase .. SigBase : Fits(a, length)}
<1>1. size \in Nat /\ 0 < size /\ size < Word
  BY SizeOf
<1>2. hint \in Nat /\ hint < Word
  BY MmapAreaAssumption, AreaFacts DEF Address
<1>3. Available(hint, size) <=> Room(hint, size)
  BY <1>1, <1>2, RoomAt DEF Available
<1>4. hint % PageSize = 0 /\ Available(hint, size) <=> Fits(hint, length)
  <2>1. Fits(hint, length) => hint % PageSize = 0
    BY DEF Fits
  <2> QED BY <1>2, <1>3, <2>1, RoomIsFit
<1>5. /\ Search(size) = IF rooms = {} THEN 0 ELSE Min(rooms)
      /\ rooms # {} => Search(size) \in Nat /\ Search(size) % PageSize = 0 /\ Room(Search(size), size)
  BY SearchIsLowest
<1> HIDE DEF rooms, size
<1>6. CASE hint # 0 /\ Fits(hint, length)
  <2>1. FindBase(hint, size) = hint
    BY <1>4, <1>6 DEF FindBase
  <2> QED BY <1>2, <1>3, <1>4, <1>6, <2>1 DEF rooms, size
<1>7. CASE ~(hint # 0 /\ Fits(hint, length))
  <2>1. FindBase(hint, size) = Search(size)
    BY <1>4, <1>7 DEF FindBase
  <2> QED BY <1>5, <1>7, <2>1 DEF rooms, size
<1> QED BY <1>6, <1>7

(* The whole request: nothing is granted to one that asks for nothing or     *)
(* whose length cannot be rounded up, and the latter fits nowhere.           *)
LEMMA RequestIs ==
  ASSUME AreaInv, NEW hint \in Hints, NEW length \in Lengths
  PROVE  LET rooms == {a \in MmapBase .. SigBase : Fits(a, length)}
             size == Length(length)
             base == IF size = 0 THEN 0 ELSE FindBase(hint, size)
         IN  /\ length # 0 => base = IF hint # 0 /\ Fits(hint, length) THEN hint
                                     ELSE IF rooms = {} THEN 0 ELSE Min(rooms)
             /\ base # 0 => /\ base \in Nat /\ base % PageSize = 0 /\ Room(base, size)
                            /\ size \in Nat /\ size % PageSize = 0 /\ 0 < size
<1>1. length \in Nat /\ hint \in Nat
  BY RequestFacts
<1>2. CASE length = 0
  <2>1. 0 + PageSize <= Word /\ 0 % PageSize = 0 /\ Word \in Nat /\ PageSize \in Nat
    BY SpaceBelow, AreaFacts
  <2>2. AlignUp(0) = 0
    BY <2>1, RoundUp
  <2>3. Length(length) = 0
    BY <1>2, <2>2 DEF Length
  <2> QED BY <1>2, <2>3
<1>3. CASE length > Word - PageSize
  <2>1. Length(length) = 0
    BY <1>3 DEF Length
  <2>2. \A a \in Nat : ~Fits(a, length)
    <3>1. \A a \in Nat : ~(a + length <= SigBase)
      BY <1>1, <1>3, SpaceBelow, AreaFacts
    <3> QED BY <3>1 DEF Fits
  <2>3. {a \in MmapBase .. SigBase : Fits(a, length)} = {} /\ ~Fits(hint, length)
    BY <1>1, <2>2, AreaFacts
  <2> QED BY <2>1, <2>3
<1>4. CASE length # 0 /\ ~(length > Word - PageSize)
  <2>1. 0 < length /\ length + PageSize <= Word
    BY <1>1, <1>4, AreaFacts
  <2>2. Length(length) = AlignUp(length)
    BY <1>4 DEF Length
  <2>3. AlignUp(length) \in Nat /\ AlignUp(length) % PageSize = 0 /\ 0 < AlignUp(length)
    BY <1>1, <2>1, SizeOf
  <2>4. AlignUp(length) # 0
    BY <2>3
  <2> QED BY <1>1, <2>1, <2>2, <2>3, <2>4, FindBaseIs
<1> QED BY <1>2, <1>3, <1>4

-----------------------------------------------------------------------------
LEMMA AreaStart ==
  ASSUME AreaInit
  PROVE  AreaInv
BY DEF AreaInit, AreaInv

(* A region put where there is room for it is apart from the others.         *)
LEMMA MmapKeeps ==
  ASSUME AreaInv, NEW hint \in Hints, NEW length \in Lengths, MmapAnonymous(hint, length)
  PROVE  AreaInv'
<1> DEFINE size == Length(length)
           base == IF size = 0 THEN 0 ELSE FindBase(hint, size)
           new == Area(base, base + size)
<1>1. image' = image /\ regions' = IF base = 0 THEN regions ELSE regions \cup {new}
  BY DEF MmapAnonymous
<1>2. CASE base = 0
  BY <1>1, <1>2 DEF AreaInv, Placed
<1>3. CASE base # 0
  <2>1. /\ base \in Nat /\ base % PageSize = 0 /\ Room(base, size)
        /\ size \in Nat /\ size % PageSize = 0 /\ 0 < size
    BY <1>3, RequestIs
  <2>2. new.start = base /\ new.end = base + size
    BY DEF Area
  <2> HIDE DEF size, base, new
  <2>3. (base + size) % PageSize = 0 /\ base + size \in Nat
    BY <2>1, SumAligned
  <2>4. image \in Nat
    BY ImageFacts DEF AreaInv
  <2>5. base + size <= SigBase /\ (image <= base \/ base + size <= 0)
    BY <2>1, ImageIs DEF Room
  <2>6. image <= base
    BY <2>1, <2>4, <2>5
  <2>7. Placed(new)
    BY <2>1, <2>2, <2>3, <2>5, <2>6 DEF Placed
  <2>8. \A r \in regions : r.end <= base \/ base + size <= r.start
    BY <2>1 DEF Room
  <2>9. \A r \in regions : ~Overlap(r, new) /\ ~Overlap(new, r)
    <3>1. \A r \in regions : r.start \in Nat /\ r.end \in Nat
      BY DEF AreaInv, Placed
    <3> QED BY <2>1, <2>2, <2>3, <2>8, <3>1 DEF Overlap
  <2>10. \A r \in regions' : Placed(r)
    BY <1>1, <1>3, <2>7 DEF AreaInv
  <2>11. \A r, s \in regions' : r # s => ~Overlap(r, s)
    BY <1>1, <1>3, <2>9 DEF AreaInv
  <2> QED BY <1>1, <2>10, <2>11 DEF AreaInv, Placed, Overlap
<1> QED BY <1>2, <1>3

LEMMA AreaStep ==
  ASSUME AreaInv, [AreaNext]_areaVars
  PROVE  AreaInv'
<1>1. CASE \E hint \in Hints, length \in Lengths : MmapAnonymous(hint, length)
  BY <1>1, MmapKeeps
<1>2. CASE Handle
  BY <1>2 DEF Handle, AreaInv, Placed
<1>3. CASE \E size \in ImageEnds : ReplaceImage(size)
  BY <1>3 DEF ReplaceImage, AreaInv
<1>4. CASE UNCHANGED areaVars
  BY <1>4 DEF areaVars, AreaInv, Placed
<1> QED BY <1>1, <1>2, <1>3, <1>4 DEF AreaNext

(* Regions of user_mmap_regions stay apart from each other, from the image   *)
(* and from both stacks, and are whole pages.                                *)
THEOREM RegionsStayApart == AreaSpec => []RegionsApart
<1>1. AreaInit => AreaInv
  BY AreaStart
<1>2. AreaInv /\ [AreaNext]_areaVars => AreaInv'
  BY AreaStep
<1>3. AreaInv => RegionsApart
  BY DEF AreaInv, Placed, RegionsApart
<1> QED BY <1>1, <1>2, <1>3, PTL DEF AreaSpec

(* mmap takes the hint where the request fits there, otherwise the lowest    *)
(* place above USER_MMAP_BASE, and fails only when there is none: whatever   *)
(* the layout, the sizes of the images, the regions and the request.         *)
THEOREM PlacesBest == AreaSpec => PlacedWell
<1>1. AreaInit => AreaInv
  BY AreaStart
<1>2. AreaInv /\ [AreaNext]_areaVars => AreaInv'
  BY AreaStep
<1> DEFINE rooms == {a \in MmapBase .. SigBase : Fits(a, last'.length)}
           Best == last'.length # 0 =>
                     last'.base = IF last'.hint # 0 /\ Fits(last'.hint, last'.length)
                                  THEN last'.hint
                                  ELSE IF rooms = {} THEN 0 ELSE Min(rooms)
<1>3. AreaInv /\ [AreaNext]_areaVars => [Best]_areaVars
  <2> SUFFICES ASSUME AreaInv, AreaNext PROVE Best
    OBVIOUS
  <2>1. CASE \E hint \in Hints, length \in Lengths : MmapAnonymous(hint, length)
    <3>1. PICK hint \in Hints, length \in Lengths : MmapAnonymous(hint, length)
      BY <2>1
    <3>2. /\ last'.hint = hint /\ last'.length = length
          /\ last'.base = IF Length(length) = 0 THEN 0 ELSE FindBase(hint, Length(length))
      BY <3>1 DEF MmapAnonymous
    <3> QED BY <3>2, RequestIs
  <2>2. CASE Handle
    BY <2>2 DEF Handle, NoRequest
  <2>3. CASE \E size \in ImageEnds : ReplaceImage(size)
    BY <2>3 DEF ReplaceImage, NoRequest
  <2> QED BY <2>1, <2>2, <2>3 DEF AreaNext
<1> QED BY <1>1, <1>2, <1>3, PTL DEF AreaSpec, PlacedWell
=============================================================================
