---------------------------- MODULE DeferredProofs ----------------------------
(***************************************************************************)
(* The deferred work, for any number of tasks, priorities and threads: the *)
(* best task is started first, a slot is in use exactly while its task     *)
(* waits or runs, and the levels rise, so that the stack of levels is high *)
(* enough whenever it has a place for every priority.                      *)
(*                                                                         *)
(* The argument: each waiting task outranks those behind it (Sorted), and  *)
(* a new task has a number that none in use has (Numbered), so that one    *)
(* place in the list is right for it (PlaceIn).                            *)
(*                                                                         *)
(* The timers, for any number of them, any delays and any schedule of the  *)
(* interrupts: as long as none is added while an expired one gives up its  *)
(* slot, the messages come in the order in which they are due.             *)
(*                                                                         *)
(* The argument: the taken timeout, the tasks and the list, in that order, *)
(* are sorted (InTurn, TakenFirst), and between them and what was printed  *)
(* no timeout is missing (Accounted).                                      *)
(***************************************************************************)
EXTENDS TaskQueue, Timers, FiniteSetTheorems, SequenceTheorems, WellFoundedInduction, TLAPS

(* outranks(), on tasks.                                                     *)
Outranks(a, b) == a.prio > b.prio \/ (a.prio = b.prio /\ a.seq < b.seq)

Sorted == \A i, j \in 1..Len(ready) : i < j => Outranks(ready[i], ready[j])
Numbered == \A item \in used : item.seq < seq
Rising == \A i, j \in 1..Len(levels) : i < j => levels[i] < levels[j]
IInv == TypeOK /\ Sorted /\ Numbered /\ Rising /\ SlotsExact

-----------------------------------------------------------------------------
(* Sequences.                                                                *)

LEMMA Shape ==
  ASSUME NEW S, NEW q \in Seq(S)
  PROVE  /\ Len(q) \in Nat /\ DOMAIN q = 1..Len(q)
         /\ \A i \in 1..Len(q) : q[i] \in S
         /\ q # <<>> => Len(q) > 0
         /\ ToSet(q) = {q[i] : i \in 1..Len(q)}
<1>1. Len(q) \in Nat /\ DOMAIN q = 1..Len(q)
  BY LenProperties
<1>2. q # <<>> => Len(q) > 0
  BY <1>1, EmptySeq
<1> QED BY <1>1, <1>2, ElementOfSeq DEF ToSet

LEMMA WithoutLast ==
  ASSUME NEW S, NEW q \in Seq(S), q # <<>>
  PROVE  /\ Front(q) \in Seq(S) /\ Len(Front(q)) = Len(q) - 1
         /\ \A i \in 1..(Len(q) - 1) : Front(q)[i] = q[i]
         /\ Last(q) = q[Len(q)] /\ Last(q) \in S
<1>1. Len(q) \in Nat /\ Len(q) > 0 /\ \A i \in 1..Len(q) : q[i] \in S
  BY Shape
<1>2. 1 \in Int /\ Len(q) - 1 \in Int /\ \A i \in 1..(Len(q) - 1) : q[i] \in S
  BY <1>1
<1> DEFINE n == Len(q) - 1
<1> HIDE DEF n
<1>3. /\ SubSeq(q, 1, n) \in Seq(S)
      /\ Len(SubSeq(q, 1, n)) = IF 1 <= n THEN n - 1 + 1 ELSE 0
      /\ \A i \in 1..(n - 1 + 1) : SubSeq(q, 1, n)[i] = q[1 + i - 1]
  BY <1>2, SubSeqProperties DEF n
<1>4. n \in Nat /\ n = Len(q) - 1
  BY <1>1 DEF n
<1>5. Front(q) = SubSeq(q, 1, n)
  BY DEF Front, n
<1>6. Front(q) \in Seq(S) /\ Len(Front(q)) = n /\ \A i \in 1..n : Front(q)[i] = q[i]
  BY <1>3, <1>4, <1>5
<1> QED BY <1>1, <1>4, <1>6 DEF Last

(* What InsertAt builds: q with e at place n.                                *)
Insertion(S, r, q, n, e) ==
  /\ r \in Seq(S) /\ Len(r) = Len(q) + 1
  /\ \A i \in 1..(n - 1) : r[i] = q[i]
  /\ r[n] = e
  /\ \A i \in (n + 1)..(Len(q) + 1) : r[i] = q[i - 1]

LEMMA Inserted ==
  ASSUME NEW S, NEW q \in Seq(S), NEW n \in 1..(Len(q) + 1), NEW e \in S,
         NEW r, r = InsertAt(q, n, e)
  PROVE  Insertion(S, r, q, n, e)
<1> DEFINE a == SubSeq(q, 1, n - 1)
           b == SubSeq(q, n, Len(q))
           ae == a \o <<e>>
           all == ae \o b
<1>1. /\ Len(q) \in Nat /\ n \in Int /\ 1 <= n /\ n <= Len(q) + 1
      /\ \A i \in 1..Len(q) : q[i] \in S
  BY Shape
<1>2. a \in Seq(S) /\ Len(a) = n - 1 /\ \A i \in 1..(n - 1) : a[i] = q[i]
  <2> DEFINE m == n - 1
  <2>1. m \in Int /\ \A i \in 1..m : q[i] \in S
    BY <1>1
  <2> HIDE DEF m
  <2>2. /\ SubSeq(q, 1, m) \in Seq(S)
        /\ Len(SubSeq(q, 1, m)) = IF 1 <= m THEN m - 1 + 1 ELSE 0
        /\ \A i \in 1..(m - 1 + 1) : SubSeq(q, 1, m)[i] = q[1 + i - 1]
    BY <2>1, SubSeqProperties
  <2>3. m \in Nat
    BY <1>1 DEF m
  <2>4. /\ SubSeq(q, 1, m) \in Seq(S) /\ Len(SubSeq(q, 1, m)) = m
        /\ \A i \in 1..m : SubSeq(q, 1, m)[i] = q[i]
    BY <2>2, <2>3
  <2> QED BY <2>4 DEF m
<1>3. /\ b \in Seq(S) /\ Len(b) = Len(q) + 1 - n
      /\ \A i \in 1..(Len(q) + 1 - n) : b[i] = q[n + i - 1]
  <2>1. \A i \in n..Len(q) : q[i] \in S
    BY <1>1
  <2>2. /\ b \in Seq(S) /\ Len(b) = IF n <= Len(q) THEN Len(q) - n + 1 ELSE 0
        /\ \A i \in 1..(Len(q) - n + 1) : b[i] = q[n + i - 1]
    BY <1>1, <2>1, SubSeqProperties
  <2> HIDE DEF b
  <2> QED BY <1>1, <2>2
<1> HIDE DEF a, b
<1>4. <<e>> \in Seq(S) /\ Len(<<e>>) = 1 /\ <<e>>[1] = e
  OBVIOUS
<1>5. /\ ae \in Seq(S) /\ Len(ae) = n
      /\ \A i \in 1..n : ae[i] = IF i < n THEN q[i] ELSE e
  <2>1. /\ ae \in Seq(S) /\ Len(ae) = Len(a) + Len(<<e>>)
        /\ \A i \in 1..(Len(a) + Len(<<e>>)) :
             ae[i] = IF i <= Len(a) THEN a[i] ELSE <<e>>[i - Len(a)]
    BY <1>2, <1>4, ConcatProperties
  <2> HIDE DEF ae
  <2>2. ASSUME NEW i \in 1..n
        PROVE  ae[i] = IF i < n THEN q[i] ELSE e
    <3>1. CASE i < n
      BY <1>1, <1>2, <1>4, <2>1, <3>1
    <3>2. CASE ~(i < n)
      <4>1. i = n /\ i - Len(a) = 1 /\ ~(i <= Len(a)) /\ i \in 1..(Len(a) + Len(<<e>>))
        BY <1>1, <1>2, <1>4, <3>2
      <4> QED BY <1>4, <2>1, <3>2, <4>1
    <3> QED BY <3>1, <3>2
  <2> QED BY <1>1, <1>2, <1>4, <2>1, <2>2
<1> HIDE DEF ae
<1>6. /\ all \in Seq(S) /\ Len(all) = Len(ae) + Len(b)
      /\ \A i \in 1..(Len(ae) + Len(b)) : all[i] = IF i <= Len(ae) THEN ae[i] ELSE b[i - Len(ae)]
  BY <1>3, <1>5, ConcatProperties
<1>7. r = all
  BY DEF InsertAt, all, ae, a, b
<1> HIDE DEF all
<1>8. ASSUME NEW i \in 1..n
      PROVE  all[i] = ae[i]
  <2>1. i \in 1..(Len(ae) + Len(b)) /\ i <= Len(ae)
    BY <1>1, <1>3, <1>5
  <2> QED BY <1>6, <2>1
<1>9. ASSUME NEW i \in 1..(n - 1)
      PROVE  all[i] = q[i]
  <2>1. i \in 1..n /\ i < n
    BY <1>1
  <2> QED BY <1>5, <1>8, <2>1
<1>10. all[n] = e
  <2>1. n \in 1..n /\ ~(n < n)
    BY <1>1
  <2> QED BY <1>5, <1>8, <2>1
<1>11. ASSUME NEW i \in (n + 1)..(Len(q) + 1)
       PROVE  all[i] = q[i - 1]
  <2>1. /\ i - n \in 1..(Len(q) + 1 - n) /\ n + (i - n) - 1 = i - 1
        /\ i \in 1..(Len(ae) + Len(b)) /\ ~(i <= Len(ae)) /\ i - Len(ae) = i - n
    BY <1>1, <1>3, <1>5
  <2>2. all[i] = b[i - n] /\ b[i - n] = q[n + (i - n) - 1]
    BY <1>3, <1>6, <2>1
  <2>3. q[n + (i - n) - 1] = q[i - 1]
    BY <2>1
  <2> QED BY <2>2, <2>3
<1>12. Len(all) = Len(q) + 1
  BY <1>1, <1>3, <1>5, <1>6
<1> QED BY <1>6, <1>7, <1>9, <1>10, <1>11, <1>12 DEF Insertion

LEMMA InsertedSet ==
  ASSUME NEW S, NEW q \in Seq(S), NEW n \in 1..(Len(q) + 1), NEW e \in S
  PROVE  ToSet(InsertAt(q, n, e)) = ToSet(q) \cup {e}
<1> DEFINE new == InsertAt(q, n, e)
<1>1. /\ Len(q) \in Nat /\ n \in Int /\ 1 <= n /\ n <= Len(q) + 1
      /\ ToSet(q) = {q[i] : i \in 1..Len(q)}
  BY Shape
<1>2. /\ new \in Seq(S) /\ Len(new) = Len(q) + 1
      /\ \A i \in 1..(n - 1) : new[i] = q[i]
      /\ new[n] = e
      /\ \A i \in (n + 1)..(Len(q) + 1) : new[i] = q[i - 1]
  <2>1. Insertion(S, new, q, n, e)
    BY Inserted
  <2> QED BY <2>1 DEF Insertion
<1> HIDE DEF new
<1>3. ToSet(new) = {new[i] : i \in 1..(Len(q) + 1)}
  BY <1>2, Shape
<1>4. ASSUME NEW i \in 1..(Len(q) + 1)
      PROVE  new[i] \in ToSet(q) \cup {e}
  <2>1. CASE i < n
    <3>1. i \in 1..(n - 1) /\ i \in 1..Len(q)
      BY <1>1, <2>1
    <3> QED BY <1>1, <1>2, <3>1
  <2>2. CASE i = n
    BY <1>2, <2>2
  <2>3. CASE i > n
    <3>1. i - 1 \in 1..Len(q) /\ i \in (n + 1)..(Len(q) + 1)
      BY <1>1, <2>3
    <3> QED BY <1>1, <1>2, <3>1
  <2> QED BY <1>1, <2>1, <2>2, <2>3
<1>5. ASSUME NEW i \in 1..Len(q)
      PROVE  q[i] \in ToSet(new)
  <2>1. CASE i < n
    <3>1. i \in 1..(n - 1) /\ i \in 1..(Len(q) + 1)
      BY <1>1, <2>1
    <3> QED BY <1>2, <1>3, <3>1
  <2>2. CASE ~(i < n)
    <3>1. /\ i + 1 \in 1..(Len(q) + 1) /\ i + 1 \in (n + 1)..(Len(q) + 1)
          /\ (i + 1) - 1 = i
      BY <1>1, <2>2
    <3>2. new[i + 1] = q[i]
      BY <1>2, <3>1
    <3> QED BY <1>3, <3>1, <3>2
  <2> QED BY <2>1, <2>2
<1>6. e \in ToSet(new)
  BY <1>2, <1>3
<1>7. ToSet(new) \subseteq ToSet(q) \cup {e}
  BY <1>3, <1>4
<1>8. ToSet(q) \subseteq ToSet(new)
  BY <1>1, <1>5
<1> QED BY <1>6, <1>7, <1>8 DEF new

LEMMA HeadAndTail ==
  ASSUME NEW S, NEW q \in Seq(S), q # <<>>
  PROVE  /\ Head(q) = q[1] /\ Head(q) \in S
         /\ Tail(q) \in Seq(S) /\ Len(Tail(q)) = Len(q) - 1 /\ Len(q) > 0
         /\ \A i \in 1..(Len(q) - 1) : Tail(q)[i] = q[i + 1]
         /\ ToSet(q) = ToSet(Tail(q)) \cup {Head(q)}
<1> DEFINE rest == Tail(q)
<1>1. /\ Len(q) \in Nat /\ Len(q) > 0
      /\ ToSet(q) = {q[i] : i \in 1..Len(q)}
  BY Shape
<1>2. /\ Head(q) \in S /\ rest \in Seq(S) /\ Len(rest) = Len(q) - 1
      /\ \A i \in 1..Len(rest) : rest[i] = q[i + 1]
  BY HeadTailProperties
<1>3. Head(q) = q[1]
  OBVIOUS
<1> HIDE DEF rest
<1>4. ToSet(rest) = {rest[i] : i \in 1..(Len(q) - 1)}
  BY <1>2, Shape
<1>5. ASSUME NEW i \in 1..Len(q), i # 1
      PROVE  q[i] \in ToSet(rest)
  <2>1. i - 1 \in 1..(Len(q) - 1) /\ (i - 1) + 1 = i
    BY <1>1, <1>5
  <2>2. rest[i - 1] = q[i]
    BY <1>2, <2>1
  <2> QED BY <1>4, <2>1, <2>2
<1>6. ASSUME NEW i \in 1..(Len(q) - 1)
      PROVE  rest[i] \in ToSet(q)
  <2>1. i + 1 \in 1..Len(q)
    BY <1>1
  <2> QED BY <1>1, <1>2, <2>1
<1>7. Head(q) \in ToSet(q)
  <2>1. 1 \in 1..Len(q)
    BY <1>1
  <2> QED BY <1>1, <1>3, <2>1
<1>8. ToSet(q) = ToSet(rest) \cup {Head(q)}
  BY <1>1, <1>3, <1>4, <1>5, <1>6, <1>7
<1> QED BY <1>1, <1>2, <1>3, <1>8 DEF rest

-----------------------------------------------------------------------------
(* Tasks and the callbacks in progress.                                      *)

LEMMA TaskFields ==
  ASSUME NEW item \in Tasks
  PROVE  /\ item.prio \in Priorities /\ item.prio \in Int /\ item.seq \in Int
         /\ item.seq \in 0..(Arrivals - 1)
<1>1. item.prio \in Priorities /\ item.seq \in 0..(Arrivals - 1)
  BY DEF Tasks
<1>2. item.prio \in Int
  BY <1>1, TaskQueueAssumption
<1>3. ASSUME NEW n \in 0..(Arrivals - 1)
      PROVE  n \in Int
  BY TaskQueueAssumption
<1>4. item.seq \in Int
  BY <1>1, <1>3
<1> QED BY <1>1, <1>2, <1>4

LEMMA InProgress ==
  ASSUME NEW stacks \in [Threads -> Seq(Tasks)]
  PROVE  \A item : item \in UNION {ToSet(stacks[t]) : t \in Threads} <=>
                    \E t \in Threads : \E i \in 1..Len(stacks[t]) : stacks[t][i] = item
<1>1. ASSUME NEW t \in Threads, NEW item
      PROVE  item \in ToSet(stacks[t]) <=> \E i \in 1..Len(stacks[t]) : stacks[t][i] = item
  <2>1. stacks[t] \in Seq(Tasks)
    OBVIOUS
  <2>2. ToSet(stacks[t]) = {stacks[t][i] : i \in 1..Len(stacks[t])}
    BY <2>1, Shape
  <2> QED BY <2>2
<1>2. \A item : item \in UNION {ToSet(stacks[t]) : t \in Threads} <=>
                   \E t \in Threads : item \in ToSet(stacks[t])
  OBVIOUS
<1> QED BY <1>1, <1>2

-----------------------------------------------------------------------------
(* The place of a new task: behind all it does not outrank.                  *)
LEMMA PlaceIn ==
  ASSUME IInv, NEW p \in Priorities
  PROVE  /\ Place(p) \in 1..(Len(ready) + 1)
         /\ \A i \in 1..(Place(p) - 1) : ready[i].prio >= p
         /\ \A i \in Place(p)..Len(ready) : ready[i].prio < p
<1> DEFINE Stops == {i \in 1..(Len(ready) + 1) : i <= Len(ready) => ready[i].prio < p}
           Right(i) == /\ \A j \in 1 .. i - 1 : ready[j].prio >= p
                       /\ i <= Len(ready) => ready[i].prio < p
<1>1. /\ Len(ready) \in Nat /\ \A i \in 1..Len(ready) : ready[i] \in Tasks
      /\ Priorities \subseteq Int
  BY Shape, TaskQueueAssumption DEF IInv, TypeOK
<1>2. \A i \in 1..Len(ready) : ready[i].prio \in Int /\ ready[i].seq \in Int
  BY <1>1, TaskFields
<1>3. \E n \in 1..(Len(ready) + 1) : Right(n)
  <2>1. Stops \subseteq Nat /\ Stops # {}
    <3>1. Len(ready) + 1 \in Stops
      BY <1>1
    <3> QED BY <3>1, <1>1
  <2>2. PICK n \in Stops : \A other \in Stops : <<other, n>> \notin OpToRel(<, Nat)
    <3> HIDE DEF Stops
    <3> QED BY <2>1, WFMin, NatLessThanWellFounded
  <2>3. OpToRel(<, Nat) = {pair \in Nat \X Nat : pair[1] < pair[2]}
    BY Zenon DEF OpToRel
  <2>4. \A other \in Stops : ~(other < n)
    <3> HIDE DEF Stops
    <3> QED BY <2>1, <2>2, <2>3
  <2>5. ASSUME NEW j \in 1..(n - 1)
        PROVE  ready[j].prio >= p
    <3>1. j \notin Stops /\ j \in 1..Len(ready)
      BY <1>1, <2>4
    <3> QED BY <1>1, <1>2, <3>1
  <2> QED BY <2>2, <2>5
<1>4. Place(p) \in 1..(Len(ready) + 1) /\ Right(Place(p))
  BY <1>3 DEF Place
<1>5. ASSUME NEW i \in Place(p)..Len(ready)
      PROVE  ready[i].prio < p
  <2>1. /\ Place(p) \in 1..Len(ready) /\ i \in 1..Len(ready)
        /\ ready[Place(p)].prio < p /\ (i = Place(p) \/ Place(p) < i)
    BY <1>1, <1>4
  <2>2. Place(p) < i => ready[i].prio <= ready[Place(p)].prio
    BY <1>2, <2>1 DEF IInv, Sorted, Outranks
  <2> QED BY <1>1, <1>2, <2>1, <2>2
<1> QED BY <1>4, <1>5

-----------------------------------------------------------------------------
(* The actions.                                                              *)

LEMMA InitIInv == Init => IInv
<1> SUFFICES ASSUME Init PROVE IInv
  OBVIOUS
<1>1. /\ ready = <<>> /\ used = {} /\ levels = <<>> /\ seq = 0
      /\ running = [t \in Threads |-> <<>>]
      /\ cur = First /\ irqs = TRUE /\ alive = Threads
  BY DEF Init
<1>2. <<>> \in Seq(Tasks) /\ <<>> \in Seq(Priorities) /\ Len(<<>>) = 0
  OBVIOUS
<1>3. TypeOK
  BY <1>1, <1>2, TaskQueueAssumption DEF TypeOK
<1>4. Sorted /\ Numbered /\ Rising
  BY <1>1, <1>2 DEF Sorted, Numbered, Rising
<1>5. ToSet(ready) = {}
  BY <1>1 DEF ToSet
<1>6. \A t \in Threads : Len(running[t]) = 0
  BY <1>1, <1>2
<1>7. Unfinished = {}
  <2>1. \A t \in Threads : ToSet(running[t]) = {}
    BY <1>1 DEF ToSet
  <2> QED BY <2>1 DEF Unfinished
<1>8. SlotsExact
  BY <1>1, <1>2, <1>5, <1>6, <1>7 DEF SlotsExact
<1> QED BY <1>3, <1>4, <1>8 DEF IInv

(* add_task.                                                                 *)
LEMMA AddTaskIInv ==
  ASSUME IInv, NEW p \in Priorities, AddTask(p)
  PROVE  IInv'
<1> DEFINE item == [prio |-> p, seq |-> seq]
           n == Place(p)
<1>1. /\ seq < Arrivals /\ ready' = InsertAt(ready, n, item)
      /\ used' = used \cup {item} /\ seq' = seq + 1
      /\ UNCHANGED <<levels, running, cur, irqs, alive>>
  BY DEF AddTask
<1>2. /\ ready \in Seq(Tasks) /\ used \subseteq Tasks /\ seq \in 0..Arrivals
      /\ Len(ready) \in Nat /\ \A i \in 1..Len(ready) : ready[i] \in used
  <2>1. ToSet(ready) = {ready[i] : i \in 1..Len(ready)} /\ ToSet(ready) \subseteq used
    BY Shape DEF IInv, TypeOK, SlotsExact
  <2> QED BY <2>1, Shape DEF IInv, TypeOK
<1>3. item \in Tasks /\ item.prio = p /\ item.seq = seq
  BY <1>1, <1>2, TaskQueueAssumption DEF Tasks
<1>4. /\ n \in 1..(Len(ready) + 1)
      /\ \A i \in 1..(n - 1) : ready[i].prio >= p
      /\ \A i \in n..Len(ready) : ready[i].prio < p
  BY PlaceIn
<1> HIDE DEF n, item
<1>5. /\ ready' \in Seq(Tasks) /\ Len(ready') = Len(ready) + 1
      /\ ToSet(ready') = ToSet(ready) \cup {item}
      /\ \A i \in 1..(n - 1) : ready'[i] = ready[i]
      /\ ready'[n] = item
      /\ \A i \in (n + 1)..(Len(ready) + 1) : ready'[i] = ready[i - 1]
  <2>1. /\ ready \in Seq(Tasks) /\ n \in 1..(Len(ready) + 1) /\ item \in Tasks
        /\ ready' = InsertAt(ready, n, item)
    BY <1>1, <1>2, <1>3, <1>4
  <2>2. /\ ready' \in Seq(Tasks) /\ Len(ready') = Len(ready) + 1
        /\ \A i \in 1..(n - 1) : ready'[i] = ready[i]
        /\ ready'[n] = item
        /\ \A i \in (n + 1)..(Len(ready) + 1) : ready'[i] = ready[i - 1]
    <3>1. Insertion(Tasks, ready', ready, n, item)
      BY <2>1, Inserted
    <3> QED BY <3>1 DEF Insertion
  <2>3. ToSet(InsertAt(ready, n, item)) = ToSet(ready) \cup {item}
    BY <2>1, InsertedSet
  <2> QED BY <1>1, <2>2, <2>3
<1>6. item \notin used /\ \A other \in used : other.seq < item.seq /\ other # item
  <2>1. \A other \in used : other.seq \in Int /\ other.seq < item.seq
    BY <1>2, <1>3, TaskFields DEF IInv, Numbered
  <2> QED BY <1>2, <1>3, <2>1
<1>7. TypeOK'
  BY <1>1, <1>2, <1>3, <1>5, TaskQueueAssumption DEF IInv, TypeOK
<1>8. Numbered'
  <2>1. \A other \in used : other.seq \in Int /\ other.seq < seq
    BY <1>2, TaskFields DEF IInv, Numbered
  <2> QED BY <1>1, <1>2, <1>3, <2>1 DEF Numbered
<1>9. Sorted'
  <2> SUFFICES ASSUME NEW i \in 1..(Len(ready) + 1), NEW j \in 1..(Len(ready) + 1), i < j
               PROVE  Outranks(ready'[i], ready'[j])
    BY <1>5 DEF Sorted
  <2>1. /\ n \in Int /\ i \in Int /\ j \in Int /\ p \in Int
        /\ \A k \in 1..Len(ready) : ready[k].prio \in Int /\ ready[k].seq \in Int
    BY <1>2, <1>4, TaskFields, TaskQueueAssumption
  <2>2. CASE j < n
    <3>1. ready'[i] = ready[i] /\ ready'[j] = ready[j] /\ i \in 1..Len(ready) /\ j \in 1..Len(ready)
      BY <1>2, <1>4, <1>5, <2>1, <2>2
    <3> QED BY <3>1 DEF IInv, Sorted
  <2>3. CASE j = n
    <3>1. ready'[i] = ready[i] /\ ready'[j] = item /\ i \in 1..Len(ready) /\ i \in 1..(n - 1)
      BY <1>2, <1>4, <1>5, <2>1, <2>3
    <3>2. ready[i].prio >= p /\ ready[i].seq < item.seq
      BY <1>2, <1>4, <1>6, <3>1
    <3> QED BY <1>3, <2>1, <3>1, <3>2 DEF Outranks
  <2>4. CASE i = n
    <3>1. ready'[i] = item /\ ready'[j] = ready[j - 1] /\ j - 1 \in 1..Len(ready) /\ j - 1 \in n..Len(ready)
      BY <1>2, <1>4, <1>5, <2>1, <2>4
    <3>2. ready[j - 1].prio < p
      BY <1>4, <3>1
    <3> QED BY <1>3, <2>1, <3>1, <3>2 DEF Outranks
  <2>5. CASE i < n /\ n < j
    <3>1. /\ ready'[i] = ready[i] /\ ready'[j] = ready[j - 1] /\ i \in 1..Len(ready)
          /\ j - 1 \in 1..Len(ready) /\ i < j - 1
      BY <1>2, <1>4, <1>5, <2>1, <2>5
    <3> QED BY <3>1 DEF IInv, Sorted
  <2>6. CASE n < i
    <3>1. /\ ready'[i] = ready[i - 1] /\ ready'[j] = ready[j - 1] /\ i - 1 \in 1..Len(ready)
          /\ j - 1 \in 1..Len(ready) /\ i - 1 < j - 1
      BY <1>2, <1>4, <1>5, <2>1, <2>6
    <3> QED BY <3>1 DEF IInv, Sorted
  <2> QED BY <2>1, <2>2, <2>3, <2>4, <2>5, <2>6
<1>10. SlotsExact'
  <2>1. Unfinished' = Unfinished
    BY <1>1 DEF Unfinished
  <2>2. used' = ToSet(ready') \cup Unfinished' /\ ToSet(ready') \cap Unfinished' = {}
    BY <1>1, <1>5, <1>6, <2>1 DEF IInv, SlotsExact
  <2>3. ASSUME NEW i \in 1..Len(ready'), NEW j \in 1..Len(ready'), ready'[i] = ready'[j], i < j
        PROVE  FALSE
    <3>1. Outranks(ready'[i], ready'[j]) /\ ready'[i] \in Tasks
      BY <1>5, <1>9, <2>3 DEF Sorted
    <3> QED BY <2>3, <3>1, TaskFields DEF Outranks
  <2>4. \A i, j \in 1..Len(ready') : ready'[i] = ready'[j] => i = j
    BY <1>2, <1>5, <2>3
  <2> QED BY <1>1, <2>2, <2>4 DEF IInv, SlotsExact
<1>11. Rising'
  BY <1>1 DEF IInv, Rising
<1> QED BY <1>7, <1>8, <1>9, <1>10, <1>11 DEF IInv

(* The first task is started.                                                *)
LEMMA StartIInv ==
  ASSUME IInv, Start
  PROVE  IInv'
<1> DEFINE h == Head(ready)
<1>1. /\ ready # <<>> /\ ready' = Tail(ready)
      /\ levels # <<>> => ~(h.prio <= Last(levels))
      /\ running' = [running EXCEPT ![cur] = Append(@, h)]
      /\ levels' = IF Len(levels) < MaxNested THEN Append(levels, h.prio) ELSE levels
      /\ irqs' = TRUE /\ UNCHANGED <<used, seq, cur, alive>>
  BY DEF Start, Eligible
<1>2. /\ h = ready[1] /\ h \in Tasks
      /\ ready' \in Seq(Tasks) /\ Len(ready') = Len(ready) - 1
      /\ Len(ready) \in Nat /\ Len(ready) > 0
      /\ \A i \in 1..(Len(ready) - 1) : ready'[i] = ready[i + 1]
      /\ ToSet(ready) = ToSet(ready') \cup {h}
      /\ ToSet(ready') = {ready'[i] : i \in 1..Len(ready')}
  <2>1. ready \in Seq(Tasks) /\ ready # <<>>
    BY <1>1 DEF IInv, TypeOK
  <2>2. /\ h = ready[1] /\ h \in Tasks
        /\ Tail(ready) \in Seq(Tasks) /\ Len(Tail(ready)) = Len(ready) - 1 /\ Len(ready) > 0
        /\ \A i \in 1..(Len(ready) - 1) : Tail(ready)[i] = ready[i + 1]
        /\ ToSet(ready) = ToSet(Tail(ready)) \cup {h}
    BY <2>1, HeadAndTail
  <2>3. /\ Len(ready) \in Nat
        /\ ToSet(Tail(ready)) = {Tail(ready)[i] : i \in 1..Len(Tail(ready))}
    BY <2>1, <2>2, Shape
  <2> QED BY <1>1, <2>2, <2>3
<1>3. cur \in Threads /\ running \in [Threads -> Seq(Tasks)] /\ levels \in Seq(Priorities)
  BY DEF IInv, TypeOK
<1> HIDE DEF h
<1>4. /\ running' \in [Threads -> Seq(Tasks)]
      /\ \A t \in Threads : t # cur => running'[t] = running[t]
      /\ Len(running[cur]) \in Nat /\ Len(running'[cur]) = Len(running[cur]) + 1
      /\ \A i \in 1..Len(running[cur]) : running'[cur][i] = running[cur][i]
      /\ running'[cur][Len(running[cur]) + 1] = h
  <2>1. running'[cur] = Append(running[cur], h) /\ running[cur] \in Seq(Tasks)
    BY <1>1, <1>3
  <2>2. /\ Append(running[cur], h) \in Seq(Tasks)
        /\ Len(running[cur]) \in Nat /\ Len(Append(running[cur], h)) = Len(running[cur]) + 1
        /\ \A i \in 1..Len(running[cur]) : Append(running[cur], h)[i] = running[cur][i]
        /\ Append(running[cur], h)[Len(running[cur]) + 1] = h
    BY <1>2, <2>1, AppendProperties, LenProperties
  <2> QED BY <1>1, <1>3, <2>1, <2>2
<1>5. levels' \in Seq(Priorities) /\ Rising'
  <2>1. CASE Len(levels) < MaxNested
    <3> DEFINE more == Append(levels, h.prio)
    <3>1. /\ Len(levels) \in Nat /\ \A i \in 1..Len(levels) : levels[i] \in Int
          /\ h.prio \in Priorities /\ h.prio \in Int
          /\ levels # <<>> => Len(levels) > 0
      BY <1>2, <1>3, Shape, TaskFields, TaskQueueAssumption
    <3>2. /\ more \in Seq(Priorities) /\ Len(more) = Len(levels) + 1
          /\ \A i \in 1..Len(levels) : more[i] = levels[i]
          /\ more[Len(levels) + 1] = h.prio
      BY <1>3, <3>1, AppendProperties
    <3>3. levels' = more
      BY <1>1, <2>1
    <3> HIDE DEF more
    <3>4. ASSUME NEW i \in 1..Len(levels)
          PROVE  levels[i] < h.prio
      <4>1. levels # <<>> /\ Len(levels) \in 1..Len(levels) /\ (i < Len(levels) \/ i = Len(levels))
        BY <1>3, <3>1
      <4>2. levels[Len(levels)] < h.prio
        BY <1>1, <3>1, <4>1 DEF Last
      <4>3. i < Len(levels) => levels[i] < levels[Len(levels)]
        BY <4>1 DEF IInv, Rising
      <4> QED BY <3>1, <4>1, <4>2, <4>3
    <3>5. ASSUME NEW i \in 1..Len(more), NEW j \in 1..Len(more), i < j
          PROVE  more[i] < more[j]
      <4>1. CASE j = Len(levels) + 1
        BY <3>1, <3>2, <3>4, <3>5, <4>1
      <4>2. CASE j # Len(levels) + 1
        <5>1. i \in 1..Len(levels) /\ j \in 1..Len(levels)
          BY <3>1, <3>2, <3>5, <4>2
        <5> QED BY <3>2, <3>5, <5>1 DEF IInv, Rising
      <4> QED BY <4>1, <4>2
    <3> QED BY <3>2, <3>3, <3>5 DEF Rising
  <2>2. CASE ~(Len(levels) < MaxNested)
    BY <1>1, <1>3, <2>2 DEF IInv, Rising
  <2> QED BY <2>1, <2>2
<1>6. TypeOK'
  BY <1>1, <1>2, <1>4, <1>5 DEF IInv, TypeOK
<1>7. Sorted'
  <2>1. ASSUME NEW i \in 1..Len(ready'), NEW j \in 1..Len(ready'), i < j
        PROVE  Outranks(ready'[i], ready'[j])
    <3>1. /\ i + 1 \in 1..Len(ready) /\ j + 1 \in 1..Len(ready) /\ i + 1 < j + 1
          /\ ready'[i] = ready[i + 1] /\ ready'[j] = ready[j + 1]
      BY <1>2, <2>1
    <3> QED BY <3>1 DEF IInv, Sorted
  <2> QED BY <2>1 DEF Sorted
<1>8. Numbered'
  BY <1>1 DEF IInv, Numbered
<1>9. SlotsExact'
  <2>1. \A item : item \in Unfinished <=>
          \E t \in Threads : \E i \in 1..Len(running[t]) : running[t][i] = item
    BY <1>3, InProgress DEF Unfinished
  <2>2. \A item : item \in Unfinished' <=>
          \E t \in Threads : \E i \in 1..Len(running'[t]) : running'[t][i] = item
    BY <1>4, InProgress DEF Unfinished
  <2>3. ASSUME NEW t \in Threads, NEW i \in 1..Len(running'[t])
        PROVE  \/ running'[t][i] = h /\ t = cur /\ i = Len(running[cur]) + 1
               \/ i \in 1..Len(running[t]) /\ running'[t][i] = running[t][i]
    BY <1>4
  <2>4. ASSUME NEW t \in Threads, NEW i \in 1..Len(running[t])
        PROVE  i \in 1..Len(running'[t]) /\ running'[t][i] = running[t][i]
    BY <1>4
  <2>5. h \in Unfinished'
    <3>1. Len(running[cur]) + 1 \in 1..Len(running'[cur])
      BY <1>4
    <3> QED BY <1>3, <1>4, <2>2, <3>1
  <2>6. Unfinished' = Unfinished \cup {h}
    <3>1. \A item : item \in Unfinished' => item \in Unfinished \cup {h}
      BY <2>1, <2>2, <2>3
    <3>2. \A item : item \in Unfinished => item \in Unfinished'
      BY <2>1, <2>2, <2>4
    <3> QED BY <2>5, <3>1, <3>2
  <2>7. h \notin ToSet(ready') /\ h \notin Unfinished
    <3>1. h \in ToSet(ready)
      BY <1>2
    <3>2. ASSUME NEW i \in 1..Len(ready'), ready'[i] = h
          PROVE  FALSE
      <4>1. i + 1 \in 1..Len(ready) /\ 1 \in 1..Len(ready) /\ i + 1 # 1 /\ ready[i + 1] = ready[1]
        BY <1>2, <3>2
      <4> QED BY <4>1 DEF IInv, SlotsExact
    <3> QED BY <1>2, <3>1, <3>2 DEF IInv, SlotsExact
  <2>8. used' = ToSet(ready') \cup Unfinished' /\ ToSet(ready') \cap Unfinished' = {}
    BY <1>1, <1>2, <2>6, <2>7 DEF IInv, SlotsExact
  <2>9. ASSUME NEW i \in 1..Len(ready'), NEW j \in 1..Len(ready'), ready'[i] = ready'[j]
        PROVE  i = j
    <3>1. /\ i + 1 \in 1..Len(ready) /\ j + 1 \in 1..Len(ready)
          /\ ready[i + 1] = ready[j + 1]
      BY <1>2, <2>9
    <3>2. i + 1 = j + 1
      BY <3>1 DEF IInv, SlotsExact
    <3> QED BY <1>2, <3>2
  <2>10. ASSUME NEW t \in Threads, NEW u \in Threads,
                NEW i \in 1..Len(running'[t]), NEW j \in 1..Len(running'[u]),
                running'[t][i] = running'[u][j]
         PROVE  t = u /\ i = j
    <3>1. ASSUME NEW v \in Threads, NEW k \in 1..Len(running[v])
          PROVE  running[v][k] # h
      BY <2>1, <2>7, <3>1
    <3>2. CASE running'[t][i] = h
      BY <2>3, <2>10, <3>1, <3>2, ZenonT(30)
    <3>3. CASE running'[t][i] # h
      <4>1. /\ i \in 1..Len(running[t]) /\ j \in 1..Len(running[u])
            /\ running[t][i] = running[u][j]
        BY <2>3, <2>10, <3>3
      <4> QED BY <4>1 DEF IInv, SlotsExact
    <3> QED BY <3>2, <3>3
  <2> QED BY <2>8, <2>9, <2>10 DEF SlotsExact
<1> QED BY <1>5, <1>6, <1>7, <1>8, <1>9 DEF IInv

(* A callback returns.                                                       *)
LEMMA FinishIInv ==
  ASSUME IInv, Finish
  PROVE  IInv'
<1> DEFINE done == Last(running[cur])
<1>1. /\ running[cur] # <<>> /\ running' = [running EXCEPT ![cur] = Front(@)]
      /\ used' = used \ {done}
      /\ levels' = IF levels = <<>> THEN levels ELSE Front(levels)
      /\ irqs' = FALSE /\ UNCHANGED <<ready, seq, cur, alive>>
  BY DEF Finish
<1>2. cur \in Threads /\ running \in [Threads -> Seq(Tasks)] /\ levels \in Seq(Priorities)
  BY DEF IInv, TypeOK
<1>3. /\ running' \in [Threads -> Seq(Tasks)]
      /\ \A t \in Threads : t # cur => running'[t] = running[t]
      /\ Len(running[cur]) \in Nat /\ Len(running[cur]) > 0
      /\ Len(running'[cur]) = Len(running[cur]) - 1
      /\ \A i \in 1..(Len(running[cur]) - 1) : running'[cur][i] = running[cur][i]
      /\ running[cur][Len(running[cur])] = done
  <2>1. running'[cur] = Front(running[cur]) /\ running[cur] \in Seq(Tasks)
    BY <1>1, <1>2
  <2>2. /\ Front(running[cur]) \in Seq(Tasks)
        /\ Len(Front(running[cur])) = Len(running[cur]) - 1
        /\ \A i \in 1..(Len(running[cur]) - 1) : Front(running[cur])[i] = running[cur][i]
        /\ done = running[cur][Len(running[cur])]
    BY <1>1, <2>1, WithoutLast
  <2>3. Len(running[cur]) \in Nat /\ Len(running[cur]) > 0
    BY <1>1, <2>1, Shape
  <2> QED BY <1>1, <1>2, <2>1, <2>2, <2>3
<1> HIDE DEF done
<1>4. levels' \in Seq(Priorities) /\ Rising'
  <2>1. CASE levels = <<>>
    BY <1>1, <1>2, <2>1 DEF IInv, Rising
  <2>2. CASE levels # <<>>
    <3>1. /\ levels' \in Seq(Priorities) /\ Len(levels') = Len(levels) - 1
          /\ \A i \in 1..(Len(levels) - 1) : levels'[i] = levels[i]
      BY <1>1, <1>2, <2>2, WithoutLast
    <3>2. Len(levels) \in Nat
      BY <1>2, Shape
    <3> QED BY <3>1, <3>2 DEF IInv, Rising
  <2> QED BY <2>1, <2>2
<1>5. TypeOK'
  BY <1>1, <1>3, <1>4 DEF IInv, TypeOK
<1>6. Sorted'
  BY <1>1 DEF IInv, Sorted
<1>7. Numbered'
  BY <1>1 DEF IInv, Numbered
<1>8. SlotsExact'
  <2>1. \A item : item \in Unfinished <=>
          \E t \in Threads : \E i \in 1..Len(running[t]) : running[t][i] = item
    BY <1>2, InProgress DEF Unfinished
  <2>2. \A item : item \in Unfinished' <=>
          \E t \in Threads : \E i \in 1..Len(running'[t]) : running'[t][i] = item
    BY <1>3, InProgress DEF Unfinished
  <2>3. ASSUME NEW t \in Threads, NEW i \in 1..Len(running'[t])
        PROVE  /\ i \in 1..Len(running[t]) /\ running'[t][i] = running[t][i]
               /\ ~(t = cur /\ i = Len(running[cur]))
    BY <1>3
  <2>4. ASSUME NEW t \in Threads, NEW i \in 1..Len(running[t])
        PROVE  \/ i \in 1..Len(running'[t]) /\ running'[t][i] = running[t][i]
               \/ running[t][i] = done
    BY <1>3
  <2>5. Len(running[cur]) \in 1..Len(running[cur])
    BY <1>3
  <2>6. done \in Unfinished
    BY <1>2, <1>3, <2>1, <2>5
  <2>7. done \notin Unfinished'
    <3> SUFFICES ASSUME NEW t \in Threads, NEW i \in 1..Len(running'[t]), running'[t][i] = done
                 PROVE  FALSE
      BY <2>2
    <3>1. i \in 1..Len(running[t]) /\ running[t][i] = running[cur][Len(running[cur])]
      BY <1>3, <2>3
    <3>2. t = cur /\ i = Len(running[cur])
      BY <1>2, <2>5, <3>1 DEF IInv, SlotsExact
    <3> QED BY <2>3, <3>2
  <2>8. Unfinished' = Unfinished \ {done}
    <3>1. \A item : item \in Unfinished' => item \in Unfinished
      BY <2>1, <2>2, <2>3
    <3>2. \A item : item \in Unfinished /\ item # done => item \in Unfinished'
      BY <2>1, <2>2, <2>4
    <3> QED BY <2>7, <3>1, <3>2
  <2>9. used' = ToSet(ready') \cup Unfinished' /\ ToSet(ready') \cap Unfinished' = {}
    <3>1. /\ used = ToSet(ready) \cup Unfinished /\ ToSet(ready) \cap Unfinished = {}
          /\ ready' = ready
      BY <1>1 DEF IInv, SlotsExact
    <3> QED BY <1>1, <2>6, <2>8, <3>1
  <2>10. ASSUME NEW t \in Threads, NEW u \in Threads,
                NEW i \in 1..Len(running'[t]), NEW j \in 1..Len(running'[u]),
                running'[t][i] = running'[u][j]
         PROVE  t = u /\ i = j
    <3>1. /\ i \in 1..Len(running[t]) /\ j \in 1..Len(running[u])
          /\ running[t][i] = running[u][j]
      BY <2>3, <2>10
    <3> QED BY <3>1 DEF IInv, SlotsExact
  <2> QED BY <1>1, <2>9, <2>10 DEF IInv, SlotsExact
<1> QED BY <1>4, <1>5, <1>6, <1>7, <1>8 DEF IInv

(* The rest leaves the queue alone.                                          *)
LEMMA StepIInv == IInv /\ [Next]_vars => IInv'
<1> SUFFICES ASSUME IInv, [Next]_vars PROVE IInv'
  OBVIOUS
<1>1. ASSUME NEW p \in Priorities, AddTask(p) PROVE IInv'
  BY <1>1, AddTaskIInv
<1>2. CASE Start
  BY <1>2, StartIInv
<1>3. CASE Finish
  BY <1>3, FinishIInv
<1>4. ASSUME /\ UNCHANGED <<ready, used, levels, seq, running>>
             /\ cur' \in alive' /\ irqs' \in BOOLEAN /\ alive' \subseteq Threads
      PROVE  IInv'
  <2>1. TypeOK'
    BY <1>4 DEF IInv, TypeOK
  <2>2. Sorted' /\ Numbered' /\ Rising'
    BY <1>4 DEF IInv, Sorted, Numbered, Rising
  <2>3. SlotsExact'
    <3>1. Unfinished' = Unfinished
      BY <1>4 DEF Unfinished
    <3> QED BY <1>4, <3>1 DEF IInv, SlotsExact
  <2> QED BY <2>1, <2>2, <2>3 DEF IInv
<1>5. CASE Enter
  BY <1>4, <1>5 DEF Enter, IInv, TypeOK
<1>6. ASSUME NEW t \in Threads, Leave(t) PROVE IInv'
  BY <1>4, <1>6 DEF Leave, IInv, TypeOK
<1>7. ASSUME NEW t \in Threads, Kill(t) PROVE IInv'
  BY <1>4, <1>7 DEF Kill, IInv, TypeOK
<1>8. CASE UNCHANGED vars
  BY <1>4, <1>8 DEF vars, IInv, TypeOK
<1> QED BY <1>1, <1>2, <1>3, <1>5, <1>6, <1>7, <1>8 DEF Next

(* In every reachable state the list is sorted and slots and levels agree.   *)
LEMMA Always == Spec => []IInv
BY InitIInv, StepIInv, PTL DEF Spec

-----------------------------------------------------------------------------
(* The type invariant holds.                                                 *)
THEOREM TypeCorrect == Spec => []TypeOK
<1>1. IInv => TypeOK
  BY DEF IInv
<1> QED BY <1>1, Always, PTL

(* A slot of g_tasks is in use exactly while its task waits in the list or   *)
(* its callback has not returned, on whatever thread; no slot is in two      *)
(* places.                                                                   *)
THEOREM SlotsAccounted == Spec => []SlotsExact
<1>1. IInv => SlotsExact
  BY DEF IInv
<1> QED BY <1>1, Always, PTL

(* task_run_ready always starts the best task that waits: of the highest     *)
(* priority, and of these the first added.                                   *)
THEOREM BestIsFirst == Spec => BestFirst
<1>1. ASSUME IInv, Start
      PROVE  LET best == Last(running'[cur])
             IN  \A other \in ToSet(ready') :
                   \/ other.prio < best.prio
                   \/ other.prio = best.prio /\ other.seq > best.seq
  <2>1. /\ ready # <<>> /\ ready' = Tail(ready) /\ ready \in Seq(Tasks)
        /\ running' = [running EXCEPT ![cur] = Append(@, Head(ready))]
        /\ cur \in Threads /\ running \in [Threads -> Seq(Tasks)]
    BY <1>1 DEF Start, Eligible, IInv, TypeOK
  <2>2. Last(running'[cur]) = Head(ready)
    <3>1. running'[cur] = Append(running[cur], Head(ready)) /\ running[cur] \in Seq(Tasks)
      BY <2>1
    <3>2. Head(ready) \in Tasks
      BY <2>1, HeadAndTail
    <3> QED BY <3>1, <3>2, AppendProperties DEF Last
  <2>3. ASSUME NEW other \in ToSet(ready')
        PROVE  Outranks(Head(ready), other) /\ other \in Tasks /\ Head(ready) \in Tasks
    <3>1. /\ Head(ready) = ready[1] /\ Head(ready) \in Tasks /\ Len(ready) > 0
          /\ ready' \in Seq(Tasks) /\ Len(ready') = Len(ready) - 1 /\ Len(ready) \in Nat
          /\ \A i \in 1..(Len(ready) - 1) : ready'[i] = ready[i + 1]
      <4>1. Len(ready) \in Nat
        BY <2>1, Shape
      <4> QED BY <2>1, <4>1, HeadAndTail
    <3>2. PICK i \in 1..Len(ready') : other = ready'[i]
      BY <2>3, <3>1, Shape
    <3>3. 1 \in 1..Len(ready) /\ i + 1 \in 1..Len(ready) /\ 1 < i + 1 /\ other = ready[i + 1]
      BY <3>1, <3>2
    <3>4. other \in Tasks
      BY <3>1, <3>2, Shape
    <3> QED BY <1>1, <3>1, <3>3, <3>4 DEF IInv, Sorted
  <2>4. ASSUME NEW other \in ToSet(ready')
        PROVE  \/ other.prio < Head(ready).prio
               \/ other.prio = Head(ready).prio /\ other.seq > Head(ready).seq
    <3>1. Outranks(Head(ready), other) /\ other \in Tasks /\ Head(ready) \in Tasks
      BY <2>3
    <3>2. other.prio \in Int /\ other.seq \in Int /\ Head(ready).prio \in Int /\ Head(ready).seq \in Int
      BY <3>1, TaskFields
    <3> QED BY <3>1, <3>2 DEF Outranks
  <2> QED BY <2>2, <2>4
<1> DEFINE Best == Start => LET best == Last(running'[cur])
                            IN  \A other \in ToSet(ready') :
                                  \/ other.prio < best.prio
                                  \/ other.prio = best.prio /\ other.seq > best.seq
<1>2. IInv /\ [Next]_vars => [Best]_vars
  BY <1>1
<1> HIDE DEF Best
<1>3. Spec => [][Best]_vars
  BY <1>2, Always, PTL DEF Spec
<1> QED BY <1>3 DEF BestFirst, Best

(* With no more priorities than MAX_NESTED_TASKS, the stack of levels has    *)
(* room whenever a task is to be started: no callback runs without a level.  *)
THEOREM LevelsFit ==
  ASSUME Cardinality(Priorities) <= MaxNested
  PROVE  Spec => []LevelsRise
<1>1. ASSUME IInv, Eligible
      PROVE  Len(levels) < MaxNested
  <2> DEFINE h == Head(ready)
             n == Len(levels) + 1
             level == [i \in 1..n |-> IF i < n THEN levels[i] ELSE h.prio]
  <2>1. /\ Len(levels) \in Nat /\ \A i \in 1..Len(levels) : levels[i] \in Priorities
        /\ levels # <<>> => Len(levels) > 0
    BY <1>1, Shape DEF IInv, TypeOK
  <2>2. ready # <<>> /\ (levels # <<>> => ~(h.prio <= Last(levels)))
    BY <1>1 DEF Eligible
  <2>3. h.prio \in Priorities /\ h.prio \in Int
    <3>1. h \in Tasks
      BY <1>1, <2>2, HeadAndTail DEF IInv, TypeOK
    <3> QED BY <3>1, TaskFields
  <2> HIDE DEF h
  <2>4. level \in [1..n -> Priorities] /\ n \in Nat
    BY <2>1, <2>3
  <2>5. ASSUME NEW i \in 1..n, NEW j \in 1..n, i < j
        PROVE  level[i] < level[j]
    <3>1. ASSUME NEW k \in 1..Len(levels)
          PROVE  levels[k] \in Int
      BY <2>1, TaskQueueAssumption
    <3>2. i \in 1..Len(levels) /\ level[i] = levels[i] /\ levels[i] \in Int
      <4>1. i \in 1..Len(levels) /\ i < n
        BY <2>1, <2>5
      <4> QED BY <3>1, <4>1
    <3>3. CASE j < n
      <4>1. j \in 1..Len(levels) /\ level[j] = levels[j]
        BY <2>1, <2>5, <3>3
      <4> QED BY <1>1, <2>5, <3>2, <4>1 DEF IInv, Rising
    <3>4. CASE j = n
      <4>1. level[j] = h.prio /\ levels # <<>> /\ Len(levels) \in 1..Len(levels)
        BY <2>1, <2>5, <3>2, <3>4
      <4>2. levels[Len(levels)] < h.prio /\ levels[Len(levels)] \in Int
        <5>1. levels[Len(levels)] \in Int
          BY <3>1, <4>1
        <5>2. ~(h.prio <= levels[Len(levels)])
          BY <2>2, <4>1 DEF Last
        <5> QED BY <2>3, <5>1, <5>2
      <4>3. i < Len(levels) => levels[i] < levels[Len(levels)]
        BY <1>1, <3>2, <4>1 DEF IInv, Rising
      <4>4. i < Len(levels) \/ i = Len(levels)
        BY <2>1, <3>2
      <4> QED BY <2>3, <3>2, <4>1, <4>2, <4>3, <4>4
    <3> QED BY <2>1, <2>5, <3>3, <3>4
  <2>6. \A i, j \in 1..n : i # j => level[i] # level[j]
    <3>1. \A i \in 1..n : level[i] \in Int
      BY <2>4, TaskQueueAssumption
    <3> HIDE DEF level
    <3>2. ASSUME NEW i \in 1..n, NEW j \in 1..n, i # j, level[i] = level[j]
          PROVE  FALSE
      <4>1. i < j \/ j < i
        BY <2>4, <3>2
      <4> QED BY <2>5, <3>1, <3>2, <4>1
    <3> QED BY <3>2
  <2> HIDE DEF level, n
  <2>7. IsFiniteSet(1..n) /\ Cardinality(1..n) = n
    <3>1. Cardinality(1..n) = IF 1 > n THEN 0 ELSE n - 1 + 1
      BY <2>4, FS_Interval
    <3>2. IsFiniteSet(1..n)
      BY <2>4, FS_Interval
    <3>3. n \in Nat /\ n >= 1
      BY <2>1, <2>4 DEF n
    <3> QED BY <3>1, <3>2, <3>3
  <2>8. IsFiniteSet(Priorities) /\ Cardinality(Priorities) \in Nat
    BY TaskQueueAssumption, FS_CardinalityType
  <2>9. ~(Cardinality(Priorities) < n)
    <3> SUFFICES ASSUME Cardinality(Priorities) < Cardinality(1..n) PROVE FALSE
      BY <2>7
    <3> QED BY <2>4, <2>6, <2>7, <2>8, FS_PigeonHole
  <2> QED BY <2>1, <2>4, <2>8, <2>9, TaskQueueAssumption DEF n
<1>2. IInv => LevelsRise
  <2>1. IInv /\ ~Eligible => LevelsRise
    BY DEF LevelsRise, IInv, Rising
  <2>2. IInv /\ Eligible => LevelsRise
    BY <1>1 DEF LevelsRise, IInv, Rising
  <2> QED BY <2>1, <2>2
<1> QED BY <1>2, Always, PTL

-----------------------------------------------------------------------------
(* The timers.  What a slot that waits holds, and the order of two slots.    *)
Held(s) ==
  /\ slot[s].used /\ slot[s].message \in 1..Len(asked)
  /\ asked[slot[s].message] = slot[s].deadline
Sooner(s, t) == Before(slot[s].message, slot[t].message)

(* The same after a step.                                                    *)
HeldAfter(s) ==
  /\ slot'[s].used /\ slot'[s].message \in 1..Len(asked')
  /\ asked'[slot'[s].message] = slot'[s].deadline
BeforeAfter(m, n) == asked'[m] < asked'[n] \/ (asked'[m] = asked'[n] /\ m < n)

TimerTypes ==
  /\ now \in Nat
  /\ slot \in [Slots -> [used : BOOLEAN, deadline : Nat, message : Nat]]
  /\ list \in Seq(Slots) /\ tasks \in Seq(Slots)
  /\ asked \in Seq(Nat) /\ said \in Seq(Nat)
  /\ taken \in [pc : {"none", "free", "clear", "call"},
                slot : Slots \cup {0}, message : Nat]
  /\ taken.pc = "none" => taken = Nothing

(* The list and the tasks hold timeouts, those of the tasks expired.         *)
Holding ==
  /\ \A i \in 1..Len(tasks) : Held(tasks[i]) /\ slot[tasks[i]].deadline <= now
  /\ \A i \in 1..Len(list) : Held(list[i])

(* The timeouts that wait stand in the order in which they are due.          *)
InTurn ==
  /\ \A i, j \in 1..Len(tasks) : i < j => Sooner(tasks[i], tasks[j])
  /\ \A i, j \in 1..Len(list) : i < j => Sooner(list[i], list[j])
  /\ \A i \in 1..Len(tasks), j \in 1..Len(list) : Sooner(tasks[i], list[j])

(* The one whose callback is about to be called is due before them all.      *)
TakenFirst ==
  taken.pc # "none" =>
    /\ taken.slot \in Slots /\ taken.message \in 1..Len(asked)
    /\ asked[taken.message] <= now
    /\ taken.pc \in {"free", "clear"} => ~slot[taken.slot].used
    /\ \A i \in 1..Len(tasks) : Before(taken.message, slot[tasks[i]].message)
    /\ \A i \in 1..Len(list) : Before(taken.message, slot[list[i]].message)

(* No timeout is lost.                                                       *)
Accounted ==
  \A m \in 1..Len(asked) :
    \/ \E k \in 1..Len(said) : said[k] = m
    \/ taken.pc # "none" /\ taken.message = m
    \/ \E i \in 1..Len(tasks) : slot[tasks[i]].message = m
    \/ \E i \in 1..Len(list) : slot[list[i]].message = m

TasksFit == Len(tasks) + (IF taken.pc = "none" THEN 0 ELSE 1) <= TimerTasks

TimersInv ==
  TimerTypes /\ Holding /\ InTurn /\ TakenFirst /\ Accounted /\ TasksFit

LEMMA TimersInitInv == TimersInit => TimersInv
<1> SUFFICES ASSUME TimersInit PROVE TimersInv
  OBVIOUS
<1>1. /\ now = 0 /\ slot = [s \in Slots |-> Free] /\ list = <<>> /\ tasks = <<>>
      /\ taken = Nothing /\ asked = <<>> /\ said = <<>> /\ TimerTasks \in Nat
  BY TimersAssumption DEF TimersInit
<1>2. <<>> \in Seq(Slots) /\ <<>> \in Seq(Nat) /\ Len(<<>>) = 0
  OBVIOUS
<1>3. Free \in [used : BOOLEAN, deadline : Nat, message : Nat]
  BY DEF Free
<1>4. /\ Nothing \in [pc : {"none", "free", "clear", "call"},
                      slot : Slots \cup {0}, message : Nat]
      /\ Nothing.pc = "none"
  BY DEF Nothing
<1>5. TimerTypes
  BY <1>1, <1>2, <1>3, <1>4 DEF TimerTypes
<1>6. Holding /\ InTurn
  BY <1>1, <1>2 DEF Holding, InTurn
<1>7. TakenFirst /\ TasksFit
  BY <1>1, <1>2, <1>4 DEF TakenFirst, TasksFit
<1>8. Accounted
  BY <1>1, <1>2 DEF Accounted
<1> QED BY <1>5, <1>6, <1>7, <1>8 DEF TimersInv

-----------------------------------------------------------------------------
(* The least of a set of numbers.                                            *)
LEMMA LeastOf ==
  ASSUME NEW X \in SUBSET Nat, X # {}
  PROVE  Min(X) \in X /\ \A x \in X : Min(X) <= x
<1>1. PICK n \in X : \A other \in X : <<other, n>> \notin OpToRel(<, Nat)
  <2>1. X \subseteq Nat /\ X # {}
    OBVIOUS
  <2> QED BY <2>1, WFMin, NatLessThanWellFounded
<1>2. OpToRel(<, Nat) = {pair \in Nat \X Nat : pair[1] < pair[2]}
  BY Zenon DEF OpToRel
<1>3. ASSUME NEW x \in X
      PROVE  n <= x
  <2>1. n \in Nat /\ x \in Nat
    OBVIOUS
  <2>2. <<x, n>> \notin {pair \in Nat \X Nat : pair[1] < pair[2]}
    BY <1>1, <1>2
  <2> QED BY <2>1, <2>2
<1> QED BY <1>3 DEF Min

(* What the invariant says of the waiting timeouts.                          *)
LEMMA WaitingFacts ==
  ASSUME TimersInv
  PROVE  /\ Len(tasks) \in Nat /\ Len(list) \in Nat /\ Len(asked) \in Nat /\ Len(said) \in Nat
         /\ now \in Nat /\ TimerTasks \in Nat
         /\ \A m \in 1..Len(asked) : asked[m] \in Nat
         /\ \A s \in Slots : /\ slot[s].deadline \in Nat /\ slot[s].message \in Nat
                             /\ slot[s].used \in BOOLEAN
                             /\ slot[s] \in [used : BOOLEAN, deadline : Nat, message : Nat]
         /\ \A i \in 1..Len(tasks) : tasks[i] \in Slots
         /\ \A i \in 1..Len(list) : list[i] \in Slots
         /\ ToSet(list) = {list[i] : i \in 1..Len(list)}
<1>1. /\ now \in Nat /\ tasks \in Seq(Slots) /\ list \in Seq(Slots)
      /\ asked \in Seq(Nat) /\ said \in Seq(Nat)
      /\ slot \in [Slots -> [used : BOOLEAN, deadline : Nat, message : Nat]]
  BY DEF TimersInv, TimerTypes
<1>2. TimerTasks \in Nat
  BY TimersAssumption
<1>3. /\ Len(list) \in Nat /\ (\A i \in 1..Len(list) : list[i] \in Slots)
      /\ ToSet(list) = {list[i] : i \in 1..Len(list)}
  BY <1>1, Shape
<1>4. Len(tasks) \in Nat /\ \A i \in 1..Len(tasks) : tasks[i] \in Slots
  BY <1>1, Shape
<1>5. /\ Len(asked) \in Nat /\ (\A i \in 1..Len(asked) : asked[i] \in Nat)
      /\ Len(said) \in Nat
  BY <1>1, Shape
<1>6. \A s \in Slots : /\ slot[s] \in [used : BOOLEAN, deadline : Nat, message : Nat]
  BY <1>1
<1> QED BY <1>1, <1>2, <1>3, <1>4, <1>5, <1>6

(* An order: no timeout is before itself, so that no slot is in two places.  *)
LEMMA NotBeforeItself ==
  ASSUME TimersInv, NEW m \in 1..Len(asked)
  PROVE  ~Before(m, m)
<1>1. asked[m] \in Nat /\ m \in Int
  BY WaitingFacts
<1> QED BY <1>1 DEF Before

LEMMA Apart ==
  ASSUME TimersInv
  PROVE  /\ \A i, j \in 1..Len(tasks) : tasks[i] = tasks[j] => i = j
         /\ \A i, j \in 1..Len(list) : list[i] = list[j] => i = j
         /\ \A i \in 1..Len(tasks), j \in 1..Len(list) : tasks[i] # list[j]
<1>1. \A i \in 1..Len(tasks) : ~Sooner(tasks[i], tasks[i])
  BY NotBeforeItself DEF TimersInv, Holding, Held, Sooner
<1>2. \A i \in 1..Len(list) : ~Sooner(list[i], list[i])
  BY NotBeforeItself DEF TimersInv, Holding, Held, Sooner
<1>3. ASSUME NEW i \in 1..Len(tasks), NEW j \in 1..Len(tasks), tasks[i] = tasks[j]
      PROVE  i = j
  <2>1. ~(i < j) /\ ~(j < i)
    BY <1>1, <1>3 DEF TimersInv, InTurn
  <2> QED BY <2>1, WaitingFacts
<1>4. ASSUME NEW i \in 1..Len(list), NEW j \in 1..Len(list), list[i] = list[j]
      PROVE  i = j
  <2>1. ~(i < j) /\ ~(j < i)
    BY <1>2, <1>4 DEF TimersInv, InTurn
  <2> QED BY <2>1, WaitingFacts
<1>5. \A i \in 1..Len(tasks), j \in 1..Len(list) : tasks[i] # list[j]
  BY <1>1 DEF TimersInv, InTurn
<1> QED BY <1>3, <1>4, <1>5

-----------------------------------------------------------------------------
(* add_timer: the timeout goes behind all that are not due later.            *)
LEMMA PositionIn ==
  ASSUME TimersInv, NEW d \in Nat
  PROVE  /\ Position(d) \in 1..(Len(list) + 1)
         /\ \A i \in 1..(Position(d) - 1) : slot[list[i]].deadline <= d
         /\ \A i \in Position(d)..Len(list) : slot[list[i]].deadline > d
<1> DEFINE later == {i \in 1..Len(list) : slot[list[i]].deadline > d}
           stops == {Len(list) + 1} \cup later
           n == Position(d)
<1>1. /\ Len(list) \in Nat
      /\ \A i \in 1..Len(list) : slot[list[i]].deadline \in Nat
  BY WaitingFacts
<1>2. stops \in SUBSET Nat /\ stops # {}
  BY <1>1
<1>3. n = Min(stops)
  BY DEF Position
<1>4. n \in stops /\ \A x \in stops : n <= x
  <2> HIDE DEF stops, n
  <2> QED BY <1>2, <1>3, LeastOf
<1> HIDE DEF n
<1>5. n \in 1..(Len(list) + 1) /\ n \in Nat
  BY <1>1, <1>4
<1>6. ASSUME NEW i \in 1..(n - 1)
      PROVE  slot[list[i]].deadline <= d
  <2>1. i \in 1..Len(list) /\ i < n
    BY <1>1, <1>5
  <2>2. i \notin stops
    <3> HIDE DEF stops
    <3> QED BY <1>4, <1>5, <2>1
  <2> QED BY <1>1, <2>1, <2>2
<1>7. ASSUME NEW i \in n..Len(list)
      PROVE  slot[list[i]].deadline > d
  <2>1. n \in 1..Len(list) /\ i \in 1..Len(list) /\ (i = n \/ n < i)
    BY <1>1, <1>5
  <2>2. slot[list[n]].deadline > d
    BY <1>1, <1>4, <2>1
  <2>3. CASE n < i
    <3>1. Sooner(list[n], list[i]) /\ Held(list[n]) /\ Held(list[i])
      BY <2>1, <2>3 DEF TimersInv, InTurn, Holding
    <3>2. slot[list[n]].deadline <= slot[list[i]].deadline
      <4>1. /\ slot[list[n]].deadline = asked[slot[list[n]].message]
            /\ slot[list[i]].deadline = asked[slot[list[i]].message]
            /\ slot[list[n]].deadline \in Nat /\ slot[list[i]].deadline \in Nat
        BY <1>1, <2>1, <3>1 DEF Held
      <4> QED BY <3>1, <4>1 DEF Sooner, Before
    <3>3. slot[list[n]].deadline \in Nat /\ slot[list[i]].deadline \in Nat
      BY <1>1, <2>1
    <3> QED BY <2>2, <3>2, <3>3
  <2> QED BY <2>1, <2>2, <2>3
<1> QED BY <1>5, <1>6, <1>7 DEF n

LEMMA AddTimerInv ==
  ASSUME TimersInv, ~Overlap, NEW delay \in Delays, AddTimer(delay)
  PROVE  TimersInv'
<1>0. PICK s, M, due, n, L :
           /\ s = Min(Unused) /\ M = Len(asked) + 1 /\ due = now + delay
           /\ n = Position(due) /\ L = Len(list)
  OBVIOUS
<1>1. /\ Unused # {} /\ taken.pc \notin {"free", "clear"}
      /\ asked' = Append(asked, due)
      /\ slot' = [slot EXCEPT ![s] = [used |-> TRUE, deadline |-> due, message |-> M]]
      /\ list' = InsertAt(list, n, s)
      /\ now' = now /\ tasks' = tasks /\ taken' = taken /\ said' = said
  BY <1>0 DEF AddTimer
<1>a. now' = now /\ tasks' = tasks /\ taken' = taken /\ said' = said
  BY <1>1
<1>2. /\ Len(tasks) \in Nat /\ L \in Nat /\ Len(asked) \in Nat /\ Len(said) \in Nat
      /\ now \in Nat /\ due \in Nat /\ now <= due /\ M \in Nat
      /\ \A m \in 1..Len(asked) : asked[m] \in Nat
      /\ \A i \in 1..Len(tasks) : tasks[i] \in Slots
      /\ \A i \in 1..L : list[i] \in Slots
  <2>1. delay \in Nat
    BY TimersAssumption
  <2> QED BY <1>0, <2>1, WaitingFacts
<1>3. s \in Slots /\ ~slot[s].used
  <2>1. Unused \in SUBSET Nat
    BY TimersAssumption DEF Unused
  <2>2. s \in Unused
    BY <1>0, <1>1, <2>1, LeastOf
  <2> QED BY <2>2 DEF Unused
<1>4. /\ n \in 1..(L + 1)
      /\ \A i \in 1..(n - 1) : slot[list[i]].deadline <= due
      /\ \A i \in n..L : slot[list[i]].deadline > due
  BY <1>0, <1>2, PositionIn
<1>5. /\ list' \in Seq(Slots) /\ Len(list') = L + 1
      /\ \A i \in 1..(n - 1) : list'[i] = list[i]
      /\ list'[n] = s
      /\ \A i \in (n + 1)..(L + 1) : list'[i] = list[i - 1]
  <2>1. list \in Seq(Slots)
    BY DEF TimersInv, TimerTypes
  <2>2. /\ n \in 1..(Len(list) + 1) /\ s \in Slots
        /\ list' = InsertAt(list, n, s)
    BY <1>0, <1>1, <1>3, <1>4
  <2>3. /\ list' \in Seq(Slots) /\ Len(list') = Len(list) + 1
        /\ \A i \in 1..(n - 1) : list'[i] = list[i]
        /\ list'[n] = s
        /\ \A i \in (n + 1)..(Len(list) + 1) : list'[i] = list[i - 1]
    <3>1. Insertion(Slots, list', list, n, s)
      BY <2>1, <2>2, Inserted
    <3> QED BY <3>1 DEF Insertion
  <2> QED BY <1>0, <2>3
<1>6. /\ asked' \in Seq(Nat) /\ Len(asked') = M /\ asked'[M] = due
      /\ \A m \in 1..Len(asked) : asked'[m] = asked[m]
  <2>1. asked \in Seq(Nat)
    BY DEF TimersInv, TimerTypes
  <2> QED BY <1>0, <1>1, <1>2, <2>1, AppendProperties
<1>7. /\ slot'[s] = [used |-> TRUE, deadline |-> due, message |-> M]
      /\ \A t \in Slots : t # s => slot'[t] = slot[t]
      /\ slot' \in [Slots -> [used : BOOLEAN, deadline : Nat, message : Nat]]
  BY <1>1, <1>2, <1>3 DEF TimersInv, TimerTypes
<1>8. /\ \A i \in 1..Len(tasks) : Held(tasks[i]) /\ slot[tasks[i]].deadline <= now
      /\ \A i \in 1..L : Held(list[i])
  BY <1>0 DEF TimersInv, Holding
<1>9. /\ \A i \in 1..Len(tasks) : slot'[tasks[i]] = slot[tasks[i]]
      /\ \A i \in 1..L : slot'[list[i]] = slot[list[i]]
  BY <1>2, <1>3, <1>7, <1>8 DEF Held
<1>10. ASSUME NEW m \in 1..Len(asked), NEW k \in 1..Len(asked)
       PROVE  BeforeAfter(m, k) <=> Before(m, k)
  BY <1>6 DEF Before, BeforeAfter
<1>11. ASSUME NEW m \in 1..Len(asked)
       PROVE  /\ asked[m] <= due => BeforeAfter(m, M)
              /\ asked[m] > due => BeforeAfter(M, m)
  BY <1>0, <1>2, <1>6 DEF BeforeAfter
<1>12. TimerTypes'
  BY <1>0, <1>1, <1>2, <1>5, <1>6, <1>7 DEF TimersInv, TimerTypes
<1>13. ASSUME NEW t, Held(t), slot'[t] = slot[t]
       PROVE  HeldAfter(t)
  BY <1>0, <1>2, <1>6, <1>13 DEF Held, HeldAfter
<1>14. HeldAfter(s)
  BY <1>0, <1>2, <1>6, <1>7 DEF HeldAfter
<1>15. ASSUME NEW i \in 1..(L + 1)
       PROVE  \/ i < n /\ i \in 1..L /\ list'[i] = list[i]
              \/ i = n /\ list'[i] = s
              \/ i > n /\ i - 1 \in 1..L /\ list'[i] = list[i - 1]
  <2>1. i < n => i \in 1..(n - 1) /\ i \in 1..L
    BY <1>2, <1>4
  <2>2. i > n => i \in (n + 1)..(L + 1) /\ i - 1 \in 1..L
    BY <1>2, <1>4
  <2>3. i < n \/ i = n \/ i > n
    BY <1>4
  <2> QED BY <1>5, <2>1, <2>2, <2>3
<1>16. Holding'
  <2>1. ASSUME NEW i \in 1..Len(list') PROVE HeldAfter(list'[i])
    BY <1>5, <1>8, <1>9, <1>13, <1>14, <1>15
  <2>2. \A i \in 1..Len(tasks) : HeldAfter(tasks[i]) /\ slot'[tasks[i]].deadline <= now
    BY <1>8, <1>9, <1>13
  <2> QED BY <1>a, <2>1, <2>2 DEF Holding, Held, HeldAfter
<1>17. ASSUME NEW i \in 1..Len(tasks)
       PROVE  BeforeAfter(slot[tasks[i]].message, M)
  BY <1>0, <1>2, <1>8, <1>11 DEF Held
<1>18. InTurn'
  <2>1. ASSUME NEW i \in 1..Len(tasks'), NEW j \in 1..Len(tasks'), i < j
        PROVE  BeforeAfter(slot'[tasks'[i]].message, slot'[tasks'[j]].message)
    BY <1>1, <1>8, <1>9, <1>10, <2>1 DEF TimersInv, InTurn, Sooner, Held
  <2>2. ASSUME NEW i \in 1..Len(tasks'), NEW j \in 1..Len(list')
        PROVE  BeforeAfter(slot'[tasks'[i]].message, slot'[list'[j]].message)
    <3>1. CASE list'[j] = s
      BY <1>1, <1>7, <1>9, <1>17, <3>1
    <3>2. ASSUME NEW k \in 1..L, list'[j] = list[k]
          PROVE  BeforeAfter(slot'[tasks'[i]].message, slot'[list'[j]].message)
      BY <1>0, <1>1, <1>8, <1>9, <1>10, <3>2 DEF TimersInv, InTurn, Sooner, Held
    <3> QED BY <1>5, <1>15, <3>1, <3>2
  <2>3. ASSUME NEW i \in 1..Len(list'), NEW j \in 1..Len(list'), i < j
        PROVE  BeforeAfter(slot'[list'[i]].message, slot'[list'[j]].message)
    <3>1. ASSUME NEW k \in 1..L, NEW l \in 1..L, k < l, list'[i] = list[k], list'[j] = list[l]
          PROVE  BeforeAfter(slot'[list'[i]].message, slot'[list'[j]].message)
      <4>1. Sooner(list[k], list[l]) /\ Held(list[k]) /\ Held(list[l])
        BY <1>0, <1>8, <3>1 DEF TimersInv, InTurn
      <4> QED BY <1>9, <1>10, <3>1, <4>1 DEF Sooner, Held
    <3>2. ASSUME i < n, i \in 1..L, list'[i] = list[i], list'[j] = s
          PROVE  BeforeAfter(slot'[list'[i]].message, slot'[list'[j]].message)
      <4>1. slot[list[i]].deadline <= due
        BY <1>2, <1>4, <3>2
      <4>2. slot'[list'[i]].message \in 1..Len(asked) /\ asked[slot'[list'[i]].message] <= due
        BY <1>8, <1>9, <3>2, <4>1 DEF Held
      <4> QED BY <1>7, <1>11, <3>2, <4>2
    <3>3. ASSUME j > n, j - 1 \in 1..L, list'[j] = list[j - 1], list'[i] = s
          PROVE  BeforeAfter(slot'[list'[i]].message, slot'[list'[j]].message)
      <4>1. slot[list[j - 1]].deadline > due
        BY <1>2, <1>4, <3>3
      <4>2. slot'[list'[j]].message \in 1..Len(asked) /\ asked[slot'[list'[j]].message] > due
        BY <1>8, <1>9, <3>3, <4>1 DEF Held
      <4> QED BY <1>7, <1>11, <3>3, <4>2
    <3>4. \/ i < n /\ i \in 1..L /\ list'[i] = list[i]
          \/ i = n /\ list'[i] = s
          \/ i > n /\ i - 1 \in 1..L /\ list'[i] = list[i - 1]
      BY <1>5, <1>15
    <3>5. \/ j < n /\ j \in 1..L /\ list'[j] = list[j]
          \/ j = n /\ list'[j] = s
          \/ j > n /\ j - 1 \in 1..L /\ list'[j] = list[j - 1]
      BY <1>5, <1>15
    <3>6. CASE i < n /\ j < n
      BY <1>4, <2>3, <3>1, <3>4, <3>5, <3>6
    <3>7. CASE i < n /\ j = n
      BY <1>4, <2>3, <3>2, <3>4, <3>5, <3>7
    <3>8. CASE i < n /\ j > n
      <4>1. i < j - 1 
        BY <1>4, <1>2, <2>3, <3>8
      <4> QED BY <1>4, <3>1, <3>4, <3>5, <3>8, <4>1
    <3>9. CASE i = n
      BY <1>4, <2>3, <3>3, <3>4, <3>5, <3>9
    <3>10. CASE i > n
      <4>1. i - 1 < j - 1 /\ j > n
        BY <1>4, <1>2, <2>3, <3>10
      <4> QED BY <1>4, <3>1, <3>4, <3>5, <3>10, <4>1
    <3> QED BY <1>2, <1>4, <1>5, <3>6, <3>7, <3>8, <3>9, <3>10
  <2> QED BY <2>1, <2>2, <2>3 DEF InTurn, Sooner, Before, BeforeAfter
<1>19. TakenFirst'
  <2> SUFFICES ASSUME taken.pc # "none"
               PROVE  /\ taken.slot \in Slots /\ taken.message \in 1..Len(asked')
                      /\ asked'[taken.message] <= now
                      /\ taken.pc \notin {"free", "clear"}
                      /\ \A i \in 1..Len(tasks) : BeforeAfter(taken.message, slot'[tasks[i]].message)
                      /\ \A i \in 1..Len(list') : BeforeAfter(taken.message, slot'[list'[i]].message)
    BY <1>a DEF TakenFirst, Before, BeforeAfter
  <2>1. /\ taken.slot \in Slots /\ taken.message \in 1..Len(asked)
        /\ asked[taken.message] <= now
        /\ \A i \in 1..Len(tasks) : Before(taken.message, slot[tasks[i]].message)
        /\ \A i \in 1..L : Before(taken.message, slot[list[i]].message)
    BY <1>0 DEF TimersInv, TakenFirst
  <2>2. taken.message \in 1..Len(asked') /\ asked'[taken.message] <= now
    BY <1>0, <1>2, <1>6, <2>1
  <2>3. \A i \in 1..Len(tasks) : BeforeAfter(taken.message, slot'[tasks[i]].message)
    BY <1>8, <1>9, <1>10, <2>1 DEF Held
  <2>4. \A i \in 1..L : BeforeAfter(taken.message, slot'[list[i]].message)
    BY <1>8, <1>9, <1>10, <2>1 DEF Held
  <2>5. BeforeAfter(taken.message, M)
    <3>1. asked[taken.message] <= due
      BY <1>0, <1>2, <2>1, TimersAssumption
    <3> QED BY <1>11, <2>1, <3>1
  <2>6. ASSUME NEW i \in 1..Len(list')
        PROVE  BeforeAfter(taken.message, slot'[list'[i]].message)
    <3>1. (\E k \in 1..L : list'[i] = list[k]) \/ list'[i] = s
      BY <1>5, <1>15
    <3>2. slot'[s].message = M
      BY <1>7
    <3> QED BY <2>4, <2>5, <3>1, <3>2
  <2> QED BY <1>1, <2>1, <2>2, <2>3, <2>6
<1>20. Accounted'
  <2> SUFFICES ASSUME NEW m \in 1..Len(asked')
               PROVE  \/ \E k \in 1..Len(said) : said[k] = m
                      \/ taken.pc # "none" /\ taken.message = m
                      \/ \E i \in 1..Len(tasks) : slot'[tasks[i]].message = m
                      \/ \E i \in 1..(L + 1) : slot'[list'[i]].message = m
    BY <1>a, <1>5 DEF Accounted
  <2>1. CASE m = M
    BY <1>4, <1>5, <1>7, <2>1
  <2>2. ASSUME NEW i \in 1..L
        PROVE  \E k \in 1..(L + 1) : list'[k] = list[i]
    <3>1. CASE i < n
      BY <1>2, <1>4, <1>5, <3>1
    <3>2. CASE ~(i < n)
      <4>1. i + 1 \in (n + 1)..(L + 1) /\ (i + 1) - 1 = i /\ i + 1 \in 1..(L + 1)
        BY <1>2, <1>4, <3>2
      <4> QED BY <1>5, <4>1
    <3> QED BY <3>1, <3>2
  <2>3. CASE m \in 1..Len(asked)
    <3>1. \/ \E k \in 1..Len(said) : said[k] = m
          \/ taken.pc # "none" /\ taken.message = m
          \/ \E i \in 1..Len(tasks) : slot[tasks[i]].message = m
          \/ \E i \in 1..L : slot[list[i]].message = m
      BY <1>0, <2>3 DEF TimersInv, Accounted
    <3> QED BY <1>9, <2>2, <3>1
  <2>4. m = M \/ m \in 1..Len(asked)
    BY <1>0, <1>2, <1>6
  <2> QED BY <2>1, <2>3, <2>4
<1>21. TasksFit'
  BY <1>1 DEF TimersInv, TasksFit
<1> QED BY <1>12, <1>16, <1>18, <1>19, <1>20, <1>21 DEF TimersInv

-----------------------------------------------------------------------------
(* A part of a sequence, and two sequences joined.                           *)
LEMMA Slice ==
  ASSUME NEW S, NEW q \in Seq(S), NEW a \in 1..(Len(q) + 1), NEW b \in (a - 1)..Len(q)
  PROVE  /\ SubSeq(q, a, b) \in Seq(S) /\ Len(SubSeq(q, a, b)) = b - a + 1
         /\ \A i \in 1..(b - a + 1) : SubSeq(q, a, b)[i] = q[a + i - 1]
<1>1. Len(q) \in Nat /\ \A i \in 1..Len(q) : q[i] \in S
  BY Shape
<1>2. a \in Int /\ b \in Int /\ \A i \in a..b : q[i] \in S
  BY <1>1
<1>3. /\ SubSeq(q, a, b) \in Seq(S)
      /\ Len(SubSeq(q, a, b)) = IF a <= b THEN b - a + 1 ELSE 0
      /\ \A i \in 1..(b - a + 1) : SubSeq(q, a, b)[i] = q[a + i - 1]
  BY <1>2, SubSeqProperties
<1>4. ~(a <= b) => b - a + 1 = 0
  BY <1>1
<1> QED BY <1>3, <1>4

LEMMA Joined ==
  ASSUME NEW S, NEW p \in Seq(S), NEW q \in Seq(S)
  PROVE  /\ p \o q \in Seq(S) /\ Len(p \o q) = Len(p) + Len(q)
         /\ \A i \in 1..Len(p) : (p \o q)[i] = p[i]
         /\ \A i \in 1..Len(q) : (p \o q)[Len(p) + i] = q[i]
<1> DEFINE all == p \o q
<1>1. Len(p) \in Nat /\ Len(q) \in Nat
  BY Shape
<1>2. /\ all \in Seq(S) /\ Len(all) = Len(p) + Len(q)
      /\ \A i \in 1..(Len(p) + Len(q)) : all[i] = IF i <= Len(p) THEN p[i] ELSE q[i - Len(p)]
  BY ConcatProperties
<1> HIDE DEF all
<1>3. ASSUME NEW i \in 1..Len(p) PROVE all[i] = p[i]
  <2>1. i \in 1..(Len(p) + Len(q)) /\ i <= Len(p)
    BY <1>1
  <2> QED BY <1>2, <2>1
<1>4. ASSUME NEW i \in 1..Len(q) PROVE all[Len(p) + i] = q[i]
  <2>1. /\ Len(p) + i \in 1..(Len(p) + Len(q)) /\ ~(Len(p) + i <= Len(p))
        /\ (Len(p) + i) - Len(p) = i
    BY <1>1
  <2> QED BY <1>2, <2>1
<1> QED BY <1>2, <1>3, <1>4 DEF all

(* The expired timers are the first of the list.                             *)
LEMMA ExpiredFirst ==
  ASSUME TimersInv
  PROVE  \E n \in 0..Len(list) :
           /\ Expired = SubSeq(list, 1, n)
           /\ \A i \in 1..n : slot[list[i]].deadline <= now
<1> DEFINE later == {i \in 0..(Len(list) - 1) : slot[list[i + 1]].deadline > now}
           stops == {Len(list)} \cup later
           n == Min(stops)
<1>1. /\ Len(list) \in Nat /\ now \in Nat
      /\ \A i \in 1..Len(list) : slot[list[i]].deadline \in Nat
  BY WaitingFacts
<1>2. stops \in SUBSET Nat /\ stops # {}
  BY <1>1
<1>3. Expired = SubSeq(list, 1, n)
  BY DEF Expired
<1>4. n \in stops /\ \A x \in stops : n <= x
  <2> HIDE DEF stops
  <2> QED BY <1>2, LeastOf
<1> HIDE DEF n
<1>5. n \in 0..Len(list)
  BY <1>1, <1>4
<1>6. ASSUME NEW i \in 1..n
      PROVE  slot[list[i]].deadline <= now
  <2>1. i \in 1..Len(list) /\ i - 1 \in 0..(Len(list) - 1) /\ i - 1 < n /\ (i - 1) + 1 = i
    BY <1>1, <1>5
  <2>2. i - 1 \notin stops
    <3> HIDE DEF stops
    <3> QED BY <1>4, <1>5, <2>1
  <2> QED BY <1>1, <2>1, <2>2
<1> QED BY <1>3, <1>5, <1>6

(* How many of them become tasks: as many as there is room for.              *)
LEMMA RoomFor ==
  ASSUME NEW n \in Nat, NEW r \in Nat
  PROVE  Min({n, Max({r, 0})}) = IF n <= r THEN n ELSE r
<1>1. Max({r, 0}) = r
  <2>1. \A x \in {r, 0} : (\A y \in {r, 0} : x >= y) => x = r
    OBVIOUS
  <2>2. r \in {r, 0} /\ \A y \in {r, 0} : r >= y
    OBVIOUS
  <2> QED BY <2>1, <2>2 DEF Max
<1> DEFINE least == IF n <= r THEN n ELSE r
<1>2. \A x \in {n, r} : (\A y \in {n, r} : x <= y) => x = least
  OBVIOUS
<1>3. least \in {n, r} /\ \A y \in {n, r} : least <= y
  OBVIOUS
<1>4. Min({n, r}) = least
  <2> HIDE DEF least
  <2> QED BY <1>2, <1>3 DEF Min
<1> QED BY <1>1, <1>4

LEMMA RoomIs ==
  ASSUME TimersInv
  PROVE  /\ Room = TimerTasks - Len(tasks) - (IF taken.pc = "none" THEN 0 ELSE 1)
         /\ Room \in Nat
<1>1. taken = Nothing <=> taken.pc = "none"
  BY DEF TimersInv, TimerTypes, Nothing
<1>2. Len(tasks) \in Nat /\ TimerTasks \in Nat
  BY WaitingFacts
<1> QED BY <1>1, <1>2 DEF Room, TimersInv, TasksFit

(* timer_handle_interrupt takes n timers off the list: the first q become    *)
(* tasks, and the others are run, which they are only when no room is left.  *)
LEMMA InterruptShape ==
  ASSUME TimersInv, Interrupt
  PROVE  \E n, q \in 0..Len(list) :
           /\ q <= n /\ \A i \in 1..n : slot[list[i]].deadline <= now
           /\ q <= Room /\ (q < n => q = Room)
           /\ tasks' \in Seq(Slots) /\ Len(tasks') = Len(tasks) + q
           /\ \A i \in 1..Len(tasks) : tasks'[i] = tasks[i]
           /\ \A i \in 1..q : tasks'[Len(tasks) + i] = list[i]
           /\ list' \in Seq(Slots) /\ Len(list') = Len(list) - n
           /\ \A i \in 1..(Len(list) - n) : list'[i] = list[n + i]
           /\ slot' \in [Slots -> [used : BOOLEAN, deadline : Nat, message : Nat]]
           /\ \A s \in Slots : (\A i \in (q + 1)..n : list[i] # s) => slot'[s] = slot[s]
           /\ said' \in Seq(Nat) /\ Len(said') = Len(said) + (n - q)
           /\ \A i \in 1..Len(said) : said'[i] = said[i]
           /\ \A i \in 1..(n - q) : said'[Len(said) + i] = slot[list[q + i]].message
<1>1. PICK n \in 0..Len(list) :
        /\ Expired = SubSeq(list, 1, n)
        /\ \A i \in 1..n : slot[list[i]].deadline <= now
  BY ExpiredFirst
<1>2. /\ list \in Seq(Slots) /\ tasks \in Seq(Slots) /\ said \in Seq(Nat)
      /\ slot \in [Slots -> [used : BOOLEAN, deadline : Nat, message : Nat]]
      /\ Len(list) \in Nat /\ Len(tasks) \in Nat /\ Len(said) \in Nat /\ n \in Nat
      /\ \A i \in 1..Len(list) : list[i] \in Slots /\ slot[list[i]].message \in Nat
  BY <1>1, WaitingFacts DEF TimersInv, TimerTypes
<1>3. /\ Expired \in Seq(Slots) /\ Len(Expired) = n
      /\ \A i \in 1..n : Expired[i] = list[i]
  <2>1. 1 \in 1..(Len(list) + 1) /\ n \in (1 - 1)..Len(list)
    BY <1>1, <1>2
  <2>2. /\ SubSeq(list, 1, n) \in Seq(Slots) /\ Len(SubSeq(list, 1, n)) = n - 1 + 1
        /\ \A i \in 1..(n - 1 + 1) : SubSeq(list, 1, n)[i] = list[1 + i - 1]
    BY <1>2, <2>1, Slice
  <2>3. n - 1 + 1 = n /\ \A i \in 1..n : 1 + i - 1 = i
    BY <1>2
  <2> QED BY <1>1, <2>2, <2>3
<1>4. PICK q : q = Min({Len(Expired), Max({Room, 0})})
  OBVIOUS
<1>5. q \in 0..n /\ q <= Room /\ (q < n => q = Room)
  <2>1. Room \in Nat
    BY RoomIs
  <2>2. q = IF n <= Room THEN n ELSE Room
    BY <1>2, <1>3, <1>4, <2>1, RoomFor
  <2> QED BY <1>2, <2>1, <2>2
<1>6. PICK queued, direct :
        queued = SubSeq(Expired, 1, q) /\ direct = SubSeq(Expired, Len(queued) + 1, Len(Expired))
  OBVIOUS
<1>7. /\ list' = SubSeq(list, n + 1, Len(list)) /\ tasks' = tasks \o queued
      /\ slot' = [s \in Slots |-> IF s \in ToSet(direct)
                                  THEN [slot[s] EXCEPT !.used = FALSE, !.message = 0]
                                  ELSE slot[s]]
      /\ said' = said \o [i \in 1 .. Len(direct) |-> slot[direct[i]].message]
  BY <1>3, <1>4, <1>6 DEF Interrupt
<1>8. /\ queued \in Seq(Slots) /\ Len(queued) = q
      /\ \A i \in 1..q : queued[i] = list[i]
  <2>1. 1 \in 1..(Len(Expired) + 1) /\ q \in (1 - 1)..Len(Expired)
    BY <1>2, <1>3, <1>5
  <2>2. /\ SubSeq(Expired, 1, q) \in Seq(Slots) /\ Len(SubSeq(Expired, 1, q)) = q - 1 + 1
        /\ \A i \in 1..(q - 1 + 1) : SubSeq(Expired, 1, q)[i] = Expired[1 + i - 1]
    BY <1>3, <2>1, Slice
  <2>3. q - 1 + 1 = q /\ \A i \in 1..q : 1 + i - 1 = i /\ i \in 1..n
    BY <1>2, <1>5
  <2> QED BY <1>3, <1>6, <2>2, <2>3
<1>9. /\ direct \in Seq(Slots) /\ Len(direct) = n - q
      /\ \A i \in 1..(n - q) : direct[i] = list[q + i]
  <2>1. q + 1 \in 1..(Len(Expired) + 1) /\ n \in (q + 1 - 1)..Len(Expired)
    BY <1>2, <1>3, <1>5
  <2>2. /\ SubSeq(Expired, q + 1, n) \in Seq(Slots)
        /\ Len(SubSeq(Expired, q + 1, n)) = n - (q + 1) + 1
        /\ \A i \in 1..(n - (q + 1) + 1) : SubSeq(Expired, q + 1, n)[i] = Expired[(q + 1) + i - 1]
    BY <1>3, <2>1, Slice
  <2>3. /\ n - (q + 1) + 1 = n - q
        /\ \A i \in 1..(n - q) : (q + 1) + i - 1 = q + i /\ q + i \in 1..n
    BY <1>2, <1>5
  <2>4. direct = SubSeq(Expired, q + 1, n)
    BY <1>3, <1>6, <1>8
  <2> QED BY <1>3, <2>2, <2>3, <2>4
<1>10. /\ tasks' \in Seq(Slots) /\ Len(tasks') = Len(tasks) + q
       /\ \A i \in 1..Len(tasks) : tasks'[i] = tasks[i]
       /\ \A i \in 1..q : tasks'[Len(tasks) + i] = list[i]
  <2>1. /\ tasks \o queued \in Seq(Slots) /\ Len(tasks \o queued) = Len(tasks) + Len(queued)
        /\ \A i \in 1..Len(tasks) : (tasks \o queued)[i] = tasks[i]
        /\ \A i \in 1..Len(queued) : (tasks \o queued)[Len(tasks) + i] = queued[i]
    <3>1. tasks \in Seq(Slots) /\ queued \in Seq(Slots)
      BY <1>2, <1>8
    <3> QED BY <3>1, Joined
  <2> QED BY <1>7, <1>8, <2>1
<1>11. /\ list' \in Seq(Slots) /\ Len(list') = Len(list) - n
       /\ \A i \in 1..(Len(list) - n) : list'[i] = list[n + i]
  <2> DEFINE l == Len(list)
  <2>1. n + 1 \in 1..(Len(list) + 1) /\ l \in (n + 1 - 1)..Len(list)
    BY <1>2, <1>1
  <2> HIDE DEF l
  <2>2. /\ SubSeq(list, n + 1, l) \in Seq(Slots)
        /\ Len(SubSeq(list, n + 1, l)) = l - (n + 1) + 1
        /\ \A i \in 1..(l - (n + 1) + 1) : SubSeq(list, n + 1, l)[i] = list[(n + 1) + i - 1]
    BY <1>2, <2>1, Slice
  <2>3. /\ l - (n + 1) + 1 = l - n /\ l = Len(list)
        /\ \A i \in 1..(l - n) : (n + 1) + i - 1 = n + i
    BY <1>2 DEF l
  <2> QED BY <1>7, <2>2, <2>3
<1>12. \A s \in Slots : (\A i \in (q + 1)..n : list[i] # s) => s \notin ToSet(direct)
  <2> SUFFICES ASSUME NEW s \in Slots, s \in ToSet(direct)
               PROVE  \E i \in (q + 1)..n : list[i] = s
    OBVIOUS
  <2>1. PICK i \in 1..(n - q) : direct[i] = s
    BY <1>9, Shape
  <2>2. q + i \in (q + 1)..n
    BY <1>2, <1>5
  <2> QED BY <1>9, <2>1, <2>2
<1>13. /\ slot' \in [Slots -> [used : BOOLEAN, deadline : Nat, message : Nat]]
       /\ \A s \in Slots : (\A i \in (q + 1)..n : list[i] # s) => slot'[s] = slot[s]
  <2>1. ASSUME NEW s \in Slots
        PROVE  [slot[s] EXCEPT !.used = FALSE, !.message = 0] \in
                 [used : BOOLEAN, deadline : Nat, message : Nat]
    BY <1>2
  <2>2. \A s \in Slots : (\A i \in (q + 1)..n : list[i] # s) => slot'[s] = slot[s]
    BY <1>7, <1>12
  <2>3. slot' \in [Slots -> [used : BOOLEAN, deadline : Nat, message : Nat]]
    BY <1>2, <1>7, <2>1
  <2> QED BY <2>2, <2>3
<1>14. /\ said' \in Seq(Nat) /\ Len(said') = Len(said) + (n - q)
       /\ \A i \in 1..Len(said) : said'[i] = said[i]
       /\ \A i \in 1..(n - q) : said'[Len(said) + i] = slot[list[q + i]].message
  <2> DEFINE new == [i \in 1 .. Len(direct) |-> slot[direct[i]].message]
  <2>1. new \in Seq(Nat) /\ Len(new) = n - q
    <3>1. n - q \in Nat
      BY <1>2, <1>5
    <3>2. \A i \in 1..(n - q) : q + i \in 1..Len(list)
      BY <1>1, <1>2, <1>5
    <3>3. new \in [1..(n - q) -> Nat]
      BY <1>2, <1>9, <3>2
    <3> HIDE DEF new
    <3>4. new \in Seq(Nat)
      BY <3>1, <3>3
    <3> QED BY <3>1, <3>3, <3>4, LenProperties
  <2>2. \A i \in 1..(n - q) : new[i] = slot[list[q + i]].message
    BY <1>9
  <2>3. said' = said \o new
    BY <1>7
  <2> HIDE DEF new
  <2>4. /\ said \o new \in Seq(Nat) /\ Len(said \o new) = Len(said) + Len(new)
        /\ \A i \in 1..Len(said) : (said \o new)[i] = said[i]
        /\ \A i \in 1..Len(new) : (said \o new)[Len(said) + i] = new[i]
    <3>1. said \in Seq(Nat) /\ new \in Seq(Nat)
      BY <1>2, <2>1
    <3> QED BY <3>1, Joined
  <2> QED BY <2>1, <2>2, <2>3, <2>4
<1>15. q \in 0..Len(list) /\ q <= n
  BY <1>2, <1>5
<1> QED BY <1>1, <1>15, <1>5, <1>10, <1>11, <1>13, <1>14

LEMMA InterruptInv ==
  ASSUME TimersInv, Interrupt
  PROVE  TimersInv'
<1>1. PICK n \in 0..Len(list), q \in 0..Len(list) :
        /\ q <= n /\ \A i \in 1..n : slot[list[i]].deadline <= now
        /\ q <= Room /\ (q < n => q = Room)
        /\ tasks' \in Seq(Slots) /\ Len(tasks') = Len(tasks) + q
        /\ \A i \in 1..Len(tasks) : tasks'[i] = tasks[i]
        /\ \A i \in 1..q : tasks'[Len(tasks) + i] = list[i]
        /\ list' \in Seq(Slots) /\ Len(list') = Len(list) - n
        /\ \A i \in 1..(Len(list) - n) : list'[i] = list[n + i]
        /\ slot' \in [Slots -> [used : BOOLEAN, deadline : Nat, message : Nat]]
        /\ \A s \in Slots : (\A i \in (q + 1)..n : list[i] # s) => slot'[s] = slot[s]
        /\ said' \in Seq(Nat) /\ Len(said') = Len(said) + (n - q)
        /\ \A i \in 1..Len(said) : said'[i] = said[i]
        /\ \A i \in 1..(n - q) : said'[Len(said) + i] = slot[list[q + i]].message
  BY InterruptShape
<1>2. now' = now /\ taken' = taken /\ asked' = asked
  BY DEF Interrupt
<1>3. PICK T, L : T = Len(tasks) /\ L = Len(list)
  OBVIOUS
<1>4. /\ T \in Nat /\ L \in Nat /\ n \in Nat /\ q \in Nat /\ q <= n /\ n <= L
      /\ Len(asked) \in Nat /\ Len(said) \in Nat
      /\ \A i \in 1..T : tasks[i] \in Slots
      /\ \A i \in 1..L : list[i] \in Slots
  BY <1>1, <1>3, WaitingFacts
<1>b. /\ Len(tasks') = T + q /\ Len(list') = L - n /\ Len(said') = Len(said) + (n - q)
      /\ \A i \in 1..T : tasks'[i] = tasks[i]
  BY <1>1, <1>3
<1>5. ASSUME NEW i \in 1..T
      PROVE  slot'[tasks[i]] = slot[tasks[i]]
  <2>1. \A j \in (q + 1)..n : j \in 1..L
    BY <1>4
  <2>2. \A j \in (q + 1)..n : list[j] # tasks[i]
    BY <1>3, <2>1, Apart
  <2> QED BY <1>1, <1>4, <2>2
<1>6. ASSUME NEW i \in 1..L, i <= q \/ i > n
      PROVE  slot'[list[i]] = slot[list[i]]
  <2>1. \A j \in (q + 1)..n : j \in 1..L /\ j # i
    BY <1>4, <1>6
  <2>2. \A j \in (q + 1)..n : list[j] # list[i]
    BY <1>3, <2>1, Apart
  <2> QED BY <1>1, <1>4, <2>2
<1>7. ASSUME NEW i \in 1..Len(tasks')
      PROVE  \/ i \in 1..T /\ tasks'[i] = tasks[i]
             \/ \E k \in 1..q : i = T + k /\ k \in 1..L /\ tasks'[i] = list[k]
  <2>1. CASE i <= T
    <3>1. i \in 1..T
      BY <1>4, <2>1
    <3> QED BY <1>1, <1>3, <3>1
  <2>2. CASE i > T
    <3>1. i - T \in 1..q /\ i = T + (i - T) /\ i - T \in 1..L
      BY <1>4, <1>b, <2>2
    <3>2. tasks'[T + (i - T)] = list[i - T]
      BY <1>1, <1>3, <3>1
    <3> QED BY <3>1, <3>2
  <2> QED BY <1>4, <2>1, <2>2
<1>8. ASSUME NEW i \in 1..Len(list')
      PROVE  n + i \in 1..L /\ n + i > n /\ list'[i] = list[n + i]
  BY <1>1, <1>3, <1>4
<1>9. /\ \A i \in 1..T : Held(tasks[i]) /\ slot[tasks[i]].deadline <= now
      /\ \A i \in 1..L : Held(list[i])
      /\ \A i, j \in 1..T : i < j => Sooner(tasks[i], tasks[j])
      /\ \A i, j \in 1..L : i < j => Sooner(list[i], list[j])
      /\ \A i \in 1..T, j \in 1..L : Sooner(tasks[i], list[j])
  BY <1>3 DEF TimersInv, Holding, InTurn
<1>10. ASSUME NEW u, slot'[u] = slot[u]
       PROVE  HeldAfter(u) <=> Held(u)
  BY <1>2, <1>10 DEF Held, HeldAfter
<1>11. \A m, k : BeforeAfter(m, k) <=> Before(m, k)
  BY <1>2 DEF Before, BeforeAfter
<1>12. ASSUME NEW u, NEW v, slot'[u] = slot[u], slot'[v] = slot[v], Sooner(u, v)
       PROVE  BeforeAfter(slot'[u].message, slot'[v].message)
  BY <1>11, <1>12 DEF Sooner
<1>13. TimerTypes'
  BY <1>1, <1>2 DEF TimersInv, TimerTypes
<1>14. ASSUME NEW i \in 1..Len(tasks')
       PROVE  HeldAfter(tasks'[i]) /\ slot'[tasks'[i]].deadline <= now
  <2>1. CASE i \in 1..T /\ tasks'[i] = tasks[i]
    BY <1>5, <1>9, <1>10, <2>1
  <2>2. ASSUME NEW k \in 1..q, k \in 1..L, tasks'[i] = list[k]
        PROVE  HeldAfter(tasks'[i]) /\ slot'[tasks'[i]].deadline <= now
    <3>1. k <= q /\ k \in 1..n
      BY <1>4
    <3>2. slot'[list[k]] = slot[list[k]] /\ slot[list[k]].deadline <= now
      BY <1>1, <1>6, <2>2, <3>1
    <3> QED BY <1>9, <1>10, <2>2, <3>2
  <2> QED BY <1>7, <2>1, <2>2
<1>15. ASSUME NEW i \in 1..Len(list')
       PROVE  HeldAfter(list'[i])
  BY <1>6, <1>8, <1>9, <1>10
<1>16. Holding'
  BY <1>2, <1>14, <1>15 DEF Holding, Held, HeldAfter
<1>17. ASSUME NEW i \in 1..Len(tasks'), NEW j \in 1..Len(tasks'), i < j
       PROVE  BeforeAfter(slot'[tasks'[i]].message, slot'[tasks'[j]].message)
  <2>1. CASE j \in 1..T /\ tasks'[j] = tasks[j]
    <3>1. i \in 1..T /\ tasks'[i] = tasks[i]
      BY <1>4, <1>b, <1>17, <2>1
    <3> QED BY <1>5, <1>9, <1>12, <1>17, <2>1, <3>1
  <2>2. ASSUME NEW k \in 1..q, j = T + k, k \in 1..L, tasks'[j] = list[k]
        PROVE  BeforeAfter(slot'[tasks'[i]].message, slot'[tasks'[j]].message)
    <3>1. slot'[list[k]] = slot[list[k]]
      BY <1>4, <1>6, <2>2
    <3>2. CASE i \in 1..T /\ tasks'[i] = tasks[i]
      BY <1>5, <1>9, <1>12, <2>2, <3>1, <3>2
    <3>3. ASSUME NEW l \in 1..q, i = T + l, l \in 1..L, tasks'[i] = list[l]
          PROVE  BeforeAfter(slot'[tasks'[i]].message, slot'[tasks'[j]].message)
      <4>1. l < k /\ slot'[list[l]] = slot[list[l]]
        BY <1>4, <1>6, <1>17, <2>2, <3>3
      <4> QED BY <1>9, <1>12, <2>2, <3>1, <3>3, <4>1
    <3> QED BY <1>7, <3>2, <3>3
  <2> QED BY <1>7, <2>1, <2>2
<1>18. ASSUME NEW i \in 1..Len(tasks'), NEW j \in 1..Len(list')
       PROVE  BeforeAfter(slot'[tasks'[i]].message, slot'[list'[j]].message)
  <2>1. slot'[list[n + j]] = slot[list[n + j]]
    BY <1>6, <1>8
  <2>2. CASE i \in 1..T /\ tasks'[i] = tasks[i]
    BY <1>5, <1>8, <1>9, <1>12, <2>1, <2>2
  <2>3. ASSUME NEW k \in 1..q, k \in 1..L, tasks'[i] = list[k]
        PROVE  BeforeAfter(slot'[tasks'[i]].message, slot'[list'[j]].message)
    <3>1. k < n + j /\ slot'[list[k]] = slot[list[k]]
      BY <1>1, <1>4, <1>6, <2>3
    <3> QED BY <1>8, <1>9, <1>12, <2>1, <2>3, <3>1
  <2> QED BY <1>7, <2>2, <2>3
<1>19. ASSUME NEW i \in 1..Len(list'), NEW j \in 1..Len(list'), i < j
       PROVE  BeforeAfter(slot'[list'[i]].message, slot'[list'[j]].message)
  <2>1. n + i < n + j
    BY <1>4, <1>19
  <2>2. /\ n + i \in 1..L /\ n + j \in 1..L
        /\ list'[i] = list[n + i] /\ list'[j] = list[n + j]
    BY <1>8
  <2>3. Sooner(list[n + i], list[n + j])
    BY <1>9, <2>1, <2>2
  <2>4. slot'[list[n + i]] = slot[list[n + i]] /\ slot'[list[n + j]] = slot[list[n + j]]
    BY <1>6, <1>8
  <2> QED BY <1>12, <2>2, <2>3, <2>4
<1>20. InTurn'
  BY <1>17, <1>18, <1>19 DEF InTurn, Sooner, Before, BeforeAfter
<1>21. TakenFirst'
  <2> SUFFICES ASSUME taken.pc # "none"
               PROVE  /\ taken.slot \in Slots /\ taken.message \in 1..Len(asked)
                      /\ asked[taken.message] <= now
                      /\ taken.pc \in {"free", "clear"} => ~slot'[taken.slot].used
                      /\ \A i \in 1..Len(tasks') : Before(taken.message, slot'[tasks'[i]].message)
                      /\ \A i \in 1..Len(list') : Before(taken.message, slot'[list'[i]].message)
    BY <1>2 DEF TakenFirst, Before
  <2>1. /\ taken.slot \in Slots /\ taken.message \in 1..Len(asked)
        /\ asked[taken.message] <= now
        /\ taken.pc \in {"free", "clear"} => ~slot[taken.slot].used
        /\ \A i \in 1..T : Before(taken.message, slot[tasks[i]].message)
        /\ \A i \in 1..L : Before(taken.message, slot[list[i]].message)
    BY <1>3 DEF TimersInv, TakenFirst
  <2>2. ASSUME taken.pc \in {"free", "clear"}
        PROVE  ~slot'[taken.slot].used
    <3>1. \A j \in (q + 1)..n : j \in 1..L
      BY <1>4
    <3>2. \A j \in (q + 1)..n : list[j] # taken.slot
      BY <1>9, <2>1, <2>2, <3>1 DEF Held
    <3> QED BY <1>1, <2>1, <2>2, <3>2
  <2>3. ASSUME NEW i \in 1..Len(tasks')
        PROVE  Before(taken.message, slot'[tasks'[i]].message)
    <3>1. ASSUME NEW k \in 1..q, k \in 1..L, tasks'[i] = list[k]
          PROVE  slot'[list[k]] = slot[list[k]]
      BY <1>4, <1>6, <3>1
    <3> QED BY <1>5, <1>7, <2>1, <3>1
  <2>4. ASSUME NEW i \in 1..Len(list')
        PROVE  Before(taken.message, slot'[list'[i]].message)
    BY <1>6, <1>8, <2>1
  <2> QED BY <2>1, <2>2, <2>3, <2>4
<1>22. Accounted'
  <2> SUFFICES ASSUME NEW m \in 1..Len(asked)
               PROVE  \/ \E k \in 1..Len(said') : said'[k] = m
                      \/ taken.pc # "none" /\ taken.message = m
                      \/ \E i \in 1..Len(tasks') : slot'[tasks'[i]].message = m
                      \/ \E i \in 1..Len(list') : slot'[list'[i]].message = m
    BY <1>2 DEF Accounted
  <2>1. \/ \E k \in 1..Len(said) : said[k] = m
        \/ taken.pc # "none" /\ taken.message = m
        \/ \E i \in 1..T : slot[tasks[i]].message = m
        \/ \E i \in 1..L : slot[list[i]].message = m
    BY <1>3 DEF TimersInv, Accounted
  <2>2. ASSUME NEW k \in 1..Len(said), said[k] = m
        PROVE  \E j \in 1..Len(said') : said'[j] = m
    <3>1. k \in 1..Len(said')
      BY <1>1, <1>4
    <3> QED BY <1>1, <2>2, <3>1
  <2>3. ASSUME NEW i \in 1..T, slot[tasks[i]].message = m
        PROVE  \E j \in 1..Len(tasks') : slot'[tasks'[j]].message = m
    <3>1. i \in 1..Len(tasks') /\ tasks'[i] = tasks[i]
      BY <1>1, <1>3, <1>4
    <3> QED BY <1>5, <2>3, <3>1
  <2>4. ASSUME NEW i \in 1..L, slot[list[i]].message = m
        PROVE  \/ \E k \in 1..Len(said') : said'[k] = m
               \/ \E j \in 1..Len(tasks') : slot'[tasks'[j]].message = m
               \/ \E j \in 1..Len(list') : slot'[list'[j]].message = m
    <3>1. CASE i <= q
      <4>1. T + i \in 1..Len(tasks') /\ tasks'[T + i] = list[i]
        BY <1>1, <1>3, <1>4, <3>1
      <4>2. slot'[list[i]] = slot[list[i]]
        BY <1>6, <3>1
      <4> QED BY <2>4, <4>1, <4>2
    <3>2. CASE i > n
      <4>1. i - n \in 1..Len(list') /\ n + (i - n) = i
        BY <1>1, <1>3, <1>4, <3>2
      <4>2. slot'[list[i]] = slot[list[i]]
        BY <1>6, <3>2
      <4>3. list'[i - n] = list[n + (i - n)]
        BY <1>8, <4>1
      <4> QED BY <2>4, <4>1, <4>2, <4>3
    <3>3. CASE i > q /\ i <= n
      <4>1. i - q \in 1..(n - q) /\ q + (i - q) = i /\ Len(said) + (i - q) \in 1..Len(said')
        BY <1>4, <1>b, <3>3
      <4>2. said'[Len(said) + (i - q)] = slot[list[q + (i - q)]].message
        BY <1>1, <4>1
      <4> QED BY <2>4, <4>1, <4>2
    <3> QED BY <1>4, <3>1, <3>2, <3>3
  <2> QED BY <2>1, <2>2, <2>3, <2>4
<1>23. TasksFit'
  <2>1. Room = TimerTasks - T - (IF taken.pc = "none" THEN 0 ELSE 1) /\ TimerTasks \in Nat
    BY <1>3, RoomIs, WaitingFacts
  <2>2. PICK r : r = Room
    OBVIOUS
  <2>3. q <= r
    BY <1>1, <2>2
  <2>4. T + q + (IF taken.pc = "none" THEN 0 ELSE 1) <= TimerTasks
    BY <1>4, <2>1, <2>2, <2>3
  <2> QED BY <1>2, <1>b, <2>4 DEF TasksFit
<1> QED BY <1>13, <1>16, <1>20, <1>21, <1>22, <1>23 DEF TimersInv

-----------------------------------------------------------------------------
(* The trampoline takes the first task and gives up its slot.                *)
LEMMA BeginInv ==
  ASSUME TimersInv, Begin
  PROVE  TimersInv'
<1>1. PICK s, m, T : s = Head(tasks) /\ m = slot[s].message /\ T = Len(tasks)
  OBVIOUS
<1>2. /\ taken = Nothing /\ tasks # <<>> /\ tasks' = Tail(tasks)
      /\ taken' = [pc |-> "free", slot |-> s, message |-> m]
      /\ slot' = [slot EXCEPT ![s].used = FALSE]
  BY <1>1 DEF Begin
<1>3. now' = now /\ list' = list /\ asked' = asked /\ said' = said
  BY DEF Begin
<1>4. /\ s = tasks[1] /\ T \in Nat /\ T > 0
      /\ tasks' \in Seq(Slots) /\ Len(tasks') = T - 1
      /\ \A i \in 1..(T - 1) : tasks'[i] = tasks[i + 1]
      /\ \A i \in 1..T : tasks[i] \in Slots
      /\ \A i \in 1..Len(list) : list[i] \in Slots
  <2>1. tasks \in Seq(Slots) /\ tasks # <<>>
    BY <1>2 DEF TimersInv, TimerTypes
  <2>2. /\ Head(tasks) = tasks[1] /\ Tail(tasks) \in Seq(Slots)
        /\ Len(Tail(tasks)) = Len(tasks) - 1 /\ Len(tasks) > 0
        /\ \A i \in 1..(Len(tasks) - 1) : Tail(tasks)[i] = tasks[i + 1]
    BY <2>1, HeadAndTail
  <2> QED BY <1>1, <1>2, <2>2, WaitingFacts
<1>5. s \in Slots /\ Held(s) /\ slot[s].deadline <= now /\ 1 \in 1..T
  <2>1. 1 \in 1..T
    BY <1>4
  <2> QED BY <1>1, <1>4, <2>1 DEF TimersInv, Holding
<1>6. /\ slot' \in [Slots -> [used : BOOLEAN, deadline : Nat, message : Nat]]
      /\ ~slot'[s].used
      /\ \A t \in Slots : t # s => slot'[t] = slot[t]
  BY <1>2, <1>5 DEF TimersInv, TimerTypes
<1>7. \A i \in 1..(T - 1) : /\ i + 1 \in 1..T /\ 1 < i + 1 /\ tasks'[i] = tasks[i + 1]
                            /\ slot'[tasks[i + 1]] = slot[tasks[i + 1]]
  <2> SUFFICES ASSUME NEW i \in 1..(T - 1)
               PROVE  /\ i + 1 \in 1..T /\ 1 < i + 1 /\ tasks'[i] = tasks[i + 1]
                      /\ slot'[tasks[i + 1]] = slot[tasks[i + 1]]
    OBVIOUS
  <2>1. i + 1 \in 1..T /\ 1 < i + 1 /\ i + 1 # 1
    BY <1>4
  <2>2. tasks[i + 1] # s
    BY <1>1, <1>4, <1>5, <2>1, Apart
  <2> QED BY <1>4, <1>6, <2>1, <2>2
<1>8. \A i \in 1..Len(list) : slot'[list[i]] = slot[list[i]]
  BY <1>1, <1>4, <1>5, <1>6, Apart
<1>9. /\ \A i \in 1..T : Held(tasks[i]) /\ slot[tasks[i]].deadline <= now
      /\ \A i \in 1..Len(list) : Held(list[i])
      /\ \A i, j \in 1..T : i < j => Sooner(tasks[i], tasks[j])
      /\ \A i, j \in 1..Len(list) : i < j => Sooner(list[i], list[j])
      /\ \A i \in 1..T, j \in 1..Len(list) : Sooner(tasks[i], list[j])
  BY <1>1 DEF TimersInv, Holding, InTurn
<1>10. ASSUME NEW u, slot'[u] = slot[u]
       PROVE  HeldAfter(u) <=> Held(u)
  BY <1>3, <1>10 DEF Held, HeldAfter
<1>11. \A k, l : BeforeAfter(k, l) <=> Before(k, l)
  BY <1>3 DEF Before, BeforeAfter
<1>12. ASSUME NEW u, NEW v, slot'[u] = slot[u], slot'[v] = slot[v], Sooner(u, v)
       PROVE  BeforeAfter(slot'[u].message, slot'[v].message)
  BY <1>11, <1>12 DEF Sooner
<1>13. TimerTypes'
  <2>1. m \in Nat
    BY <1>1, <1>5, WaitingFacts
  <2>2. /\ taken' \in [pc : {"none", "free", "clear", "call"},
                       slot : Slots \cup {0}, message : Nat]
        /\ taken'.pc = "free"
    BY <1>2, <1>5, <2>1
  <2> QED BY <1>3, <1>4, <1>6, <2>2 DEF TimersInv, TimerTypes
<1>14. Holding'
  <2>1. \A i \in 1..(T - 1) : HeldAfter(tasks'[i]) /\ slot'[tasks'[i]].deadline <= now
    BY <1>7, <1>9, <1>10
  <2>2. \A i \in 1..Len(list) : HeldAfter(list[i])
    BY <1>8, <1>9, <1>10
  <2> QED BY <1>3, <1>4, <2>1, <2>2 DEF Holding, Held, HeldAfter
<1>15. InTurn'
  <2>1. ASSUME NEW i \in 1..(T - 1), NEW j \in 1..(T - 1), i < j
        PROVE  BeforeAfter(slot'[tasks'[i]].message, slot'[tasks'[j]].message)
    <3>1. i + 1 < j + 1
      BY <1>4, <2>1
    <3> QED BY <1>7, <1>9, <1>12, <3>1
  <2>2. ASSUME NEW i \in 1..(T - 1), NEW j \in 1..Len(list)
        PROVE  BeforeAfter(slot'[tasks'[i]].message, slot'[list[j]].message)
    BY <1>7, <1>8, <1>9, <1>12
  <2>3. ASSUME NEW i \in 1..Len(list), NEW j \in 1..Len(list), i < j
        PROVE  BeforeAfter(slot'[list[i]].message, slot'[list[j]].message)
    BY <1>8, <1>9, <1>12, <2>3
  <2> QED BY <1>3, <1>4, <2>1, <2>2, <2>3 DEF InTurn, Sooner, Before, BeforeAfter
<1>16. TakenFirst'
  <2>1. m \in 1..Len(asked) /\ asked[m] <= now
    BY <1>1, <1>5 DEF Held
  <2>2. \A i \in 1..(T - 1) : BeforeAfter(m, slot'[tasks'[i]].message)
    BY <1>1, <1>4, <1>5, <1>7, <1>9, <1>11 DEF Sooner
  <2>3. \A i \in 1..Len(list) : BeforeAfter(m, slot'[list[i]].message)
    BY <1>1, <1>4, <1>5, <1>8, <1>9, <1>11 DEF Sooner
  <2>4. taken'.slot = s /\ taken'.message = m
    BY <1>2
  <2> QED BY <1>3, <1>4, <1>5, <1>6, <2>1, <2>2, <2>3, <2>4 DEF TakenFirst, Before, BeforeAfter
<1>17. Accounted'
  <2> SUFFICES ASSUME NEW k \in 1..Len(asked)
               PROVE  \/ \E i \in 1..Len(said) : said[i] = k
                      \/ k = m
                      \/ \E i \in 1..(T - 1) : slot'[tasks'[i]].message = k
                      \/ \E i \in 1..Len(list) : slot'[list[i]].message = k
    <3>1. taken'.pc # "none" /\ taken'.message = m
      BY <1>2
    <3> QED BY <1>3, <1>4, <3>1 DEF Accounted
  <2>1. \/ \E i \in 1..Len(said) : said[i] = k
        \/ \E i \in 1..T : slot[tasks[i]].message = k
        \/ \E i \in 1..Len(list) : slot[list[i]].message = k
    <3>1. taken.pc = "none"
      BY <1>2 DEF Nothing
    <3> QED BY <1>1, <3>1 DEF TimersInv, Accounted
  <2>2. ASSUME NEW i \in 1..T, slot[tasks[i]].message = k
        PROVE  k = m \/ \E j \in 1..(T - 1) : slot'[tasks'[j]].message = k
    <3>1. CASE i = 1
      BY <1>1, <1>4, <2>2, <3>1
    <3>2. CASE i # 1
      <4>1. i - 1 \in 1..(T - 1) /\ (i - 1) + 1 = i
        BY <1>4, <3>2
      <4>2. tasks'[i - 1] = tasks[i] /\ slot'[tasks[i]] = slot[tasks[i]]
        BY <1>7, <4>1
      <4> QED BY <2>2, <4>1, <4>2
    <3> QED BY <3>1, <3>2
  <2> QED BY <1>8, <2>1, <2>2
<1>18. TasksFit'
  <2>1. taken.pc = "none" /\ taken'.pc = "free"
    BY <1>2 DEF Nothing
  <2> QED BY <1>1, <1>4, <2>1, TimersAssumption DEF TimersInv, TasksFit
<1> QED BY <1>13, <1>14, <1>15, <1>16, <1>17, <1>18 DEF TimersInv

(* It clears a slot that nothing waits in, as long as none is taken then.    *)
LEMMA ClearCallbackInv ==
  ASSUME TimersInv, ClearCallback
  PROVE  TimersInv'
<1>1. PICK s : s = taken.slot
  OBVIOUS
<1>2. /\ taken.pc = "free" /\ slot' = [slot EXCEPT ![s].message = 0]
      /\ taken' = [taken EXCEPT !.pc = "clear"]
  BY <1>1 DEF ClearCallback
<1>3. now' = now /\ list' = list /\ tasks' = tasks /\ asked' = asked /\ said' = said
  BY DEF ClearCallback
<1>4. /\ s \in Slots /\ ~slot[s].used /\ taken.message \in 1..Len(asked)
      /\ asked[taken.message] <= now
      /\ \A i \in 1..Len(tasks) : Before(taken.message, slot[tasks[i]].message)
      /\ \A i \in 1..Len(list) : Before(taken.message, slot[list[i]].message)
  BY <1>1, <1>2 DEF TimersInv, TakenFirst
<1>5. /\ taken'.pc = "clear" /\ taken'.slot = s /\ taken'.message = taken.message
      /\ taken' \in [pc : {"none", "free", "clear", "call"},
                     slot : Slots \cup {0}, message : Nat]
  BY <1>1, <1>2, <1>4 DEF TimersInv, TimerTypes
<1>6. /\ slot' \in [Slots -> [used : BOOLEAN, deadline : Nat, message : Nat]]
      /\ ~slot'[s].used
      /\ \A t \in Slots : t # s => slot'[t] = slot[t]
  BY <1>2, <1>4 DEF TimersInv, TimerTypes
<1>7. /\ \A i \in 1..Len(tasks) : tasks[i] \in Slots /\ tasks[i] # s
      /\ \A i \in 1..Len(list) : list[i] \in Slots /\ list[i] # s
  BY <1>4, WaitingFacts DEF TimersInv, Holding, Held
<1>8. /\ \A i \in 1..Len(tasks) : slot'[tasks[i]] = slot[tasks[i]]
      /\ \A i \in 1..Len(list) : slot'[list[i]] = slot[list[i]]
  BY <1>6, <1>7
<1>9. TimerTypes'
  BY <1>3, <1>5, <1>6 DEF TimersInv, TimerTypes
<1>10. Holding'
  BY <1>3, <1>8 DEF TimersInv, Holding, Held
<1>11. InTurn'
  <2>1. \A k, l : BeforeAfter(k, l) <=> Before(k, l)
    BY <1>3 DEF Before, BeforeAfter
  <2>2. /\ \A i, j \in 1..Len(tasks) :
              i < j => BeforeAfter(slot'[tasks[i]].message, slot'[tasks[j]].message)
        /\ \A i, j \in 1..Len(list) :
              i < j => BeforeAfter(slot'[list[i]].message, slot'[list[j]].message)
        /\ \A i \in 1..Len(tasks), j \in 1..Len(list) :
              BeforeAfter(slot'[tasks[i]].message, slot'[list[j]].message)
    BY <1>8, <2>1 DEF TimersInv, InTurn, Sooner
  <2> QED BY <1>3, <2>2 DEF InTurn, Sooner, Before, BeforeAfter
<1>12. TakenFirst'
  BY <1>3, <1>4, <1>5, <1>6, <1>8 DEF TakenFirst, Before
<1>13. Accounted'
  <2>1. taken.pc # "none" /\ taken'.pc # "none"
    BY <1>2, <1>5
  <2> SUFFICES ASSUME NEW m \in 1..Len(asked)
               PROVE  \/ \E k \in 1..Len(said) : said[k] = m
                      \/ taken.message = m
                      \/ \E i \in 1..Len(tasks) : slot'[tasks[i]].message = m
                      \/ \E i \in 1..Len(list) : slot'[list[i]].message = m
    BY <1>3, <1>5, <2>1 DEF Accounted
  <2>2. \/ \E k \in 1..Len(said) : said[k] = m
        \/ taken.message = m
        \/ \E i \in 1..Len(tasks) : slot[tasks[i]].message = m
        \/ \E i \in 1..Len(list) : slot[list[i]].message = m
    BY DEF TimersInv, Accounted
  <2> QED BY <1>8, <2>2
<1>14. TasksFit'
  BY <1>2, <1>3, <1>5 DEF TimersInv, TasksFit
<1> QED BY <1>9, <1>10, <1>11, <1>12, <1>13, <1>14 DEF TimersInv

LEMMA ClearNextInv ==
  ASSUME TimersInv, ClearNext
  PROVE  TimersInv'
<1>1. /\ taken.pc = "clear" /\ taken' = [taken EXCEPT !.pc = "call"]
  BY DEF ClearNext
<1>2. now' = now /\ slot' = slot /\ tasks' = tasks /\ asked' = asked /\ said' = said
  BY DEF ClearNext
<1>3. list' = list
  <2>1. taken.slot \in Slots /\ ~slot[taken.slot].used
    BY <1>1 DEF TimersInv, TakenFirst
  <2>2. taken.slot \notin ToSet(list)
    BY <2>1, WaitingFacts DEF TimersInv, Holding, Held
  <2> QED BY <2>2 DEF ClearNext, UpTo
<1>4. /\ taken'.pc = "call" /\ taken'.slot = taken.slot /\ taken'.message = taken.message
      /\ taken' \in [pc : {"none", "free", "clear", "call"},
                     slot : Slots \cup {0}, message : Nat]
  BY <1>1 DEF TimersInv, TimerTypes
<1>5. TimerTypes'
  BY <1>2, <1>3, <1>4 DEF TimersInv, TimerTypes
<1>6. Holding' /\ InTurn'
  BY <1>2, <1>3 DEF TimersInv, Holding, Held, InTurn, Sooner, Before
<1>7. TakenFirst'
  BY <1>1, <1>2, <1>3, <1>4 DEF TimersInv, TakenFirst, Before
<1>8. Accounted'
  BY <1>1, <1>2, <1>3, <1>4 DEF TimersInv, Accounted
<1>9. TasksFit'
  BY <1>1, <1>2, <1>4 DEF TimersInv, TasksFit
<1> QED BY <1>5, <1>6, <1>7, <1>8, <1>9 DEF TimersInv

(* The callback prints the message.                                          *)
LEMMA CallShape ==
  ASSUME TimersInv, Call
  PROVE  /\ taken.pc = "call" /\ taken' = Nothing /\ taken'.pc = "none"
         /\ taken.message \in 1..Len(asked) /\ asked[taken.message] <= now
         /\ said' \in Seq(Nat) /\ Len(said') = Len(said) + 1
         /\ said'[Len(said) + 1] = taken.message
         /\ \A i \in 1..Len(said) : said'[i] = said[i]
<1>1. taken.pc = "call" /\ taken' = Nothing /\ taken'.pc = "none"
  BY DEF Call, Nothing
<1>2. taken.message \in 1..Len(asked) /\ asked[taken.message] <= now
  BY <1>1 DEF TimersInv, TakenFirst
<1>3. said' = Append(said, taken.message) /\ said \in Seq(Nat) /\ taken.message \in Nat
  BY <1>2, WaitingFacts DEF Call, TimersInv, TimerTypes
<1>4. PICK m : m = taken.message
  OBVIOUS
<1>5. said \in Seq(Nat) /\ m \in Nat
  BY <1>3, <1>4
<1>6. /\ Append(said, m) \in Seq(Nat) /\ Len(Append(said, m)) = Len(said) + 1
      /\ \A i \in 1..Len(said) : Append(said, m)[i] = said[i]
      /\ Append(said, m)[Len(said) + 1] = m
  BY <1>5, AppendProperties
<1> QED BY <1>1, <1>2, <1>3, <1>4, <1>6

LEMMA CallInv ==
  ASSUME TimersInv, Call
  PROVE  TimersInv'
<1>1. /\ taken.pc = "call" /\ taken' = Nothing /\ taken'.pc = "none"
      /\ said' \in Seq(Nat) /\ Len(said') = Len(said) + 1
      /\ said'[Len(said) + 1] = taken.message
      /\ \A i \in 1..Len(said) : said'[i] = said[i]
  BY CallShape
<1>2. now' = now /\ slot' = slot /\ list' = list /\ tasks' = tasks /\ asked' = asked
  BY DEF Call
<1>3. TimerTypes'
  BY <1>1, <1>2 DEF TimersInv, TimerTypes, Nothing
<1>4. Holding' /\ InTurn'
  BY <1>2 DEF TimersInv, Holding, Held, InTurn, Sooner, Before
<1>5. TakenFirst'
  BY <1>1 DEF TakenFirst
<1>6. Accounted'
  <2>1. Len(said) \in Nat /\ Len(said) + 1 \in 1..Len(said') /\ \A k \in 1..Len(said) : k \in 1..Len(said')
    BY <1>1, WaitingFacts
  <2> SUFFICES ASSUME NEW m \in 1..Len(asked)
               PROVE  \/ \E k \in 1..Len(said') : said'[k] = m
                      \/ \E i \in 1..Len(tasks) : slot[tasks[i]].message = m
                      \/ \E i \in 1..Len(list) : slot[list[i]].message = m
    BY <1>2 DEF Accounted
  <2>2. \/ \E k \in 1..Len(said) : said[k] = m
        \/ taken.message = m
        \/ \E i \in 1..Len(tasks) : slot[tasks[i]].message = m
        \/ \E i \in 1..Len(list) : slot[list[i]].message = m
    BY DEF TimersInv, Accounted
  <2>3. (\E k \in 1..Len(said) : said[k] = m) => \E k \in 1..Len(said') : said'[k] = m
    BY <1>1, <2>1
  <2>4. taken.message = m => \E k \in 1..Len(said') : said'[k] = m
    BY <1>1, <2>1
  <2> QED BY <2>2, <2>3, <2>4
<1>7. TasksFit'
  <2>1. Len(tasks) \in Nat /\ TimerTasks \in Nat
    BY WaitingFacts
  <2> QED BY <1>1, <1>2, <2>1 DEF TimersInv, TasksFit
<1> QED BY <1>3, <1>4, <1>5, <1>6, <1>7 DEF TimersInv

(* Time goes on.                                                             *)
LEMMA TimersStay ==
  ASSUME TimersInv, now' \in Nat, now <= now',
         slot' = slot, list' = list, tasks' = tasks, taken' = taken,
         asked' = asked, said' = said
  PROVE  TimersInv'
<1>1. TimerTypes'
  BY DEF TimersInv, TimerTypes
<1>2. Holding'
  <2>1. /\ now \in Nat
        /\ \A i \in 1..Len(tasks) : slot[tasks[i]].deadline \in Nat
    BY WaitingFacts
  <2>2. \A i \in 1..Len(tasks) : slot[tasks[i]].deadline <= now'
    BY <2>1 DEF TimersInv, Holding
  <2> QED BY <2>2 DEF TimersInv, Holding, Held
<1>3. InTurn'
  BY DEF TimersInv, InTurn, Sooner, Before
<1>4. TakenFirst'
  <2>1. taken.pc # "none" => asked[taken.message] <= now'
    <3>1. now \in Nat /\ \A m \in 1..Len(asked) : asked[m] \in Nat
      BY WaitingFacts
    <3> QED BY <3>1 DEF TimersInv, TakenFirst
  <2> QED BY <2>1 DEF TimersInv, TakenFirst, Before
<1>5. Accounted' /\ TasksFit'
  BY DEF TimersInv, Accounted, TasksFit
<1> QED BY <1>1, <1>2, <1>3, <1>4, <1>5 DEF TimersInv

LEMMA TimersStepInv ==
  ASSUME ~Overlap
  PROVE  TimersInv /\ [TimersNext]_timerVars => TimersInv'
<1> SUFFICES ASSUME TimersInv, [TimersNext]_timerVars PROVE TimersInv'
  OBVIOUS
<1>1. now \in Nat
  BY WaitingFacts
<1>2. CASE Tick
  BY <1>1, <1>2, TimersStay DEF Tick
<1>3. CASE Interrupt
  BY <1>3, InterruptInv
<1>4. CASE Begin
  BY <1>4, BeginInv
<1>5. CASE ClearCallback
  BY <1>5, ClearCallbackInv
<1>6. CASE ClearNext
  BY <1>6, ClearNextInv
<1>7. CASE Call
  BY <1>7, CallInv
<1>8. ASSUME NEW delay \in Delays, AddTimer(delay) PROVE TimersInv'
  BY <1>8, AddTimerInv
<1>9. ASSUME NEW enabled \in BOOLEAN, SetPeriodic(enabled) PROVE TimersInv'
  <2>1. /\ now' = now /\ slot' = slot /\ list' = list /\ tasks' = tasks /\ taken' = taken
        /\ asked' = asked /\ said' = said
    BY <1>9 DEF SetPeriodic
  <2> QED BY <1>1, <2>1, TimersStay
<1>10. CASE UNCHANGED timerVars
  <2>1. /\ now' = now /\ slot' = slot /\ list' = list /\ tasks' = tasks /\ taken' = taken
        /\ asked' = asked /\ said' = said
    BY <1>10 DEF timerVars
  <2> QED BY <1>1, <2>1, TimersStay
<1> QED BY <1>2, <1>3, <1>4, <1>5, <1>6, <1>7, <1>8, <1>9, <1>10 DEF TimersNext

-----------------------------------------------------------------------------
(* What is printed by a step: by a callback one message, by an interrupt     *)
(* those for which no room was left.                                         *)
LEMMA PrintedBy ==
  ASSUME TimersInv, [TimersNext]_timerVars
  PROVE  said' = said \/ Call \/ Interrupt
<1>1. /\ Tick => said' = said
      /\ Begin => said' = said
      /\ ClearCallback => said' = said
      /\ ClearNext => said' = said
  BY DEF Tick, Begin, ClearCallback, ClearNext
<1>2. ASSUME NEW delay, AddTimer(delay) PROVE said' = said
  BY <1>2 DEF AddTimer
<1>3. ASSUME NEW enabled, SetPeriodic(enabled) PROVE said' = said
  BY <1>3 DEF SetPeriodic
<1>4. UNCHANGED timerVars => said' = said
  BY DEF timerVars
<1> QED BY <1>1, <1>2, <1>3, <1>4 DEF TimersNext

LEMMA NoneEarly ==
  ASSUME TimersInv, [TimersNext]_timerVars
  PROVE  \A k \in 1..Len(said') : k > Len(said) => asked[said'[k]] <= now
<1> SUFFICES ASSUME NEW k \in 1..Len(said'), k > Len(said)
             PROVE  asked[said'[k]] <= now
  OBVIOUS
<1>1. Len(said) \in Nat /\ said' # said
  <2>1. Len(said) \in Nat
    BY WaitingFacts
  <2>2. said' = said => Len(said') = Len(said)
    OBVIOUS
  <2> QED BY <2>1, <2>2
<1>2. CASE Call
  <2>1. /\ asked[taken.message] <= now /\ Len(said') = Len(said) + 1
        /\ said'[Len(said) + 1] = taken.message
    BY <1>2, CallShape
  <2>2. k = Len(said) + 1
    BY <1>1, <2>1
  <2> QED BY <2>1, <2>2
<1>3. CASE Interrupt
  <2>1. PICK n \in 0..Len(list), q \in 0..Len(list) :
          /\ q <= n /\ \A i \in 1..n : slot[list[i]].deadline <= now
          /\ Len(said') = Len(said) + (n - q)
          /\ \A i \in 1..(n - q) : said'[Len(said) + i] = slot[list[q + i]].message
    BY <1>3, InterruptShape
  <2>2. k - Len(said) \in 1..(n - q) /\ Len(said) + (k - Len(said)) = k
    BY <1>1, <2>1
  <2>3. PICK i \in 1..(n - q) : said'[k] = slot[list[q + i]].message
    BY <2>1, <2>2
  <2>4. q + i \in 1..n /\ q + i \in 1..Len(list)
    BY <2>1, WaitingFacts
  <2>5. Held(list[q + i])
    BY <2>4 DEF TimersInv, Holding
  <2> QED BY <2>1, <2>3, <2>4, <2>5 DEF Held
<1> QED BY <1>1, <1>2, <1>3, PrintedBy

LEMMA NoneOutOfTurn ==
  ASSUME TimersInv, [TimersNext]_timerVars
  PROVE  \A k \in Len(said) + 1 .. Len(said') :
           \A m \in 1 .. Len(asked) :
             Before(m, said'[k]) /\ m \notin ToSet(SubSeq(said', 1, k - 1))
             => Room' = 0
<1> SUFFICES ASSUME NEW k \in Len(said) + 1 .. Len(said'), NEW m \in 1..Len(asked),
                    Before(m, said'[k]), m \notin ToSet(SubSeq(said', 1, k - 1))
             PROVE  Room' = 0
  OBVIOUS
<1>1. Len(said) \in Nat /\ said' # said
  <2>1. Len(said) \in Nat
    BY WaitingFacts
  <2>2. said' = said => Len(said') = Len(said)
    OBVIOUS
  <2> QED BY <2>1, <2>2
<1>2. CASE Call
  <2>1. /\ taken.pc = "call" /\ said' \in Seq(Nat)
        /\ taken.message \in 1..Len(asked) /\ Len(said') = Len(said) + 1
        /\ said'[Len(said) + 1] = taken.message
        /\ \A i \in 1..Len(said) : said'[i] = said[i]
    BY <1>2, CallShape
  <2>2. k = Len(said) + 1 /\ k - 1 = Len(said) /\ said'[k] = taken.message
    BY <1>1, <2>1
  <2>3. m # taken.message
    BY <2>1, <2>2, NotBeforeItself
  <2>4. \A i \in 1..Len(said) : said[i] # m
    <3>1. PICK b : b = Len(said)
      OBVIOUS
    <3>2. /\ said' \in Seq(Nat) /\ 1 \in 1..(Len(said') + 1) /\ b \in (1 - 1)..Len(said')
      BY <1>1, <2>1, <3>1
    <3>3. /\ SubSeq(said', 1, b) \in Seq(Nat) /\ Len(SubSeq(said', 1, b)) = b - 1 + 1
          /\ \A i \in 1..(b - 1 + 1) : SubSeq(said', 1, b)[i] = said'[1 + i - 1]
      BY <3>2, Slice
    <3>4. b - 1 + 1 = b /\ \A i \in 1..b : 1 + i - 1 = i
      BY <1>1, <3>1
    <3>5. \A i \in 1..b : SubSeq(said', 1, b)[i] = said[i]
      BY <2>1, <3>1, <3>3, <3>4
    <3>6. ToSet(SubSeq(said', 1, b)) = {SubSeq(said', 1, b)[i] : i \in 1..b}
      BY <3>3, <3>4, Shape
    <3>7. m \notin ToSet(SubSeq(said', 1, b))
      BY <2>2, <3>1
    <3> QED BY <3>1, <3>5, <3>6, <3>7
  <2>5. \/ \E i \in 1..Len(tasks) : slot[tasks[i]].message = m
        \/ \E i \in 1..Len(list) : slot[list[i]].message = m
    BY <2>3, <2>4 DEF TimersInv, Accounted
  <2>6. Before(taken.message, m)
    BY <2>1, <2>5 DEF TimersInv, TakenFirst
  <2>7. asked[m] \in Nat /\ asked[taken.message] \in Nat /\ m \in Int /\ taken.message \in Int
    BY <2>1, WaitingFacts
  <2> QED BY <2>2, <2>6, <2>7 DEF Before
<1>3. CASE Interrupt
  <2>1. PICK n \in 0..Len(list), q \in 0..Len(list) :
          /\ q <= n /\ (q < n => q = Room)
          /\ Len(tasks') = Len(tasks) + q
          /\ Len(said') = Len(said) + (n - q)
    BY <1>3, InterruptShape
  <2>2. q = Room
    BY <1>1, <2>1
  <2>3. Room' = TimerTasks - Len(tasks') - (IF taken.pc = "none" THEN 0 ELSE 1)
    <3>1. taken' = taken
      BY <1>3 DEF Interrupt
    <3>2. taken = Nothing <=> taken.pc = "none"
      BY DEF TimersInv, TimerTypes, Nothing
    <3> QED BY <3>1, <3>2 DEF Room
  <2>4. /\ q = TimerTasks - Len(tasks) - (IF taken.pc = "none" THEN 0 ELSE 1)
        /\ Len(tasks) \in Nat /\ TimerTasks \in Nat
    BY <2>2, RoomIs, WaitingFacts
  <2> QED BY <2>1, <2>3, <2>4
<1> QED BY <1>1, <1>2, <1>3, PrintedBy

(* As long as no timeout is asked for while an expired one's slot is         *)
(* cleared, the messages of setTimeout come neither before their time nor    *)
(* before that of a timeout that is due earlier, unless that one waits for   *)
(* the task queue and the queue is full.                                     *)
THEOREM PrintedWhenDue ==
  ASSUME ~Overlap
  PROVE  TimersSpec => PrintedInOrder
<1>1. TimersSpec => []TimersInv
  BY TimersInitInv, TimersStepInv, PTL DEF TimersSpec
<1> DEFINE Timely == \A k \in 1..Len(said') : k > Len(said) => asked[said'[k]] <= now
           Orderly == \A k \in Len(said) + 1 .. Len(said') :
                        \A m \in 1 .. Len(asked) :
                          Before(m, said'[k]) /\ m \notin ToSet(SubSeq(said', 1, k - 1))
                          => Room' = 0
<1>2. TimersInv /\ [TimersNext]_timerVars => [Timely]_timerVars /\ [Orderly]_timerVars
  BY NoneEarly, NoneOutOfTurn
<1> HIDE DEF Timely, Orderly
<1>3. TimersSpec => [][Timely]_timerVars /\ [][Orderly]_timerVars
  BY <1>1, <1>2, PTL DEF TimersSpec
<1> QED BY <1>3 DEF PrintedInOrder, NotEarly, InOrder, Timely, Orderly
=============================================================================
