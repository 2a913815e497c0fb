---------------------------- MODULE ConsoleProofs ----------------------------
(***************************************************************************)
(* The console.  Its lines (LineOwner) stay whole for any number of        *)
(* processes, whoever their parents are.  The strengthening: a living      *)
(* process with text of uart_write on the unfinished line has begun that   *)
(* line and owns it.  A second one, for those that wait for the line: a    *)
(* living owner that is not about to write has begun a line.               *)
(*                                                                         *)
(* Its driver (Uart) keeps every character and its order, for rings of     *)
(* any size, and nobody waits with interrupts off for room that does not   *)
(* come.  The argument: a ring is a queue (Contents), however it wraps;    *)
(* what the hardware is fed leaves in front of what it holds               *)
(* (FeedCarries).  So each step moves characters between the two ends      *)
(* without reordering them, provided the rings are empty for as long as    *)
(* they are bypassed (Bypassed).  And a print with interrupts off starts   *)
(* with an empty ring and has the ring to itself (HasRoom).  A text in     *)
(* user memory is sent past a ring that holds only what its own faults     *)
(* have printed (OwnRing).                                                 *)
(*                                                                         *)
(* The shell that reads it (Shell) runs the line the terminal shows, and   *)
(* keeps no memory of a timeout that is over: beside the two statements,   *)
(* only the types and that no two timeouts share a block are needed.       *)
(***************************************************************************)
EXTENDS LineOwner, Uart, Shell, SequenceTheorems, FiniteSetTheorems, TLAPS

-----------------------------------------------------------------------------
(* Lines.                                                                    *)
Owned == \A p \in Procs : line = p /\ Alive(p) => owner = p
Begun == \A p \in tail : Alive(p) => line = p
NotYet == \A p \in Procs : state[p] = "unused" => line # p /\ p \notin tail
UnusedOwnsNothing == \A p \in Procs : state[p] = "unused" => owner # p
IInv == TypeOK /\ Owned /\ Begun /\ NotYet /\ tail \subseteq Procs \cup {NoProc}

LEMMA InitIInv == LineInit => IInv /\ HeldForItsLine
BY LineOwnerAssumption
DEF LineInit, IInv, TypeOK, Owned, Begun, NotYet, HeldForItsLine, Alive

(* What giving the line up does: only the owner can.                         *)
LEMMA ReleaseOwn ==
  ASSUME NEW p, owner \in Procs \cup {NoProc}
  PROVE  /\ Release(p) \in Procs \cup {NoProc}
         /\ \A q : q # p /\ owner = q => Release(p) = q
BY DEF Release

LEMMA PrintIInv ==
  ASSUME IInv, NEW p \in Procs, NEW whole \in BOOLEAN, WriteText(p, whole)
  PROVE  IInv' /\ (HeldForItsLine => HeldForItsLine')
<1>1. /\ state[p] = "printing" /\ state' = [state EXCEPT ![p] = "running"]
      /\ owner' = OwnerAfter(p, whole) /\ line' = (IF whole THEN NoProc ELSE p)
      /\ tail' = (IF whole THEN {} ELSE tail \cup {p})
      /\ UNCHANGED child /\ owner = p
  BY DEF WriteText, IInv, TypeOK
<1>2. owner' = IF whole THEN NoProc ELSE p
  BY <1>1 DEF OwnerAfter, Release
<1>3. TypeOK'
  BY <1>1, <1>2 DEF IInv, TypeOK
<1>4. Owned' /\ NotYet' /\ tail' \subseteq Procs \cup {NoProc}
  BY <1>1, <1>2, LineOwnerAssumption DEF IInv, TypeOK, Owned, NotYet, Alive
<1>5. Begun'
  <2>1. ASSUME NEW q \in tail, q # p
        PROVE  ~Alive(q)
    BY <1>1, <2>1 DEF IInv, Owned, Begun, Alive
  <2> QED BY <1>1, <2>1 DEF IInv, TypeOK, Begun, Alive
<1>6. HeldForItsLine'
  BY <1>1, <1>2, LineOwnerAssumption DEF HeldForItsLine, Alive
<1> QED BY <1>3, <1>4, <1>5, <1>6 DEF IInv

LEMMA TakeIInv ==
  ASSUME IInv, NEW p \in Procs, Take(p)
  PROVE  IInv' /\ (HeldForItsLine => HeldForItsLine')
<1>1. /\ state[p] = "asking" /\ Takes(p)
      /\ state' = [state EXCEPT ![p] = "printing"]
      /\ owner' = p /\ UNCHANGED <<child, line, tail>>
  BY DEF Take
<1>2. ASSUME NEW q \in Procs, q # p, owner = q
      PROVE  state[q] \in {"unused", "dead"}
  BY <1>1, <1>2, LineOwnerAssumption DEF Takes, Alive
<1>3. TypeOK'
  BY <1>1, <1>2 DEF IInv, TypeOK
<1>4. Owned' /\ NotYet'
  BY <1>1, <1>2 DEF IInv, TypeOK, Owned, NotYet, Alive
<1>5. Begun' /\ tail' \subseteq Procs \cup {NoProc}
  BY <1>1 DEF IInv, TypeOK, Begun, Alive
<1>6. HeldForItsLine'
  BY <1>1 DEF HeldForItsLine, IInv, TypeOK
<1> QED BY <1>3, <1>4, <1>5, <1>6 DEF IInv

(* A process that ends, whether it gives the line up or not, and whatever it *)
(* has printed of its text.                                                  *)
LEMMA EndIInv ==
  ASSUME IInv, NEW p \in Procs,
         state' = [state EXCEPT ![p] = "dead"],
         owner' = Release(p) \/ owner' = owner,
         line' = line \/ (line' = p /\ owner = p),
         tail' \in {tail, {}, tail \cup {p}, tail \cup {NoProc}},
         UNCHANGED child
  PROVE  IInv' /\ (HeldForItsLine => HeldForItsLine')
<1>1. /\ owner' \in Procs \cup {NoProc}
      /\ \A q : q # p /\ owner = q => owner' = q
      /\ \A q : q # p /\ owner' = q => (q = NoProc \/ owner = q)
  BY ReleaseOwn DEF IInv, TypeOK, Release
<1>2. TypeOK'
  BY <1>1 DEF IInv, TypeOK
<1>3. Owned' /\ NotYet'
  BY <1>1, LineOwnerAssumption DEF IInv, TypeOK, Owned, NotYet, Alive
<1>4. Begun' /\ tail' \subseteq Procs \cup {NoProc}
  <2>1. ASSUME NEW q \in tail', Alive(q)'
        PROVE  line' = q
    <3>1. q \in Procs /\ q # p /\ Alive(q) /\ q \in tail
      BY <2>1 DEF IInv, TypeOK, Alive
    <3>2. line = q /\ owner = q
      BY <3>1 DEF IInv, Begun, Owned
    <3> QED BY <3>1, <3>2
  <2> QED BY <2>1 DEF IInv, Begun
<1>5. ASSUME HeldForItsLine
      PROVE  HeldForItsLine'
  <2>1. ASSUME NEW q \in Procs, owner' = q, Alive(q)'
        PROVE  state'[q] = "printing" \/ line' = q
    <3>1. q # p /\ owner = q /\ Alive(q) /\ state'[q] = state[q]
      BY <1>1, <2>1, LineOwnerAssumption DEF IInv, TypeOK, Alive
    <3> QED BY <1>5, <3>1 DEF HeldForItsLine
  <2> QED BY <2>1 DEF HeldForItsLine
<1> QED BY <1>2, <1>3, <1>4, <1>5 DEF IInv

LEMMA ReadIInv ==
  ASSUME IInv, NEW p \in Procs, ReadConsole(p)
  PROVE  IInv' /\ (HeldForItsLine => HeldForItsLine')
<1>1. /\ state[p] = "running" /\ owner' = Release(p)
      /\ line' = (IF line = p THEN NoProc ELSE line)
      /\ tail' = tail \ {p}
      /\ UNCHANGED <<state, child>>
  BY DEF ReadConsole
<1>2. /\ owner' \in Procs \cup {NoProc}
      /\ \A q : q # p /\ owner = q => owner' = q
  BY <1>1, ReleaseOwn DEF IInv, TypeOK
<1>3. TypeOK'
  BY <1>1, <1>2 DEF IInv, TypeOK
<1>4. Owned' /\ NotYet'
  BY <1>1, <1>2, LineOwnerAssumption DEF IInv, TypeOK, Owned, NotYet, Alive
<1>5. Begun' /\ tail' \subseteq Procs \cup {NoProc}
  BY <1>1 DEF IInv, TypeOK, Begun, Alive
<1>6. HeldForItsLine => HeldForItsLine'
  BY <1>1, LineOwnerAssumption DEF HeldForItsLine, Release, Alive
<1> QED BY <1>3, <1>4, <1>5, <1>6 DEF IInv

(* The steps that leave the line and its owner alone.                        *)
LEMMA QuietIInv ==
  ASSUME IInv, NEW p \in Procs, UNCHANGED <<owner, line, tail>>,
         state[p] \notin {"dead", "printing"},
         state[p] = "unused" => owner # p,
         \E s \in {"running", "asking", "waiting"} :
           state' = [state EXCEPT ![p] = s],
         child' \in [Procs -> Procs \cup {NoProc}]
  PROVE  IInv' /\ (HeldForItsLine => HeldForItsLine')
<1>1. TypeOK'
  BY DEF IInv, TypeOK
<1>2. Owned' /\ NotYet'
  BY DEF IInv, TypeOK, Owned, NotYet, Alive
<1>3. Begun' /\ tail' \subseteq Procs \cup {NoProc}
  BY DEF IInv, TypeOK, Begun, NotYet, Alive
<1>4. HeldForItsLine => HeldForItsLine'
  BY DEF IInv, TypeOK, HeldForItsLine, Alive
<1> QED BY <1>1, <1>2, <1>3, <1>4 DEF IInv

LEMMA DeviceIInv ==
  ASSUME IInv, NEW p \in Procs, NEW whole \in BOOLEAN, WriteDevice(p, whole)
  PROVE  IInv' /\ (HeldForItsLine => HeldForItsLine')
<1>1. /\ UNCHANGED <<state, child, owner, line>>
      /\ tail' = IF whole THEN {} ELSE tail \cup {NoProc}
  BY DEF WriteDevice
<1>2. TypeOK' /\ Owned' /\ (HeldForItsLine => HeldForItsLine')
  BY <1>1 DEF IInv, TypeOK, Owned, Alive, HeldForItsLine
<1>3. Begun' /\ NotYet' /\ tail' \subseteq Procs \cup {NoProc}
  BY <1>1, LineOwnerAssumption DEF IInv, Begun, NotYet, Alive
<1> QED BY <1>2, <1>3 DEF IInv

LEMMA NextIInv ==
  ASSUME IInv, HeldForItsLine, UnusedOwnsNothing, [LineNext]_lineVars
  PROVE  IInv' /\ HeldForItsLine' /\ UnusedOwnsNothing'
<1>1. CASE UNCHANGED lineVars
  BY <1>1
  DEF lineVars, IInv, TypeOK, Owned, Begun, NotYet, Alive, HeldForItsLine, UnusedOwnsNothing
<1>2. ASSUME NEW p \in Procs, NEW q \in Procs,
             Fork(p, q) \/ WaitFor(p, q) \/ Stop(p, q)
      PROVE  IInv' /\ HeldForItsLine'
  <2>1. child \in [Procs -> Procs \cup {NoProc}]
    BY DEF IInv, TypeOK
  <2>2. CASE Fork(p, q)
    BY <2>1, <2>2, QuietIInv DEF Fork, UnusedOwnsNothing
  <2>3. CASE WaitFor(p, q)
    <3>1. child' \in [Procs -> Procs \cup {NoProc}]
      BY <2>1, <2>3 DEF WaitFor
    <3> QED BY <2>3, <3>1, QuietIInv DEF WaitFor
  <2>4. CASE Stop(p, q)
    BY <2>4, EndIInv DEF Stop
  <2> QED BY <1>2, <2>2, <2>3, <2>4
<1>3. ASSUME NEW p \in Procs, Ask(p) \/ Awake(p)
      PROVE  IInv' /\ HeldForItsLine'
  <2>1. child' \in [Procs -> Procs \cup {NoProc}]
    BY <1>3 DEF Ask, Awake, IInv, TypeOK
  <2> QED BY <1>3, <2>1, QuietIInv DEF Ask, Awake
<1>4. ASSUME NEW p \in Procs, Exit(p) \/ Trap(p)
      PROVE  IInv' /\ HeldForItsLine'
  <2>1. CASE Exit(p)
    BY <2>1, EndIInv DEF Exit
  <2>2. CASE Trap(p)
    <3>1. /\ state' = [state EXCEPT ![p] = "dead"] /\ UNCHANGED <<child, owner>>
          /\ (line' = line \/ (line' = p /\ owner = p))
          /\ tail' \in {tail, {}, tail \cup {p}, tail \cup {NoProc}}
      BY <2>2 DEF Trap, IInv, TypeOK
    <3> QED BY <3>1, EndIInv
  <2> QED BY <1>4, <2>1, <2>2
<1>5. CASE LineNext
  <2>1. IInv' /\ HeldForItsLine'
    BY <1>2, <1>3, <1>4, <1>5, TakeIInv, ReadIInv, PrintIInv, DeviceIInv DEF LineNext
  <2>2. UnusedOwnsNothing'
    <3>1. ASSUME NEW p \in Procs, NEW s, s # "unused",
                 state' = [state EXCEPT ![p] = s] \/ state' = state,
                 owner' = owner \/ owner' = NoProc
          PROVE  UnusedOwnsNothing'
      BY <3>1, LineOwnerAssumption DEF UnusedOwnsNothing, IInv, TypeOK
    <3>2. ASSUME NEW p \in Procs, Take(p)
          PROVE  UnusedOwnsNothing'
      BY <3>2 DEF Take, UnusedOwnsNothing, IInv, TypeOK
    <3>3. ASSUME NEW p \in Procs,
                 Ask(p) \/ ReadConsole(p) \/ Awake(p) \/ Exit(p) \/ Trap(p)
          PROVE  UnusedOwnsNothing'
      BY <3>1, <3>3 DEF Ask, ReadConsole, Awake, Exit, Trap, Release
    <3>4. ASSUME NEW p \in Procs, NEW whole \in BOOLEAN,
                 WriteText(p, whole) \/ WriteDevice(p, whole)
          PROVE  UnusedOwnsNothing'
      BY <3>1, <3>4 DEF WriteText, WriteDevice, OwnerAfter, Release
    <3>5. ASSUME NEW p \in Procs, NEW q \in Procs,
                 Fork(p, q) \/ Stop(p, q) \/ WaitFor(p, q)
          PROVE  UnusedOwnsNothing'
      BY <3>1, <3>5 DEF Fork, Stop, WaitFor, Release
    <3> QED BY <1>5, <3>2, <3>3, <3>4, <3>5 DEF LineNext
  <2> QED BY <2>1, <2>2
<1> QED BY <1>1, <1>5

LEMMA AlwaysIInv == LineSpec => [](IInv /\ HeldForItsLine)
<1>1. LineInit => IInv /\ HeldForItsLine /\ UnusedOwnsNothing
  BY InitIInv, LineOwnerAssumption DEF LineInit, UnusedOwnsNothing
<1>2. IInv /\ HeldForItsLine /\ UnusedOwnsNothing /\ [LineNext]_lineVars
        => IInv' /\ HeldForItsLine' /\ UnusedOwnsNothing'
  BY NextIInv
<1> QED BY <1>1, <1>2, PTL DEF LineSpec

-----------------------------------------------------------------------------
(* A process that has been given the line has it until it has written.       *)
THEOREM LineHeld == LineSpec => []TypeOK
<1>1. IInv => TypeOK
  BY DEF IInv
<1> QED BY <1>1, AlwaysIInv, PTL

(* The beginning of a line that a process has written by uart_write is       *)
(* continued by no other process's uart_write while its writer lives and has *)
(* not given it away (uart_wait_for_line_owner), for any set of processes    *)
(* and whatever is written to /dev/uart meanwhile.                           *)
THEOREM LinesStayWhole == LineSpec => []LineWhole
<1>1. IInv => LineWhole
  BY DEF IInv, Begun, LineWhole
<1> QED BY <1>1, AlwaysIInv, PTL

(* A living process that keeps the line from others is about to write or has *)
(* begun a line (syscall_uart_write, uart_wait_for_line_owner), however      *)
(* owners end or are ended.                                                  *)
THEOREM NoIdleOwner == LineSpec => []HeldForItsLine
BY AlwaysIInv, PTL

-----------------------------------------------------------------------------
(* The driver: what a ring holds.                                            *)
Slots == 0..(Size - 1)
RingOK(rb, S) ==
  /\ rb = [buf |-> rb.buf, head |-> rb.head, tail |-> rb.tail, count |-> rb.count]
  /\ DOMAIN rb.buf = Slots
  /\ rb.head \in Slots /\ rb.count \in 0..Size
  /\ rb.tail = Wrap(rb.head + rb.count)
  /\ \A i \in 1..rb.count : rb.buf[Wrap(rb.head + i - 1)] \in S

-----------------------------------------------------------------------------
(* Rings.                                                                    *)

LEMMA Turn ==
  ASSUME NEW x \in 0..(2 * Size - 1)
  PROVE  Wrap(x) = IF x < Size THEN x ELSE x - Size
<1>1. Size \in Nat \ {0}
  BY UartAssumption
<1>2. ASSUME NEW n \in Nat \ {0}, NEW y \in 0..(2 * n - 1)
      PROVE  y % n = IF y < n THEN y ELSE y - n
  OBVIOUS
<1> QED BY <1>1, <1>2 DEF Wrap

LEMMA Turns ==
  ASSUME NEW h \in Slots, NEW c \in 0..Size
  PROVE  /\ Size \in Nat \ {0}
         /\ Wrap(h + c) \in Slots
         /\ Wrap(h + c) = IF h + c < Size THEN h + c ELSE h + c - Size
<1>1. Size \in Nat \ {0}
  BY UartAssumption
<1>2. h + c \in 0..(2 * Size - 1)
  BY <1>1 DEF Slots
<1> QED BY <1>1, <1>2, Turn DEF Slots

(* How far slot k is behind slot f.                                          *)
LEMMA Behind ==
  ASSUME NEW f \in Slots, NEW k \in Slots
  PROVE  After(k, f) = IF k < f THEN k + Size - f ELSE k - f
<1>1. Size \in Nat \ {0}
  BY UartAssumption
<1>2. k + Size - f \in 0..(2 * Size - 1)
  BY <1>1 DEF Slots
<1> QED BY <1>1, <1>2, Turn DEF Slots, After

(* The slot of the i-th character of a ring whose head is slot h, and how    *)
(* far it is behind the head and behind the tail of c characters.            *)
LEMMA Slot ==
  ASSUME NEW h \in Slots, NEW c \in 0..Size, NEW i \in 1..Size
  PROVE  /\ Wrap(h + i - 1) \in Slots
         /\ After(Wrap(h + i - 1), h) = i - 1
         /\ After(Wrap(h + i - 1), Wrap(h + c))
              = IF i <= c THEN Size - c + i - 1 ELSE i - c - 1
<1>1. Size \in Nat \ {0} /\ h \in Int /\ h >= 0 /\ h < Size /\ c \in Int /\ i \in Int
  BY UartAssumption DEF Slots
<1>2. i - 1 \in 0..Size /\ h + (i - 1) = h + i - 1
  BY <1>1
<1>3. PICK k \in Slots : /\ k = Wrap(h + i - 1)
                         /\ k = IF h + i - 1 < Size THEN h + i - 1 ELSE h + i - 1 - Size
  BY <1>2, Turns
<1>4. PICK t \in Slots : /\ t = Wrap(h + c)
                         /\ t = IF h + c < Size THEN h + c ELSE h + c - Size
  BY Turns
<1>5. k \in Int /\ t \in Int
  BY <1>1, <1>3, <1>4 DEF Slots
<1>6. After(k, h) = i - 1
  <2>1. After(k, h) = IF k < h THEN k + Size - h ELSE k - h
    BY <1>3, Behind
  <2> QED BY <1>1, <1>3, <1>5, <2>1
<1>7. After(k, t) = IF i <= c THEN Size - c + i - 1 ELSE i - c - 1
  <2>1. After(k, t) = IF k < t THEN k + Size - t ELSE k - t
    BY <1>3, <1>4, Behind
  <2> QED BY <1>1, <1>3, <1>4, <1>5, <2>1
<1> QED BY <1>3, <1>4, <1>6, <1>7

LEMMA Holds ==
  ASSUME NEW S, NEW rb, RingOK(rb, S)
  PROVE  /\ Contents(rb) \in Seq(S) /\ Len(Contents(rb)) = rb.count
         /\ \A i \in 1..rb.count : Contents(rb)[i] = rb.buf[Wrap(rb.head + i - 1)]
         /\ Size \in Nat \ {0} /\ rb.count \in Nat /\ rb.count <= Size
<1>1. Size \in Nat \ {0} /\ rb.count \in Nat /\ rb.count <= Size
  BY UartAssumption DEF RingOK
<1>2. \A i \in 1..rb.count : rb.buf[Wrap(rb.head + i - 1)] \in S
  BY DEF RingOK
<1> QED BY <1>1, <1>2, IsASeq DEF Contents

LEMMA EmptyHolds ==
  ASSUME NEW S
  PROVE  RingOK(EmptyRing, S) /\ Contents(EmptyRing) = <<>>
<1>1. Size \in Nat \ {0} /\ 0 \in Slots /\ 0 \in 0..Size
  BY UartAssumption DEF Slots
<1>2. Wrap(0 + 0) = 0
  BY <1>1, Turns
<1> QED BY <1>1, <1>2 DEF EmptyRing, RingOK, Slots, Contents

(* Characters are appended ...                                               *)
LEMMA Pushed ==
  ASSUME NEW S, NEW rb, RingOK(rb, S),
         NEW s \in Seq(S), Len(s) <= Size - rb.count,
         NEW new, new = PushAll(rb, s)
  PROVE  RingOK(new, S) /\ Contents(new) = Contents(rb) \o s
<1>1. /\ Size \in Nat \ {0} /\ rb.count \in Nat /\ rb.count <= Size
      /\ rb.head \in Slots /\ Len(s) \in Nat /\ rb.tail = Wrap(rb.head + rb.count)
      /\ rb.tail \in Slots
  BY Turns, UartAssumption DEF RingOK
<1>2. /\ new.head = rb.head /\ new.count = rb.count + Len(s)
      /\ new.tail = Wrap(rb.tail + Len(s)) /\ DOMAIN new.buf = Slots
      /\ new = [buf |-> new.buf, head |-> new.head, tail |-> new.tail, count |-> new.count]
  BY DEF PushAll, Slots
<1>3. \A k \in Slots : new.buf[k] = IF After(k, rb.tail) < Len(s)
                                    THEN s[After(k, rb.tail) + 1] ELSE rb.buf[k]
  BY DEF PushAll, Slots
<1>4. new.tail = Wrap(rb.head + new.count)
  <2>1. Len(s) \in 0..Size /\ rb.count \in 0..Size /\ rb.count + Len(s) \in 0..Size
    BY <1>1
  <2>2. rb.tail = IF rb.head + rb.count < Size THEN rb.head + rb.count
                  ELSE rb.head + rb.count - Size
    BY <1>1, <2>1, Turns
  <2>3. Wrap(rb.tail + Len(s)) = IF rb.tail + Len(s) < Size THEN rb.tail + Len(s)
                                 ELSE rb.tail + Len(s) - Size
    BY <1>1, <2>1, Turns
  <2>4. Wrap(rb.head + (rb.count + Len(s)))
          = IF rb.head + (rb.count + Len(s)) < Size THEN rb.head + (rb.count + Len(s))
            ELSE rb.head + (rb.count + Len(s)) - Size
    BY <1>1, <2>1, Turns
  <2>5. rb.head \in Int /\ rb.head >= 0 /\ rb.head < Size
    BY <1>1 DEF Slots
  <2> QED BY <1>1, <1>2, <2>2, <2>3, <2>4, <2>5
<1>5. ASSUME NEW i \in 1..new.count
      PROVE  new.buf[Wrap(rb.head + i - 1)]
               = IF i <= rb.count THEN Contents(rb)[i] ELSE s[i - rb.count]
  <2>1. i \in 1..Size /\ rb.count \in 0..Size /\ i \in Int
    BY <1>1, <1>2
  <2>2. PICK k \in Slots :
          /\ k = Wrap(rb.head + i - 1)
          /\ After(k, rb.tail) = IF i <= rb.count THEN Size - rb.count + i - 1
                                 ELSE i - rb.count - 1
    BY <1>1, <2>1, Slot
  <2>3. CASE i <= rb.count
    <3>1. ~(After(k, rb.tail) < Len(s))
      BY <1>1, <2>1, <2>2, <2>3
    <3>2. Contents(rb)[i] = rb.buf[k]
      BY <2>1, <2>2, <2>3, Holds
    <3> QED BY <1>3, <2>2, <2>3, <3>1, <3>2
  <2>4. CASE ~(i <= rb.count)
    <3>1. After(k, rb.tail) = i - rb.count - 1
      BY <2>2, <2>4
    <3>2. i - rb.count - 1 < Len(s) /\ (i - rb.count - 1) + 1 = i - rb.count
      BY <1>1, <1>2, <2>1
    <3> QED BY <1>3, <2>2, <2>4, <3>1, <3>2
  <2> QED BY <2>3, <2>4
<1>6. ASSUME NEW i \in 1..new.count
      PROVE  new.buf[Wrap(rb.head + i - 1)] = (Contents(rb) \o s)[i]
  <2>1. (Contents(rb) \o s)[i] = IF i <= rb.count THEN Contents(rb)[i] ELSE s[i - rb.count]
    BY <1>2, Holds, ConcatProperties
  <2> QED BY <1>5, <2>1
<1>7. Contents(rb) \o s \in Seq(S) /\ Len(Contents(rb) \o s) = new.count
  BY <1>2, Holds, ConcatProperties, SMTT(30)
<1>8. RingOK(new, S)
  <2>1. \A i \in 1..new.count : new.buf[Wrap(new.head + i - 1)] \in S
    BY <1>2, <1>6, <1>7, ElementOfSeq
  <2>2. new.count \in 0..Size
    BY <1>1, <1>2
  <2> QED BY <1>1, <1>2, <1>4, <2>1, <2>2 DEF RingOK
<1>9. Contents(new) = Contents(rb) \o s
  <2>1. /\ Contents(new) \in Seq(S) /\ Len(Contents(new)) = new.count
        /\ \A i \in 1..new.count : Contents(new)[i] = new.buf[Wrap(new.head + i - 1)]
    BY <1>8, Holds
  <2>2. \A i \in 1..new.count : Contents(new)[i] = (Contents(rb) \o s)[i]
    BY <1>2, <1>6, <2>1
  <2> QED BY <1>7, <2>1, <2>2, SeqEqual
<1> QED BY <1>8, <1>9

(* ... one after the other, as rb_push does ...                              *)
LEMMA PushIsPushAll ==
  ASSUME NEW S, NEW rb, RingOK(rb, S), ~Full(rb), NEW c \in S
  PROVE  Push(rb, c) = PushAll(rb, <<c>>)
<1>1. /\ Size \in Nat \ {0} /\ rb.tail \in Slots /\ rb.count \in Nat
      /\ rb = [buf |-> rb.buf, head |-> rb.head, tail |-> rb.tail, count |-> rb.count]
      /\ DOMAIN rb.buf = Slots
  BY Turns, UartAssumption DEF RingOK
<1>2. \A k \in Slots : After(k, rb.tail) \in Nat /\ (After(k, rb.tail) < 1 <=> k = rb.tail)
  <2>1. SUFFICES ASSUME NEW k \in Slots
                 PROVE  After(k, rb.tail) \in Nat /\ (After(k, rb.tail) < 1 <=> k = rb.tail)
    OBVIOUS
  <2>2. After(k, rb.tail) = IF k < rb.tail THEN k + Size - rb.tail ELSE k - rb.tail
    BY <1>1, Behind
  <2> QED BY <1>1, <2>2 DEF Slots
<1>3. \A k \in Slots :
        (IF After(k, rb.tail) < 1 THEN <<c>>[After(k, rb.tail) + 1] ELSE rb.buf[k])
          = IF k = rb.tail THEN c ELSE rb.buf[k]
  <2>1. SUFFICES ASSUME NEW k \in Slots
                 PROVE  (IF After(k, rb.tail) < 1 THEN <<c>>[After(k, rb.tail) + 1]
                         ELSE rb.buf[k]) = IF k = rb.tail THEN c ELSE rb.buf[k]
    OBVIOUS
  <2>2. CASE k = rb.tail
    <3>1. After(k, rb.tail) = 0
      BY <1>2, <2>2
    <3> QED BY <2>2, <3>1
  <2>3. CASE k # rb.tail
    BY <1>2, <2>3
  <2> QED BY <2>2, <2>3
<1>4. Push(rb, c) = [buf |-> [rb.buf EXCEPT ![rb.tail] = c], head |-> rb.head,
                     tail |-> Wrap(rb.tail + 1), count |-> rb.count + 1]
  BY DEF Push
<1>5. [rb.buf EXCEPT ![rb.tail] = c] = [k \in Slots |-> IF k = rb.tail THEN c ELSE rb.buf[k]]
  BY <1>1
<1>6. PushAll(rb, <<c>>)
        = [buf |-> [k \in Slots |-> IF After(k, rb.tail) < 1 THEN <<c>>[After(k, rb.tail) + 1]
                                    ELSE rb.buf[k]],
           head |-> rb.head, tail |-> Wrap(rb.tail + 1), count |-> rb.count + 1]
  BY DEF PushAll, Slots
<1> QED BY <1>3, <1>4, <1>5, <1>6

(* ... and taken from the front.                                             *)
LEMMA Popped ==
  ASSUME NEW S, NEW rb, RingOK(rb, S), NEW n \in 0..rb.count,
         NEW new, new = PopN(rb, n)
  PROVE  /\ RingOK(new, S) /\ new.count = rb.count - n
         /\ Contents(new) = SubSeq(Contents(rb), n + 1, rb.count)
<1>1. /\ Size \in Nat \ {0} /\ rb.count \in Nat /\ rb.count <= Size
      /\ rb.head \in Slots /\ rb.tail = Wrap(rb.head + rb.count)
      /\ n \in Int /\ n >= 0 /\ n <= rb.count
  BY UartAssumption DEF RingOK
<1>2. /\ new.head = Wrap(rb.head + n) /\ new.count = rb.count - n
      /\ new.tail = rb.tail /\ DOMAIN new.buf = Slots
      /\ new = [buf |-> new.buf, head |-> new.head, tail |-> new.tail, count |-> new.count]
      /\ \A k \in Slots : new.buf[k] = IF After(k, rb.head) < n THEN NoChar ELSE rb.buf[k]
  BY DEF PopN, Slots
<1>3. /\ n \in 0..Size /\ new.count \in 0..Size /\ new.head \in Slots
      /\ new.head = IF rb.head + n < Size THEN rb.head + n ELSE rb.head + n - Size
  BY <1>1, <1>2, Turns
<1>4. rb.head \in Int /\ rb.head >= 0 /\ rb.head < Size
  BY <1>1 DEF Slots
<1>5. new.tail = Wrap(new.head + new.count)
  <2>1. rb.count \in 0..Size
    BY <1>1
  <2>2. rb.tail = IF rb.head + rb.count < Size THEN rb.head + rb.count
                  ELSE rb.head + rb.count - Size
    BY <1>1, <2>1, Turns
  <2>3. Wrap(new.head + new.count)
          = IF new.head + new.count < Size THEN new.head + new.count
            ELSE new.head + new.count - Size
    BY <1>3, Turns
  <2> QED BY <1>1, <1>2, <1>3, <1>4, <2>2, <2>3
<1>6. ASSUME NEW i \in 1..new.count
      PROVE  new.buf[Wrap(new.head + i - 1)] = Contents(rb)[i + n]
  <2>1. i \in Int /\ i \in 1..Size /\ i + n \in 1..rb.count /\ i + n \in 1..Size
    BY <1>1, <1>2
  <2>2. Wrap(new.head + i - 1) = Wrap(rb.head + (i + n) - 1)
    <3>1. PICK x \in 0..(2 * Size - 1) : x = new.head + i - 1
      BY <1>1, <1>3, <1>4, <2>1 DEF Slots
    <3>2. PICK y \in 0..(2 * Size - 1) : y = rb.head + (i + n) - 1
      BY <1>1, <1>3, <1>4, <2>1 DEF Slots
    <3>3. /\ Wrap(x) = IF x < Size THEN x ELSE x - Size
          /\ Wrap(y) = IF y < Size THEN y ELSE y - Size
      BY Turn
    <3>4. Wrap(x) = Wrap(y)
      BY <1>1, <1>3, <1>4, <2>1, <3>1, <3>2, <3>3
    <3> QED BY <3>1, <3>2, <3>4
  <2>3. PICK k \in Slots : k = Wrap(rb.head + (i + n) - 1) /\ After(k, rb.head) = i + n - 1
    <3>1. rb.head \in Slots /\ rb.count \in 0..Size
      BY <1>1
    <3>2. /\ Wrap(rb.head + (i + n) - 1) \in Slots
          /\ After(Wrap(rb.head + (i + n) - 1), rb.head) = i + n - 1
      BY <2>1, <3>1, Slot
    <3> QED BY <3>2
  <2>4. new.buf[k] = rb.buf[k]
    BY <1>1, <1>2, <2>1, <2>3
  <2>5. Contents(rb)[i + n] = rb.buf[k]
    BY <2>1, <2>3, Holds
  <2> QED BY <2>2, <2>3, <2>4, <2>5
<1>7. /\ SubSeq(Contents(rb), n + 1, rb.count) \in Seq(S)
      /\ Len(SubSeq(Contents(rb), n + 1, rb.count)) = new.count
      /\ \A i \in 1..new.count : SubSeq(Contents(rb), n + 1, rb.count)[i] = Contents(rb)[i + n]
  <2>1. \A i \in (n + 1)..rb.count : Contents(rb)[i] \in S
    <3>1. \A i \in (n + 1)..rb.count : i \in 1..Len(Contents(rb))
      BY <1>1, Holds
    <3> QED BY <3>1, Holds, ElementOfSeq
  <2>2. /\ SubSeq(Contents(rb), n + 1, rb.count) \in Seq(S)
        /\ Len(SubSeq(Contents(rb), n + 1, rb.count))
             = IF n + 1 <= rb.count THEN rb.count - (n + 1) + 1 ELSE 0
        /\ \A i \in 1..(rb.count - (n + 1) + 1) :
             SubSeq(Contents(rb), n + 1, rb.count)[i] = Contents(rb)[n + 1 + i - 1]
    BY <1>1, <2>1, SubSeqProperties
  <2>3. rb.count - (n + 1) + 1 = new.count
        /\ \A i \in 1..new.count : n + 1 + i - 1 = i + n
    BY <1>1, <1>2
  <2> QED BY <1>1, <1>2, <2>2, <2>3
<1>8. RingOK(new, S)
  <2>1. \A i \in 1..new.count : Contents(rb)[i + n] \in S
    BY <1>7, ElementOfSeq
  <2> QED BY <1>1, <1>2, <1>3, <1>5, <1>6, <2>1 DEF RingOK
<1>9. Contents(new) = SubSeq(Contents(rb), n + 1, rb.count)
  <2>1. /\ Contents(new) \in Seq(S) /\ Len(Contents(new)) = new.count
        /\ \A i \in 1..new.count : Contents(new)[i] = new.buf[Wrap(new.head + i - 1)]
    BY <1>8, Holds
  <2>2. \A i \in 1..new.count :
          Contents(new)[i] = SubSeq(Contents(rb), n + 1, rb.count)[i]
    BY <1>6, <1>7, <2>1
  <2> QED BY <1>7, <2>1, <2>2, SeqEqual
<1> QED BY <1>2, <1>8, <1>9

LEMMA PopIsPopN ==
  ASSUME NEW S, NEW rb, RingOK(rb, S)
  PROVE  Pop(rb) = PopN(rb, 1)
<1>1. /\ Size \in Nat \ {0} /\ rb.head \in Slots
      /\ rb = [buf |-> rb.buf, head |-> rb.head, tail |-> rb.tail, count |-> rb.count]
      /\ DOMAIN rb.buf = Slots
  BY UartAssumption DEF RingOK
<1>2. \A k \in Slots : After(k, rb.head) < 1 <=> k = rb.head
  <2>1. SUFFICES ASSUME NEW k \in Slots PROVE After(k, rb.head) < 1 <=> k = rb.head
    OBVIOUS
  <2>2. After(k, rb.head) = IF k < rb.head THEN k + Size - rb.head ELSE k - rb.head
    BY <1>1, Behind
  <2> QED BY <1>1, <2>2 DEF Slots
<1>3. Pop(rb) = [buf |-> [rb.buf EXCEPT ![rb.head] = NoChar], head |-> Wrap(rb.head + 1),
                 tail |-> rb.tail, count |-> rb.count - 1]
  BY DEF Pop
<1>4. [rb.buf EXCEPT ![rb.head] = NoChar]
        = [k \in Slots |-> IF After(k, rb.head) < 1 THEN NoChar ELSE rb.buf[k]]
  BY <1>1, <1>2
<1> QED BY <1>3, <1>4 DEF PopN, Slots

-----------------------------------------------------------------------------
(* Sequences.                                                                *)

(* The provers do better when they cannot look into \o.                     *)
Join(a, b) == a \o b
LEMMA Regroup ==
  ASSUME NEW S, NEW a \in Seq(S), NEW b \in Seq(S), NEW d \in Seq(S)
  PROVE  Join(Join(a, b), d) = Join(a, Join(b, d))
BY ConcatAssociative DEF Join

LEMMA Nothing ==
  ASSUME NEW S, NEW a \in Seq(S)
  PROVE  Join(<<>>, a) = a /\ Join(a, <<>>) = a
BY ConcatEmptySeq DEF Join

(* A sequence and its two halves.                                            *)
LEMMA Halves ==
  ASSUME NEW S, NEW q \in Seq(S), NEW a \in Seq(S), NEW b \in Seq(S), NEW n \in 0..Len(q),
         Len(a) = n, Len(b) = Len(q) - n,
         \A i \in 1..n : a[i] = q[i], \A i \in 1..(Len(q) - n) : b[i] = q[n + i]
  PROVE  Join(a, b) = q
<1> DEFINE ab == Join(a, b)
<1>1. Len(q) \in Nat /\ n \in Int /\ n >= 0 /\ n <= Len(q)
  BY LenProperties
<1>2. /\ ab \in Seq(S) /\ Len(ab) = Len(a) + Len(b)
      /\ \A i \in 1..(Len(a) + Len(b)) : ab[i] = IF i <= Len(a) THEN a[i] ELSE b[i - Len(a)]
  BY ConcatProperties DEF Join
<1> HIDE DEF ab
<1>3. Len(ab) = Len(q)
  BY <1>1, <1>2
<1>4. \A i \in 1..Len(ab) : ab[i] = q[i]
  BY <1>1, <1>2
<1>5. ab = q
  BY <1>2, <1>3, <1>4, SeqEqual
<1> QED BY <1>5 DEF ab

LEMMA Beginning ==
  ASSUME NEW S, NEW q \in Seq(S), NEW n \in 0..Len(q)
  PROVE  /\ SubSeq(q, 1, n) \in Seq(S) /\ Len(SubSeq(q, 1, n)) = n
         /\ \A i \in 1..n : SubSeq(q, 1, n)[i] = q[i]
<1>1. Len(q) \in Nat /\ n \in Int /\ n >= 0 /\ n <= Len(q)
  BY LenProperties
<1>2. \A i \in 1..n : q[i] \in S
  BY <1>1, ElementOfSeq
<1>3. /\ SubSeq(q, 1, n) \in Seq(S) /\ Len(SubSeq(q, 1, n)) = IF 1 <= n THEN n - 1 + 1 ELSE 0
      /\ \A i \in 1..(n - 1 + 1) : SubSeq(q, 1, n)[i] = q[1 + i - 1]
  BY <1>1, <1>2, SubSeqProperties
<1> QED BY <1>1, <1>3

LEMMA End ==
  ASSUME NEW S, NEW q \in Seq(S), NEW n \in 0..Len(q)
  PROVE  /\ SubSeq(q, n + 1, Len(q)) \in Seq(S)
         /\ Len(SubSeq(q, n + 1, Len(q))) = Len(q) - n
         /\ \A i \in 1..(Len(q) - n) : SubSeq(q, n + 1, Len(q))[i] = q[n + i]
<1>1. Len(q) \in Nat /\ n \in Int /\ n >= 0 /\ n <= Len(q)
  BY LenProperties
<1>2. \A i \in (n + 1)..Len(q) : q[i] \in S
  BY <1>1, ElementOfSeq
<1>3. /\ SubSeq(q, n + 1, Len(q)) \in Seq(S)
      /\ Len(SubSeq(q, n + 1, Len(q)))
           = IF n + 1 <= Len(q) THEN Len(q) - (n + 1) + 1 ELSE 0
      /\ \A i \in 1..(Len(q) - (n + 1) + 1) :
           SubSeq(q, n + 1, Len(q))[i] = q[n + 1 + i - 1]
  BY <1>1, <1>2, SubSeqProperties
<1> QED BY <1>1, <1>3

LEMMA SplitAt ==
  ASSUME NEW S, NEW q \in Seq(S), NEW n \in 0..Len(q)
  PROVE  /\ SubSeq(q, 1, n) \in Seq(S) /\ SubSeq(q, n + 1, Len(q)) \in Seq(S)
         /\ Len(SubSeq(q, 1, n)) = n /\ Len(SubSeq(q, n + 1, Len(q))) = Len(q) - n
         /\ Join(SubSeq(q, 1, n), SubSeq(q, n + 1, Len(q))) = q
<1>1. PICK a \in Seq(S) : /\ a = SubSeq(q, 1, n) /\ Len(a) = n
                          /\ \A i \in 1..n : a[i] = q[i]
  BY Beginning, ZenonT(30)
<1>2. PICK b \in Seq(S) : /\ b = SubSeq(q, n + 1, Len(q)) /\ Len(b) = Len(q) - n
                          /\ \A i \in 1..(Len(q) - n) : b[i] = q[n + i]
  <2>1. /\ SubSeq(q, n + 1, Len(q)) \in Seq(S)
        /\ Len(SubSeq(q, n + 1, Len(q))) = Len(q) - n
        /\ \A i \in 1..(Len(q) - n) : SubSeq(q, n + 1, Len(q))[i] = q[n + i]
    BY End
  <2> QED BY <2>1
<1>3. Join(a, b) = q
  BY <1>1, <1>2, Halves, ZenonT(30)
<1> QED BY <1>1, <1>2, <1>3

(* The beginning and the end of two sequences in a row.                      *)
LEMMA CutFirst ==
  ASSUME NEW S, NEW c \in Seq(S), NEW f \in Seq(S), NEW n \in 0..Len(f)
  PROVE  SubSeq(Join(c, f), 1, Len(c) + n) = Join(c, SubSeq(f, 1, n))
<1> DEFINE cf == Join(c, f)
           a == SubSeq(f, 1, n)
           ca == Join(c, a)
           first == SubSeq(cf, 1, Len(c) + n)
<1>1. Len(c) \in Nat /\ Len(f) \in Nat /\ n \in Int /\ n >= 0 /\ n <= Len(f)
  BY LenProperties
<1>2. /\ cf \in Seq(S) /\ Len(cf) = Len(c) + Len(f)
      /\ \A i \in 1..(Len(c) + Len(f)) : cf[i] = IF i <= Len(c) THEN c[i] ELSE f[i - Len(c)]
  BY ConcatProperties DEF Join
<1>3. a \in Seq(S) /\ Len(a) = n /\ \A i \in 1..n : a[i] = f[i]
  BY Beginning
<1> HIDE DEF cf, a
<1>4. /\ ca \in Seq(S) /\ Len(ca) = Len(c) + n
      /\ \A i \in 1..(Len(c) + n) : ca[i] = IF i <= Len(c) THEN c[i] ELSE a[i - Len(c)]
  BY <1>3, ConcatProperties DEF Join
<1>5. /\ first \in Seq(S) /\ Len(first) = Len(c) + n
      /\ \A i \in 1..(Len(c) + n) : first[i] = cf[i]
  <2>1. Len(c) + n \in 0..Len(cf)
    BY <1>1, <1>2
  <2> QED BY <1>2, <2>1, Beginning
<1> HIDE DEF ca, first
<1>6. ASSUME NEW i \in 1..(Len(c) + n)
      PROVE  first[i] = ca[i]
  <2>1. /\ i \in Int /\ i \in 1..(Len(c) + Len(f)) /\ first[i] = cf[i]
        /\ ca[i] = IF i <= Len(c) THEN c[i] ELSE a[i - Len(c)]
    BY <1>1, <1>4, <1>5
  <2>2. CASE i <= Len(c)
    BY <1>2, <2>1, <2>2
  <2>3. CASE ~(i <= Len(c))
    <3>1. i - Len(c) \in 1..n
      BY <1>1, <2>1, <2>3
    <3> QED BY <1>2, <1>3, <2>1, <2>3, <3>1
  <2> QED BY <2>2, <2>3
<1>7. first = ca
  BY <1>4, <1>5, <1>6, SeqEqual
<1> QED BY <1>7 DEF first, ca, cf, a

LEMMA CutLast ==
  ASSUME NEW S, NEW c \in Seq(S), NEW f \in Seq(S), NEW n \in 0..Len(f)
  PROVE  SubSeq(Join(c, f), Len(c) + n + 1, Len(Join(c, f))) = SubSeq(f, n + 1, Len(f))
<1> DEFINE cf == Join(c, f)
           b == SubSeq(f, n + 1, Len(f))
           last == SubSeq(cf, Len(c) + n + 1, Len(cf))
<1>1. Len(c) \in Nat /\ Len(f) \in Nat /\ n \in Int /\ n >= 0 /\ n <= Len(f)
  BY LenProperties
<1>2. /\ cf \in Seq(S) /\ Len(cf) = Len(c) + Len(f)
      /\ \A i \in 1..(Len(c) + Len(f)) : cf[i] = IF i <= Len(c) THEN c[i] ELSE f[i - Len(c)]
  BY ConcatProperties DEF Join
<1>3. /\ b \in Seq(S) /\ Len(b) = Len(f) - n
      /\ \A i \in 1..(Len(f) - n) : b[i] = f[n + i]
  BY End
<1> HIDE DEF cf, b
<1>4. /\ last \in Seq(S) /\ Len(last) = Len(f) - n
      /\ \A i \in 1..(Len(f) - n) : last[i] = cf[Len(c) + n + i]
  <2> DEFINE m == Len(c) + n
             rest == SubSeq(cf, m + 1, Len(cf))
  <2>1. m \in 0..Len(cf) /\ Len(cf) - m = Len(f) - n
    BY <1>1, <1>2
  <2> HIDE DEF m
  <2>2. /\ rest \in Seq(S) /\ Len(rest) = Len(cf) - m
        /\ \A i \in 1..(Len(cf) - m) : rest[i] = cf[m + i]
    BY <1>2, <2>1, End
  <2>3. last = rest
    BY DEF m
  <2> HIDE DEF rest, last
  <2>4. /\ last \in Seq(S) /\ Len(last) = Len(f) - n
        /\ \A i \in 1..(Len(f) - n) : last[i] = cf[m + i]
    BY <2>1, <2>2, <2>3
  <2> QED BY <2>4 DEF m
<1> HIDE DEF last
<1>5. ASSUME NEW i \in 1..(Len(f) - n)
      PROVE  last[i] = b[i]
  <2>1. Len(c) + n + i \in 1..(Len(c) + Len(f)) /\ ~(Len(c) + n + i <= Len(c))
        /\ (Len(c) + n + i) - Len(c) = n + i
    BY <1>1
  <2> QED BY <1>2, <1>3, <1>4, <2>1
<1>6. last = b
  BY <1>3, <1>4, <1>5, SeqEqual
<1> QED BY <1>6 DEF last, cf, b

(* uart_try_hw_putc_raw: the hardware sends what it held and all but the last. *)
LEMMA FeedCarries ==
  ASSUME NEW S, hold \in Seq(S), NEW s \in Seq(S), Feed(s)
  PROVE  /\ hold' \in Seq(S) /\ carried' \in Seq(S)
         /\ carried' \o hold' = hold \o s
<1> DEFINE all == hold \o s
<1>1. CASE s = <<>>
  <2>1. carried' = <<>> /\ hold' = hold
    BY <1>1 DEF Feed, Carries
  <2> QED BY <1>1, <2>1, ConcatEmptySeq, EmptySeq
<1>2. CASE s # <<>>
  <2>1. carried' = Front(all) /\ hold' = <<Last(all)>>
    BY <1>2 DEF Feed, Carries
  <2>2. all \in Seq(S) /\ Len(all) \in Nat /\ 1 <= Len(all)
    <3>1. all \in Seq(S) /\ Len(all) = Len(hold) + Len(s) /\ Len(s) \in Nat /\ Len(hold) \in Nat
      BY ConcatProperties, LenProperties
    <3>2. Len(s) # 0
      BY <1>2, EmptySeq
    <3> QED BY <3>1, <3>2
  <2> HIDE DEF all
  <2>3. Len(all) - 1 \in 0..Len(all) /\ Len(all) \in 1..Len(all) /\ 1 \in 1..Len(all)
    BY <2>2
  <2>4. Front(all) \in Seq(S)
    BY <2>2, <2>3, Beginning DEF Front
  <2>5. Last(all) \in S
    BY <2>2, <2>3, ElementOfSeq DEF Last
  <2>6. Front(all) \o <<Last(all)>> = all
    <3>1. SubSeq(all, 1, Len(all)) = SubSeq(all, 1, Len(all) - 1) \o <<all[Len(all)]>>
      BY <2>2, <2>3, SubSeqRecursiveSecond
    <3> QED BY <2>2, <3>1, SubSeqFull DEF Front, Last
  <2> QED BY <2>1, <2>4, <2>5, <2>6 DEF all
<1> QED BY <1>1, <1>2

-----------------------------------------------------------------------------
(* The invariant.                                                            *)

Chars == Writers \X Int
Types ==
  /\ irqMode \in BOOLEAN
  /\ RingOK(tx, Chars) /\ RingOK(rx, Input)
  /\ hold \in Seq(Chars) /\ fifo \in Seq(Input)
  /\ pc \in [Writers -> {"idle", "return", "put", "burst", "user", "fault", "there"}]
  /\ left \in 0..Burst /\ todo \in 0..Text

(* Until uart_irq_init the rings are not used.                               *)
Bypassed ==
  ~irqMode => /\ tx.count = 0 /\ rx.count = 0 /\ rounds = 0
              /\ \A w \in Writers : pc[w] = "idle"

(* Who prints with interrupts off has room for the rest of it, and nobody    *)
(* else has anything left to queue.                                          *)
OffStates == {"burst", "user", "fault", "there"}
HasRoom ==
  /\ \A w \in Writers : pc[w] \in OffStates <=> off = w
  /\ off # NoWriter => off \in Writers /\ tx.count + left <= Size
  /\ off = NoWriter => left = 0
  /\ \A w \in Writers : pc[w] \in {"user", "there"} => left = 0

(* While a text in user memory is written the ring holds what its faults     *)
(* have printed and nothing else.                                            *)
OwnRing ==
  \A w \in Writers : pc[w] \in {"user", "fault", "there"} => RingOK(tx, FaultChars(w))

UartInv == Types /\ Bypassed /\ HasRoom /\ OwnRing

OutStep ==
  irqMode' = irqMode =>
     \/ carried' \o Due' = Due \o said'
     \/ \E i \in 0..Len(Due) :
          /\ carried' \o Due' = SubSeq(Due, 1, i) \o said' \o SubSeq(Due, i + 1, Len(Due))
          /\ \A j \in (i + 1)..Len(Due) : Due[j] \in FaultChars(off)
InStep ==
  irqMode' = irqMode =>
     \/ got' \o Unread' = Unread
     \/ got' = <<>> /\ \E c \in Input : Unread' = Append(Unread, c)
     \/ got' = <<>> /\ \E i \in (Size + 1)..Len(Unread) : Unread' = RemoveAt(Unread, i)

LEMMA Sequences ==
  ASSUME UartInv
  PROVE  /\ Contents(tx) \in Seq(Chars) /\ Len(Contents(tx)) = tx.count
         /\ Contents(rx) \in Seq(Input) /\ Len(Contents(rx)) = rx.count
         /\ hold \in Seq(Chars) /\ fifo \in Seq(Input) /\ <<>> \in Seq(Chars)
         /\ Unread \in Seq(Input) /\ Len(Unread) = rx.count + Len(fifo)
         /\ tx.count \in Nat /\ tx.count <= Size /\ rx.count \in Nat /\ rx.count <= Size
         /\ Size \in Nat \ {0} /\ Len(fifo) \in Nat
<1>1. RingOK(tx, Chars) /\ RingOK(rx, Input) /\ hold \in Seq(Chars) /\ fifo \in Seq(Input)
  BY DEF UartInv, Types
<1>2. /\ Contents(tx) \in Seq(Chars) /\ Len(Contents(tx)) = tx.count
      /\ tx.count \in Nat /\ tx.count <= Size /\ Size \in Nat \ {0}
  BY <1>1, Holds
<1>3. /\ Contents(rx) \in Seq(Input) /\ Len(Contents(rx)) = rx.count
      /\ rx.count \in Nat /\ rx.count <= Size
  BY <1>1, Holds
<1>4. Unread \in Seq(Input) /\ Len(Unread) = Len(Contents(rx)) + Len(fifo)
  BY <1>1, <1>3, ConcatProperties DEF Unread
<1>5. <<>> \in Seq(Chars) /\ Len(fifo) \in Nat
  BY <1>1, EmptySeq, LenProperties
<1> QED BY <1>1, <1>2, <1>3, <1>4, <1>5

LEMMA NothingRead ==
  ASSUME UartInv, UNCHANGED rvars, got' = <<>>
  PROVE  InStep
<1>1. Unread' = Unread /\ Unread \in Seq(Input)
  BY Sequences DEF rvars, Unread
<1> QED BY <1>1, ConcatEmptySeq DEF InStep

LEMMA NothingSent ==
  ASSUME UartInv, UNCHANGED <<tx, hold>>, said' = <<>>, carried' = <<>>
  PROVE  OutStep
<1>1. Due' = Due /\ Due \in Seq(Chars)
  BY Sequences, ConcatProperties DEF Due
<1> QED BY <1>1, ConcatEmptySeq DEF OutStep

(* A step that sends x on, and of which s is accepted.                       *)
LEMMA Sent ==
  ASSUME UartInv, NEW s \in Seq(Chars), NEW x \in Seq(Chars),
         said' = s, carried' \in Seq(Chars), hold' \in Seq(Chars),
         Contents(tx') \in Seq(Chars),
         Join(carried', hold') = Join(hold, x),
         Join(x, Contents(tx')) = Join(Contents(tx), s)
  PROVE  OutStep
<1>1. Contents(tx) \in Seq(Chars) /\ hold \in Seq(Chars)
  BY Sequences
<1>2. Join(carried', Join(hold', Contents(tx'))) = Join(Join(hold, Contents(tx)), s)
  BY <1>1, Regroup
<1>3. Due' = Join(hold', Contents(tx')) /\ Due = Join(hold, Contents(tx))
  BY DEF Due, Join
<1>4. Join(carried', Due') = Join(Due, said')
  BY <1>2, <1>3
<1> QED BY <1>4 DEF OutStep, Join

-----------------------------------------------------------------------------
(* What the operators of the driver do.                                      *)

LEMMA Enqueued ==
  ASSUME UartInv, NEW c \in Chars, Enqueue(c)
  PROVE  /\ RingOK(tx', Chars) /\ tx'.count = tx.count + 1 /\ tx.count < Size
         /\ hold' = hold /\ got' = <<>> /\ OutStep
<1>1. /\ ~Full(tx) /\ tx' = Push(tx, c) /\ hold' = hold
      /\ said' = <<c>> /\ carried' = <<>> /\ got' = <<>>
  BY DEF Enqueue, Says, Carries, Reads
<1>2. /\ RingOK(tx, Chars) /\ tx.count < Size /\ tx.count \in Nat /\ Size \in Nat
      /\ Contents(tx) \in Seq(Chars) /\ hold \in Seq(Chars) /\ <<>> \in Seq(Chars)
  BY <1>1, Sequences DEF UartInv, Types, Full
<1>3. PICK s \in Seq(Chars) : s = <<c>> /\ Len(s) = 1
  <2>1. <<c>> \in Seq(Chars) /\ Len(<<c>>) = 1
    OBVIOUS
  <2> QED BY <2>1
<1>4. tx' = PushAll(tx, s)
  BY <1>1, <1>2, <1>3, PushIsPushAll
<1>5. RingOK(tx', Chars) /\ Contents(tx') = Contents(tx) \o s
  <2>1. Len(s) <= Size - tx.count
    BY <1>2, <1>3
  <2> QED BY <1>2, <1>4, <2>1, Pushed
<1>6. tx'.count = tx.count + 1
  BY <1>1 DEF Push
<1>7. Contents(tx') = Join(Contents(tx), s) /\ Contents(tx') \in Seq(Chars)
  BY <1>5, Holds DEF Join
<1>8. /\ Join(carried', hold') = Join(hold, <<>>)
      /\ Join(<<>>, Contents(tx')) = Join(Contents(tx), s)
  BY <1>1, <1>2, <1>7, Nothing
<1>9. OutStep
  BY <1>1, <1>2, <1>3, <1>7, <1>8, Sent
<1> QED BY <1>1, <1>2, <1>5, <1>6, <1>9

(* What is written past a ring that is not used.                             *)
LEMMA FedPast ==
  ASSUME UartInv, NEW s \in Seq(Chars), ~irqMode,
         Feed(s), said' = s, tx' = tx
  PROVE  OutStep /\ hold' \in Seq(Chars)
<1>1. /\ Contents(tx) \in Seq(Chars) /\ Len(Contents(tx)) = 0 /\ hold \in Seq(Chars)
  BY Sequences DEF UartInv, Bypassed
<1>2. Contents(tx) = <<>>
  BY <1>1, EmptySeq
<1>3. hold' \in Seq(Chars) /\ carried' \in Seq(Chars) /\ carried' \o hold' = hold \o s
  BY <1>1, FeedCarries
<1>4. Join(carried', hold') = Join(hold, s)
  BY <1>3 DEF Join
<1>5. Join(s, Contents(tx')) = Join(Contents(tx), s)
  BY <1>2, Nothing
<1> QED BY <1>1, <1>3, <1>4, <1>5, Sent

LEMMA Written ==
  ASSUME UartInv, NEW s \in Seq(Chars), WriteAtomic(s)
  PROVE  /\ RingOK(tx', Chars) /\ tx'.count = 0
         /\ hold' \in Seq(Chars) /\ got' = <<>> /\ OutStep
<1>1. said' = s /\ got' = <<>>
  BY DEF WriteAtomic, Says, Reads
<1>2. /\ RingOK(tx, Chars) /\ hold \in Seq(Chars) /\ Contents(tx) \in Seq(Chars)
      /\ Len(Contents(tx)) = tx.count /\ tx.count \in Nat /\ <<>> \in Seq(Chars)
  BY Sequences DEF UartInv, Types
<1>3. CASE irqMode
  <2>1. Feed(Join(Contents(tx), s)) /\ tx' = PopN(tx, tx.count)
    BY <1>3 DEF WriteAtomic, Join
  <2>2. Join(Contents(tx), s) \in Seq(Chars)
    BY <1>2, ConcatProperties DEF Join
  <2>3. /\ hold' \in Seq(Chars) /\ carried' \in Seq(Chars)
        /\ carried' \o hold' = hold \o Join(Contents(tx), s)
    BY <1>2, <2>1, <2>2, FeedCarries
  <2>4. /\ RingOK(tx', Chars) /\ tx'.count = tx.count - tx.count
        /\ Contents(tx') = SubSeq(Contents(tx), tx.count + 1, tx.count)
    BY <1>2, <2>1, Popped
  <2>5. tx'.count = 0 /\ Contents(tx') = <<>>
    BY <1>2, <2>4, SubSeqEmpty
  <2>6. /\ Join(carried', hold') = Join(hold, Join(Contents(tx), s))
        /\ Join(Join(Contents(tx), s), Contents(tx')) = Join(Contents(tx), s)
    BY <2>2, <2>3, <2>5, Nothing DEF Join
  <2> QED BY <1>1, <1>2, <2>2, <2>3, <2>4, <2>5, <2>6, Sent
<1>4. CASE ~irqMode
  <2>1. Feed(s) /\ tx' = tx /\ tx.count = 0
    BY <1>4, ConcatEmptySeq DEF WriteAtomic, UartInv, Bypassed
  <2> QED BY <1>1, <1>2, <1>4, <2>1, FedPast
<1> QED BY <1>3, <1>4

(* ... and the ring is as it was of characters of S, if c is.                *)
LEMMA EnqueuedOwn ==
  ASSUME UartInv, NEW S, RingOK(tx, S), NEW c \in S, Enqueue(c)
  PROVE  RingOK(tx', S)
<1>1. ~Full(tx) /\ tx' = Push(tx, c)
  BY DEF Enqueue
<1>2. tx.count < Size /\ tx.count \in Nat /\ Size \in Nat
  BY <1>1, Sequences DEF Full
<1>3. <<c>> \in Seq(S) /\ Len(<<c>>) = 1
  OBVIOUS
<1>4. Len(<<c>>) <= Size - tx.count
  BY <1>2, <1>3
<1>5. tx' = PushAll(tx, <<c>>)
  BY <1>1, PushIsPushAll
<1> QED BY <1>3, <1>4, <1>5, Pushed

(* What is sent past the ring overtakes what the ring holds.                 *)
LEMMA Overtaken ==
  ASSUME UartInv, NEW w \in Writers, off = w, RingOK(tx, FaultChars(w)),
         NEW s \in Seq(Chars), PutPoll(s)
  PROVE  hold' \in Seq(Chars) /\ got' = <<>> /\ OutStep
<1>1. Feed(s) /\ said' = s /\ got' = <<>> /\ tx' = tx
  BY DEF PutPoll, Says, Reads
<1>2. /\ hold \in Seq(Chars) /\ Contents(tx) \in Seq(Chars)
      /\ Len(Contents(tx)) = tx.count /\ tx.count \in Nat /\ Len(hold) \in Nat
  BY Sequences, LenProperties
<1>3. hold' \in Seq(Chars) /\ carried' \in Seq(Chars) /\ Join(carried', hold') = Join(hold, s)
  BY <1>1, <1>2, FeedCarries DEF Join
<1>4. Due = Join(hold, Contents(tx)) /\ Due' = Join(hold', Contents(tx))
  BY <1>1 DEF Due, Join
<1>5. Join(carried', Due') = Join(Join(hold, s), Contents(tx))
  BY <1>2, <1>3, <1>4, Regroup
<1>6. /\ Len(Due) = Len(hold) + tx.count
      /\ \A j \in 1..(Len(hold) + tx.count) :
           Due[j] = IF j <= Len(hold) THEN hold[j] ELSE Contents(tx)[j - Len(hold)]
  <2>1. PICK q \in Seq(Chars) : q = Contents(tx) /\ Len(q) = tx.count
    BY <1>2
  <2>2. Due = hold \o q
    BY <1>4, <2>1 DEF Join
  <2> QED BY <1>2, <2>1, <2>2, ConcatProperties
<1>7. SubSeq(Due, 1, Len(hold)) = hold
  <2>1. 0 \in 0..Len(Contents(tx)) /\ Len(hold) + 0 = Len(hold)
    BY <1>2
  <2>2. SubSeq(Join(hold, Contents(tx)), 1, Len(hold) + 0)
          = Join(hold, SubSeq(Contents(tx), 1, 0))
    BY <1>2, <2>1, CutFirst
  <2>3. SubSeq(Contents(tx), 1, 0) = <<>>
    BY <1>2, SubSeqEmpty
  <2> QED BY <1>2, <1>4, <2>1, <2>2, <2>3, Nothing
<1>8. SubSeq(Due, Len(hold) + 1, Len(Due)) = Contents(tx)
  <2>1. 0 \in 0..Len(Contents(tx)) /\ Len(hold) + 0 + 1 = Len(hold) + 1 /\ 0 + 1 = 1
    BY <1>2
  <2>2. SubSeq(Join(hold, Contents(tx)), Len(hold) + 0 + 1, Len(Join(hold, Contents(tx))))
          = SubSeq(Contents(tx), 0 + 1, Len(Contents(tx)))
    BY <1>2, <2>1, CutLast
  <2>3. SubSeq(Contents(tx), 1, Len(Contents(tx))) = Contents(tx)
    BY <1>2, SubSeqFull
  <2> QED BY <1>4, <2>1, <2>2, <2>3
<1>9. ASSUME NEW j \in (Len(hold) + 1)..Len(Due)
      PROVE  Due[j] \in FaultChars(off)
  <2>1. /\ j \in 1..(Len(hold) + tx.count) /\ ~(j <= Len(hold))
        /\ j - Len(hold) \in 1..tx.count
    BY <1>2, <1>6
  <2>2. Contents(tx)[j - Len(hold)] \in FaultChars(w)
    <3>1. Contents(tx) \in Seq(FaultChars(w)) /\ Len(Contents(tx)) = tx.count
      BY Holds
    <3> QED BY <2>1, <3>1, ElementOfSeq
  <2> QED BY <1>6, <2>1, <2>2
<1>10. Len(hold) \in 0..Len(Due)
  BY <1>2, <1>6
<1>11. carried' \o Due'
         = SubSeq(Due, 1, Len(hold)) \o said' \o SubSeq(Due, Len(hold) + 1, Len(Due))
  BY <1>1, <1>5, <1>7, <1>8 DEF Join
<1> QED BY <1>1, <1>3, <1>9, <1>10, <1>11 DEF OutStep

LEMMA Printable ==
  ASSUME NEW w \in Writers
  PROVE  /\ \A k \in Int : Char(w, k) \in Chars /\ <<Char(w, k)>> \in Seq(Chars)
         /\ <<Char(w, 1), Char(w, 2)>> \in Seq(Chars)
         /\ \A k \in Int : FaultChar(w, k) \in Chars /\ <<FaultChar(w, k)>> \in Seq(Chars)
<1>1. \A k \in Int : Char(w, k) \in Chars
  BY DEF Char, Chars
<1>2. \A k \in Int : FaultChar(w, k) \in Chars
  <2>1. \A k \in Int : 0 - k \in Int
    OBVIOUS
  <2> QED BY <1>1, <2>1 DEF FaultChar
<1> QED BY <1>1, <1>2

(* An empty ring holds characters of whatever kind.                          *)
LEMMA EmptyOfAll ==
  ASSUME NEW S, NEW S2, NEW rb, RingOK(rb, S), rb.count = 0
  PROVE  RingOK(rb, S2)
BY DEF RingOK

(* What is received is queued, and what there is no room for is lost.        *)
LEMMA Received ==
  ASSUME UartInv, HandleReceived
  PROVE  RingOK(rx', Input) /\ fifo' \in Seq(Input) /\ got' = <<>> /\ InStep
<1> DEFINE n == IF Len(fifo) <= Room THEN Len(fifo) ELSE Room
<1>1. /\ rx' = PushAll(rx, SubSeq(fifo, 1, n)) /\ fifo' = SubSeq(fifo, n + 2, Len(fifo))
      /\ got' = <<>>
  BY DEF HandleReceived, Quiet, Reads
<1>2. /\ RingOK(rx, Input) /\ fifo \in Seq(Input) /\ Contents(rx) \in Seq(Input)
      /\ Len(Contents(rx)) = rx.count /\ Len(fifo) \in Nat /\ Size \in Nat \ {0}
      /\ rx.count \in Nat /\ rx.count <= Size
      /\ Unread \in Seq(Input) /\ Len(Unread) = rx.count + Len(fifo)
  BY Sequences DEF UartInv, Types
<1>3. n \in 0..Len(fifo) /\ n <= Size - rx.count
      /\ (Len(fifo) <= Size - rx.count => n = Len(fifo))
      /\ (~(Len(fifo) <= Size - rx.count) => n = Size - rx.count /\ n + 1 <= Len(fifo))
  BY <1>2 DEF Room
<1> HIDE DEF n
<1>4. PICK a \in Seq(Input) : a = SubSeq(fifo, 1, n) /\ Len(a) = n
  <2>1. SubSeq(fifo, 1, n) \in Seq(Input) /\ Len(SubSeq(fifo, 1, n)) = n
    BY <1>2, <1>3, Beginning
  <2> QED BY <2>1
<1>5. RingOK(rx', Input) /\ Contents(rx') = Join(Contents(rx), a)
  <2>1. rx' = PushAll(rx, a) /\ Len(a) <= Size - rx.count
    BY <1>1, <1>3, <1>4
  <2> QED BY <1>2, <2>1, Pushed, SMTT(30) DEF Join
<1>6. CASE Len(fifo) <= Size - rx.count
  <2>1. a = fifo
    BY <1>2, <1>3, <1>4, <1>6, SubSeqFull
  <2>2. fifo' = <<>>
    <3>1. n + 2 \in Int /\ Len(fifo) \in Int /\ Len(fifo) < n + 2
      BY <1>2, <1>3, <1>6
    <3>2. SubSeq(fifo, n + 2, Len(fifo)) = <<>>
      BY <3>1, SubSeqEmpty
    <3> QED BY <1>1, <3>2
  <2>3. Unread' = Join(Contents(rx'), fifo') /\ Unread = Join(Contents(rx), fifo)
    BY DEF Unread, Join
  <2>4. Join(Contents(rx), fifo) \in Seq(Input)
    BY <1>2, <2>3
  <2>5. Join(got', Unread') = Unread
    BY <1>1, <1>5, <2>1, <2>2, <2>3, <2>4, Nothing
  <2>6. <<>> \in Seq(Input)
    BY EmptySeq
  <2> QED BY <1>1, <1>5, <2>2, <2>5, <2>6 DEF InStep, Join
<1>7. CASE ~(Len(fifo) <= Size - rx.count)
  <2>1. n + 1 \in 0..Len(fifo) /\ Size + 1 \in (Size + 1)..Len(Unread)
    BY <1>2, <1>3, <1>7
  <2>2. fifo' = SubSeq(fifo, (n + 1) + 1, Len(fifo)) /\ fifo' \in Seq(Input)
    <3>1. n + 2 = (n + 1) + 1
      BY <1>3
    <3>2. SubSeq(fifo, (n + 1) + 1, Len(fifo)) \in Seq(Input)
      BY <1>2, <2>1, End
    <3> QED BY <1>1, <3>1, <3>2
  <2>3. SubSeq(Unread, 1, Size) = Join(Contents(rx), a)
    <3>1. Size = Len(Contents(rx)) + n
      BY <1>2, <1>3, <1>7
    <3>2. Unread = Join(Contents(rx), fifo)
      BY DEF Unread, Join
    <3>3. PICK q \in Seq(Input) : q = Contents(rx)
      BY <1>2
    <3>4. SubSeq(Join(q, fifo), 1, Len(q) + n) = Join(q, SubSeq(fifo, 1, n))
      BY <1>2, <1>3, CutFirst
    <3> QED BY <1>4, <3>1, <3>2, <3>3, <3>4
  <2>4. SubSeq(Unread, Size + 2, Len(Unread)) = fifo'
    <3>1. Size + 2 = Len(Contents(rx)) + (n + 1) + 1
      <4>1. n = Size - rx.count /\ Len(Contents(rx)) = rx.count
        BY <1>2, <1>3, <1>7
      <4>2. rx.count + ((Size - rx.count) + 1) + 1 = Size + 2
        BY <1>2
      <4> QED BY <4>1, <4>2
    <3>2. Unread = Join(Contents(rx), fifo)
      BY DEF Unread, Join
    <3>3. PICK q \in Seq(Input), m \in 0..Len(fifo) : q = Contents(rx) /\ m = n + 1
      BY <1>2, <2>1
    <3>4. SubSeq(Join(q, fifo), Len(q) + m + 1, Len(Join(q, fifo)))
            = SubSeq(fifo, m + 1, Len(fifo))
      BY <1>2, CutLast
    <3> QED BY <2>2, <3>1, <3>2, <3>3, <3>4
  <2>5. RemoveAt(Unread, Size + 1) = Join(SubSeq(Unread, 1, Size), SubSeq(Unread, Size + 2, Len(Unread)))
    <3>1. (Size + 1) - 1 = Size /\ (Size + 1) + 1 = Size + 2
      BY <1>2
    <3> QED BY <3>1 DEF RemoveAt, Join
  <2>6. Unread' = Join(Contents(rx'), fifo')
    BY DEF Unread, Join
  <2>7. Unread' = RemoveAt(Unread, Size + 1)
    BY <1>5, <2>3, <2>4, <2>5, <2>6
  <2> QED BY <1>1, <1>5, <2>1, <2>2, <2>7 DEF InStep
<1> QED BY <1>6, <1>7

(* What the handler takes from the ring is sent.                             *)
LEMMA Kicked ==
  ASSUME UartInv, HandleEmptied
  PROVE  /\ RingOK(tx', Chars) /\ tx'.count <= tx.count /\ tx'.count \in Nat
         /\ hold' \in Seq(Chars) /\ got' = <<>> /\ OutStep
<1>1. /\ RingOK(tx, Chars) /\ hold \in Seq(Chars) /\ Contents(tx) \in Seq(Chars)
      /\ Len(Contents(tx)) = tx.count /\ tx.count \in Nat /\ <<>> \in Seq(Chars)
  BY Sequences DEF UartInv, Types
<1>2. PICK n \in 0..tx.count :
        /\ IF n = 0 THEN carried' = <<>> /\ hold' = hold
           ELSE Feed(SubSeq(Contents(tx), 1, n))
        /\ tx' = PopN(tx, n)
  BY <1>1 DEF HandleEmptied, Carries
<1>3. said' = <<>> /\ got' = <<>>
  BY DEF HandleEmptied, Says, Reads
<1>4. PICK x \in Seq(Chars), y \in Seq(Chars) :
        /\ x = SubSeq(Contents(tx), 1, n) /\ y = SubSeq(Contents(tx), n + 1, tx.count)
        /\ Join(x, y) = Contents(tx)
  <2>1. /\ SubSeq(Contents(tx), 1, n) \in Seq(Chars)
        /\ SubSeq(Contents(tx), n + 1, Len(Contents(tx))) \in Seq(Chars)
        /\ Join(SubSeq(Contents(tx), 1, n), SubSeq(Contents(tx), n + 1, Len(Contents(tx))))
             = Contents(tx)
    BY <1>1, <1>2, SplitAt
  <2> QED BY <1>1, <2>1
<1>5. RingOK(tx', Chars) /\ tx'.count = tx.count - n /\ Contents(tx') = y
  BY <1>1, <1>2, <1>4, Popped
<1>6. hold' \in Seq(Chars) /\ carried' \in Seq(Chars) /\ Join(carried', hold') = Join(hold, x)
  <2>1. CASE n = 0
    <3>1. x = <<>>
      BY <1>4, <2>1, SubSeqEmpty
    <3> QED BY <1>1, <1>2, <2>1, <3>1, Nothing
  <2>2. CASE n # 0
    BY <1>1, <1>2, <1>4, <2>2, FeedCarries DEF Join
  <2> QED BY <2>1, <2>2
<1>7. Join(x, Contents(tx')) = Join(Contents(tx), said')
  BY <1>1, <1>3, <1>4, <1>5, Nothing
<1>8. tx'.count <= tx.count /\ tx'.count \in Nat
  BY <1>1, <1>2, <1>5
<1> QED BY <1>1, <1>3, <1>4, <1>5, <1>6, <1>7, <1>8, Sent

LEMMA KickedOwn ==
  ASSUME UartInv, HandleEmptied, NEW S, RingOK(tx, S)
  PROVE  RingOK(tx', S)
<1>1. tx.count \in Nat
  BY Sequences
<1>2. PICK n \in 0..tx.count : tx' = PopN(tx, n)
  BY <1>1 DEF HandleEmptied
<1> QED BY <1>2, Popped

(* A character comes in behind all the others.                               *)
LEMMA Arrived ==
  ASSUME UartInv, Arrive
  PROVE  fifo' \in Seq(Input) /\ InStep
<1>1. PICK c \in Input : fifo' = Append(fifo, c)
  BY DEF Arrive
<1>2. /\ Contents(rx) \in Seq(Input) /\ fifo \in Seq(Input) /\ rx' = rx /\ got' = <<>>
      /\ Unread \in Seq(Input)
  BY Sequences DEF Arrive, Quiet, Reads
<1>3. PICK s \in Seq(Input) : s = <<c>>
  <2>1. <<c>> \in Seq(Input)
    OBVIOUS
  <2> QED BY <2>1
<1>4. fifo' = Join(fifo, s) /\ Append(Unread, c) = Join(Unread, s)
  BY <1>1, <1>2, <1>3, AppendIsConcat DEF Join
<1>5. Unread' = Join(Contents(rx), fifo') /\ Unread = Join(Contents(rx), fifo)
  BY <1>2 DEF Unread, Join
<1>6. Unread' = Append(Unread, c)
  BY <1>2, <1>4, <1>5, Regroup
<1>7. fifo' \in Seq(Input)
  BY <1>1, <1>2, AppendProperties
<1> QED BY <1>1, <1>2, <1>6, <1>7 DEF InStep

LEMMA First ==
  ASSUME NEW S, NEW q \in Seq(S), Len(q) > 0
  PROVE  /\ <<q[1]>> \in Seq(S) /\ SubSeq(q, 2, Len(q)) \in Seq(S)
         /\ Join(<<q[1]>>, SubSeq(q, 2, Len(q))) = q
<1>1. Len(q) \in Nat /\ 1 \in 1..Len(q) /\ Len(q) \in 1..Len(q) /\ 1 \in 0..Len(q)
  BY LenProperties
<1>2. q[1] \in S
  BY <1>1, ElementOfSeq
<1>3. SubSeq(q, 1 + 1, Len(q)) \in Seq(S)
  BY <1>1, End
<1>4. SubSeq(q, 1, Len(q)) = <<q[1]>> \o SubSeq(q, 1 + 1, Len(q))
  BY <1>1, SubSeqRecursiveFirst
<1>5. SubSeq(q, 1, Len(q)) = q
  BY SubSeqFull
<1> QED BY <1>2, <1>3, <1>4, <1>5 DEF Join

(* The oldest character is read.                                             *)
LEMMA Taken ==
  ASSUME UartInv, Getc
  PROVE  /\ RingOK(rx', Input) /\ rx'.count <= rx.count /\ rx'.count \in Nat
         /\ fifo' \in Seq(Input) /\ InStep
<1>1. /\ RingOK(rx, Input) /\ fifo \in Seq(Input) /\ Contents(rx) \in Seq(Input)
      /\ Len(Contents(rx)) = rx.count /\ rx.count \in Nat /\ rx.count <= Size
      /\ Size \in Nat \ {0} /\ Len(fifo) \in Nat
  BY Sequences DEF UartInv, Types
<1>2. Unread = Join(Contents(rx), fifo) /\ Unread' = Join(Contents(rx'), fifo')
  BY DEF Unread, Join
<1>3. CASE irqMode
  <2>1. /\ rx.count > 0 /\ got' = <<rx.buf[rx.head]>> /\ rx' = Pop(rx) /\ fifo' = fifo
    BY <1>3 DEF Getc, Reads
  <2>2. Contents(rx)[1] = rx.buf[rx.head]
    <3>1. 1 \in 1..rx.count /\ rx.head \in Slots /\ rx.head + 1 - 1 = rx.head + 0
      BY <1>1, <2>1 DEF RingOK, Slots
    <3>2. 0 \in 0..Size /\ rx.head \in Int /\ rx.head >= 0 /\ rx.head < Size
      BY <1>1, <3>1 DEF Slots
    <3>3. Wrap(rx.head + 0) = rx.head
      BY <3>1, <3>2, Turns
    <3>4. Contents(rx)[1] = rx.buf[Wrap(rx.head + 1 - 1)]
      BY <1>1, <3>1, Holds
    <3> QED BY <3>1, <3>3, <3>4
  <2>3. /\ RingOK(rx', Input) /\ rx'.count = rx.count - 1
        /\ Contents(rx') = SubSeq(Contents(rx), 2, rx.count)
    <3>1. rx' = PopN(rx, 1) /\ 1 \in 0..rx.count
      BY <1>1, <2>1, PopIsPopN
    <3>2. /\ RingOK(rx', Input) /\ rx'.count = rx.count - 1
          /\ Contents(rx') = SubSeq(Contents(rx), 1 + 1, rx.count)
      BY <1>1, <3>1, Popped, SMTT(30)
    <3> QED BY <3>2
  <2>4. PICK a \in Seq(Input), b \in Seq(Input) :
          a = got' /\ b = Contents(rx') /\ Join(a, b) = Contents(rx)
    <3>1. PICK q \in Seq(Input) : q = Contents(rx)
      BY <1>1
    <3>2. Len(q) > 0
      BY <1>1, <2>1, <3>1
    <3>3. /\ <<q[1]>> \in Seq(Input) /\ SubSeq(q, 2, Len(q)) \in Seq(Input)
          /\ Join(<<q[1]>>, SubSeq(q, 2, Len(q))) = q
      BY <3>2, First
    <3>4. got' = <<q[1]>> /\ Contents(rx') = SubSeq(q, 2, Len(q))
      BY <1>1, <2>1, <2>2, <2>3, <3>1
    <3> QED BY <3>1, <3>3, <3>4
  <2>5. Join(got', Unread') = Unread
    <3>1. Join(Join(a, b), fifo) = Join(a, Join(b, fifo))
      BY <1>1, Regroup
    <3> QED BY <1>2, <2>1, <2>4, <3>1
  <2>6. rx'.count <= rx.count /\ rx'.count \in Nat
    BY <1>1, <2>1, <2>3
  <2> QED BY <1>1, <2>1, <2>3, <2>5, <2>6 DEF InStep, Join
<1>4. CASE ~irqMode
  <2>1. /\ fifo # <<>> /\ got' = <<Head(fifo)>> /\ fifo' = Tail(fifo) /\ rx' = rx
        /\ rx.count = 0
    BY <1>4 DEF Getc, Reads, UartInv, Bypassed
  <2>2. Contents(rx) = <<>>
    BY <1>1, <2>1, EmptySeq
  <2>3. Len(fifo) > 0
    BY <1>1, <2>1, EmptySeq
  <2>4. fifo' \in Seq(Input) /\ Join(got', fifo') = fifo
    <3>1. fifo' = SubSeq(fifo, 2, Len(fifo)) /\ got' = <<fifo[1]>>
      BY <1>1, <2>1, TailIsSubSeq
    <3> QED BY <1>1, <2>3, <3>1, First
  <2>5. Join(got', Unread') = Unread
    BY <1>1, <1>2, <2>1, <2>2, <2>4, Nothing
  <2> QED BY <1>1, <2>1, <2>4, <2>5 DEF InStep, Join
<1> QED BY <1>3, <1>4

-----------------------------------------------------------------------------
(* When the ring stays what it has to be for who writes a text in user       *)
(* memory.                                                                   *)
InUser == {"user", "fault", "there"}

LEMMA NobodyOff ==
  ASSUME UartInv, off = NoWriter
  PROVE  \A w \in Writers : pc[w] \notin OffStates /\ pc[w] \notin InUser
<1>1. NoWriter \notin Writers
  BY UartAssumption DEF Writers
<1> QED BY <1>1 DEF UartInv, HasRoom, OffStates, InUser

(* Who has printed with interrupts off, or written, is done.                 *)
LEMMA WriterDone ==
  ASSUME UartInv, NEW w \in Writers, pc[w] \in OffStates, left = 0,
         pc' = [pc EXCEPT ![w] = "idle"], off' = NoWriter,
         UNCHANGED <<irqMode, rounds, left, todo, tx, hold, rx, fifo>>
  PROVE  UartInv'
<1>1. NoWriter \notin Writers
  BY UartAssumption DEF Writers
<1>2. Types' /\ Bypassed'
  BY DEF UartInv, Types, Bypassed
<1>3. HasRoom'
  BY <1>1 DEF UartInv, Types, HasRoom, OffStates
<1>4. OwnRing'
  BY DEF UartInv, Types, OwnRing
<1> QED BY <1>2, <1>3, <1>4 DEF UartInv

LEMMA OwnSame ==
  ASSUME UartInv, UNCHANGED tx, UNCHANGED pc
  PROVE  OwnRing'
BY DEF UartInv, OwnRing

LEMMA OwnNone ==
  ASSUME UartInv, off = NoWriter, NEW w \in Writers,
         UNCHANGED pc \/ (\E p \in {"idle", "return", "put", "burst"} :
                            pc' = [pc EXCEPT ![w] = p])
  PROVE  OwnRing'
<1>1. \A v \in Writers : pc'[v] \notin InUser
  BY NobodyOff DEF InUser, UartInv, Types
<1> QED BY <1>1 DEF OwnRing, InUser

(* Every step keeps the invariant and the order of the characters.           *)
StepOK == UartInv' /\ OutStep /\ InStep

LEMMA InitUart ==
  ASSUME Init
  PROVE  UartInv
<1>1. Types
  <2>1. /\ RingOK(EmptyRing, Chars) /\ RingOK(EmptyRing, Input)
        /\ <<>> \in Seq(Chars) /\ <<>> \in Seq(Input) /\ 0 \in 0..Burst /\ 0 \in 0..Text
    BY EmptyHolds, EmptySeq, UartAssumption
  <2> QED BY <2>1 DEF Init, Types
<1>2. EmptyRing.count = 0
  BY DEF EmptyRing
<1>3. Bypassed /\ HasRoom
  BY <1>2, UartAssumption DEF Init, Bypassed, HasRoom, OffStates, Writers
<1>4. OwnRing
  BY DEF Init, OwnRing
<1> QED BY <1>1, <1>3, <1>4 DEF UartInv

LEMMA TransmitStep ==
  ASSUME UartInv, Transmit
  PROVE  StepOK
<1>1. /\ carried' = hold /\ hold' = <<>> /\ said' = <<>> /\ got' = <<>> /\ tx' = tx
      /\ UNCHANGED <<irqMode, rounds, rvars, wvars>>
  BY DEF Transmit, Says, Carries, Reads
<1>2. /\ <<>> \in Seq(Chars) /\ hold \in Seq(Chars) /\ Contents(tx) \in Seq(Chars)
  BY Sequences
<1>3. UartInv'
  BY <1>1, <1>2, OwnSame DEF UartInv, Types, Bypassed, HasRoom, rvars, wvars
<1>4. InStep
  BY <1>1, NothingRead
<1>5. OutStep
  <2>1. /\ Join(carried', hold') = Join(hold, <<>>)
        /\ Join(<<>>, Contents(tx')) = Join(Contents(tx), <<>>)
    BY <1>1, <1>2, Nothing
  <2> QED BY <1>1, <1>2, <2>1, Sent
<1> QED BY <1>3, <1>4, <1>5 DEF StepOK

LEMMA ArriveStep ==
  ASSUME UartInv, Arrive
  PROVE  StepOK
<1>1. /\ said' = <<>> /\ carried' = <<>>
      /\ UNCHANGED <<irqMode, rounds, rx, tvars, wvars>>
  BY DEF Arrive, Quiet, Says, Carries
<1>2. UartInv'
  BY <1>1, Arrived, OwnSame DEF UartInv, Types, Bypassed, HasRoom, tvars, wvars
<1>3. OutStep
  BY <1>1, NothingSent DEF tvars
<1> QED BY <1>2, <1>3, Arrived DEF StepOK

LEMMA IrqInitStep ==
  ASSUME UartInv, IrqInit
  PROVE  StepOK
<1>1. /\ irqMode = FALSE /\ irqMode' = TRUE /\ tx' = EmptyRing /\ rx' = EmptyRing
      /\ hold' = <<>> /\ fifo' = <<>> /\ off = NoWriter
      /\ UNCHANGED <<rounds, wvars>>
  BY DEF IrqInit, UartInv, Types
<1>2. /\ RingOK(EmptyRing, Chars) /\ RingOK(EmptyRing, Input)
      /\ <<>> \in Seq(Chars) /\ <<>> \in Seq(Input)
  BY EmptyHolds, EmptySeq
<1>3. UartInv'
  <2>1. OwnRing'
    BY <1>1, NobodyOff DEF OwnRing, InUser, wvars
  <2> QED BY <1>1, <1>2, <2>1 DEF UartInv, Types, Bypassed, HasRoom, wvars
<1>4. irqMode' # irqMode
  BY <1>1
<1> QED BY <1>3, <1>4 DEF StepOK, OutStep, InStep

LEMMA GetcStep ==
  ASSUME UartInv, Getc
  PROVE  StepOK
<1>1. /\ said' = <<>> /\ carried' = <<>> /\ UNCHANGED <<irqMode, rounds, tvars, wvars>>
  BY DEF Getc, Says, Carries
<1>2. /\ RingOK(rx', Input) /\ rx'.count <= rx.count /\ rx'.count \in Nat
      /\ fifo' \in Seq(Input) /\ InStep /\ rx.count \in Nat
  BY Taken, Sequences
<1>3. UartInv'
  <2>1. Types' /\ HasRoom'
    BY <1>1, <1>2 DEF UartInv, Types, HasRoom, tvars, wvars
  <2>2. Bypassed'
    BY <1>1, <1>2 DEF UartInv, Bypassed, tvars, wvars
  <2>3. OwnRing'
    BY <1>1, OwnSame DEF tvars, wvars
  <2> QED BY <2>1, <2>2, <2>3 DEF UartInv
<1>4. OutStep
  BY <1>1, NothingSent DEF tvars
<1> QED BY <1>2, <1>3, <1>4 DEF StepOK

(* The interrupt handler, which runs only when the driver has started.       *)
LEMMA HandleStep ==
  ASSUME UartInv, Handle
  PROVE  StepOK
<1>1. CASE Claim \/ Complete
  <2>1. /\ said' = <<>> /\ carried' = <<>> /\ got' = <<>> /\ irqMode
        /\ UNCHANGED <<irqMode, tvars, rvars, wvars>>
    BY <1>1 DEF Claim, Complete, Quiet, Says, Carries, Reads, UartInv, Bypassed, InHandler
  <2>2. UartInv'
    BY <2>1, OwnSame DEF UartInv, Types, Bypassed, HasRoom, tvars, rvars, wvars
  <2> QED BY <2>1, <2>2, NothingSent, NothingRead DEF StepOK, tvars
<1>2. CASE HandleReceived
  <2>1. /\ said' = <<>> /\ carried' = <<>> /\ irqMode
        /\ UNCHANGED <<irqMode, tvars, wvars>>
    BY <1>2 DEF HandleReceived, Quiet, Says, Carries, UartInv, Bypassed, InHandler
  <2>2. UartInv'
    BY <1>2, <2>1, Received, OwnSame
    DEF UartInv, Types, Bypassed, HasRoom, tvars, wvars
  <2> QED BY <1>2, <2>1, <2>2, Received, NothingSent DEF StepOK, tvars
<1>3. CASE HandleEmptied
  <2>1. irqMode /\ UNCHANGED <<irqMode, rvars, wvars>>
    BY <1>3 DEF HandleEmptied, UartInv, Bypassed, InHandler
  <2>2. /\ RingOK(tx', Chars) /\ tx'.count <= tx.count /\ tx'.count \in Nat
        /\ hold' \in Seq(Chars) /\ got' = <<>> /\ OutStep
        /\ tx.count \in Nat /\ Size \in Nat /\ left \in Nat
    BY <1>3, Kicked, Sequences, UartAssumption DEF UartInv, Types
  <2>3. Types' /\ Bypassed'
    BY <2>1, <2>2 DEF UartInv, Types, Bypassed, rvars, wvars
  <2>4. HasRoom'
    BY <2>1, <2>2 DEF UartInv, HasRoom, wvars
  <2>5. OwnRing'
    BY <1>3, <2>1, KickedOwn DEF UartInv, OwnRing, wvars
  <2> QED BY <2>1, <2>2, <2>3, <2>4, <2>5, NothingRead DEF StepOK, UartInv
<1> QED BY <1>1, <1>2, <1>3 DEF Handle

LEMMA PutcStep ==
  ASSUME UartInv,
         NEW w \in Threads, NEW newline \in BOOLEAN, Putc(w, newline)
  PROVE  StepOK
<1>1. /\ w \in Writers /\ pc[w] = "idle" /\ off \in {NoWriter, w} /\ got' = <<>>
      /\ UNCHANGED <<irqMode, rounds, tx, off, left, todo, rvars>>
  BY DEF Putc, CanRun, Writers, Quiet, Reads, PutPoll, tvars
<1>5. off = NoWriter
  BY <1>1 DEF UartInv, HasRoom, OffStates
<1>2. InStep
  BY <1>1, NothingRead
<1>3. CASE irqMode
  <2>1. /\ said' = <<>> /\ carried' = <<>> /\ UNCHANGED tvars
        /\ \E p \in {"return", "put"} : pc' = [pc EXCEPT ![w] = p]
    BY <1>3 DEF Putc, Quiet, Says, Carries
  <2>2. UartInv'
    <3>1. OwnRing'
      BY <1>1, <1>5, <2>1, OwnNone
    <3>2. HasRoom'
      BY <1>1, <1>5, <2>1 DEF UartInv, Types, HasRoom, OffStates
    <3> QED BY <1>1, <1>3, <2>1, <3>1, <3>2 DEF UartInv, Types, Bypassed, tvars, rvars
  <2> QED BY <1>2, <2>1, <2>2, NothingSent DEF StepOK, tvars
<1>4. CASE ~irqMode
  <2>1. PICK s \in Seq(Chars) : Feed(s) /\ said' = s
    <3>1. <<Char(w, 2)>> \in Seq(Chars) /\ <<Char(w, 1)>> \in Seq(Chars)
      BY <1>1, Printable
    <3>2. <<Char(w, 1)>> \o <<Char(w, 2)>> \in Seq(Chars)
          /\ <<>> \o <<Char(w, 2)>> \in Seq(Chars)
      BY <3>1, EmptySeq, ConcatProperties
    <3> QED BY <1>4, <3>2 DEF Putc, PutPoll, Says
  <2>2. pc' = pc /\ tx' = tx
    BY <1>1, <1>4 DEF Putc, PutPoll
  <2>3. OutStep /\ hold' \in Seq(Chars)
    BY <1>4, <2>1, <2>2, FedPast
  <2>4. UartInv'
    BY <1>1, <2>2, <2>3, OwnSame DEF UartInv, Types, Bypassed, HasRoom, rvars
  <2> QED BY <1>2, <2>3, <2>4 DEF StepOK
<1> QED BY <1>3, <1>4

LEMMA PutStep ==
  ASSUME UartInv, NEW w \in Writers, PutReturn(w) \/ PutLast(w)
  PROVE  StepOK
<1>1. PICK k \in Int, p \in {"put", "idle"} :
        /\ Enqueue(Char(w, k)) /\ pc' = [pc EXCEPT ![w] = p]
        /\ pc[w] \in {"return", "put"} /\ off \in {NoWriter, w}
        /\ UNCHANGED <<irqMode, rounds, off, left, todo, rvars>>
  BY DEF PutReturn, PutLast, CanRun
<1>2. /\ RingOK(tx', Chars) /\ hold' = hold /\ got' = <<>> /\ OutStep
  BY <1>1, Printable, Enqueued
<1>3. irqMode /\ off = NoWriter
  BY <1>1 DEF UartInv, Bypassed, HasRoom, OffStates
<1>4. UartInv'
  <2>1. OwnRing'
    BY <1>1, <1>3, OwnNone
  <2>2. HasRoom'
    BY <1>1, <1>3 DEF UartInv, Types, HasRoom, OffStates
  <2> QED BY <1>1, <1>2, <1>3, <2>1, <2>2 DEF UartInv, Types, Bypassed, rvars
<1> QED BY <1>1, <1>2, <1>4, NothingRead DEF StepOK

LEMMA PutsStep ==
  ASSUME UartInv, NEW w \in Threads, Puts(w)
  PROVE  StepOK
<1>1. /\ w \in Writers /\ WriteAtomic(<<Char(w, 1), Char(w, 2)>>)
      /\ pc[w] = "idle" /\ off \in {NoWriter, w}
      /\ UNCHANGED <<irqMode, rounds, pc, off, left, todo, rvars>>
  BY DEF Puts, CanRun, Writers, wvars
<1>2. /\ RingOK(tx', Chars) /\ tx'.count = 0
      /\ hold' \in Seq(Chars) /\ got' = <<>> /\ OutStep
  BY <1>1, Printable, Written
<1>3. off = NoWriter
  BY <1>1 DEF UartInv, HasRoom, OffStates
<1>4. UartInv'
  BY <1>1, <1>2, <1>3, OwnNone DEF UartInv, Types, Bypassed, HasRoom, rvars
<1> QED BY <1>1, <1>2, <1>4, NothingRead DEF StepOK

(* A print with interrupts off finds the ring empty, because uart_puts sends *)
(* it first, and is not longer than a ring.                                  *)
LEMMA PrintOffStep ==
  ASSUME UartInv, NEW w \in Traps, PrintOff(w)
  PROVE  StepOK
<1>1. /\ w \in Writers /\ WriteAtomic(<<Char(w, 1)>>) /\ irqMode
      /\ off = NoWriter /\ off' = w /\ left' \in 1..Burst
      /\ pc' = [pc EXCEPT ![w] = "burst"]
      /\ UNCHANGED <<irqMode, rounds, todo, rvars>>
  BY DEF PrintOff, Writers
<1>2. /\ RingOK(tx', Chars) /\ tx'.count = 0
      /\ hold' \in Seq(Chars) /\ got' = <<>> /\ OutStep
  <2>1. 1 \in Int /\ <<Char(w, 1)>> \in Seq(Chars)
    BY <1>1, Printable
  <2> QED BY <1>1, <2>1, Written
<1>3. Burst \in Nat /\ Size \in Nat /\ Burst <= Size /\ NoWriter \notin Writers
  BY UartAssumption DEF Writers
<1>4. Types' /\ Bypassed'
  BY <1>1, <1>2, <1>3 DEF UartInv, Types, Bypassed, rvars
<1>5. HasRoom'
  <2>1. \A v \in Writers : pc'[v] \in OffStates <=> off' = v
    BY <1>1, <1>3 DEF UartInv, Types, HasRoom, OffStates
  <2>2. tx'.count + left' <= Size
    <3>1. PICK l \in 1..Burst : left' = l
      BY <1>1
    <3>2. 0 + l <= Size
      BY <1>3
    <3> QED BY <1>2, <3>1, <3>2
  <2>3. \A v \in Writers : pc'[v] \notin {"user", "there"}
    BY <1>1, NobodyOff DEF InUser, UartInv, Types
  <2> QED BY <1>1, <1>3, <2>1, <2>2, <2>3 DEF HasRoom
<1>6. OwnRing'
  BY <1>1, OwnNone
<1> QED BY <1>1, <1>2, <1>4, <1>5, <1>6, NothingRead DEF StepOK, UartInv

LEMMA PrintStep ==
  ASSUME UartInv, NEW w \in Writers, PrintDigit(w) \/ PrintDone(w)
  PROVE  StepOK
<1>1. Burst \in Nat /\ Size \in Nat /\ NoWriter \notin Writers /\ tx.count \in Nat
  BY Sequences, UartAssumption DEF Writers
<1>2. CASE PrintDigit(w)
  <2>1. PICK k \in 1..(Burst + 1), c \in Chars :
          /\ Enqueue(c) /\ (pc[w] = "burst" \/ (pc[w] = "fault" /\ c = FaultChar(w, k)))
          /\ left > 0 /\ left' = left - 1
          /\ UNCHANGED <<irqMode, rounds, pc, off, todo, rvars>>
    <3>1. Burst + 2 - left \in 1..(Burst + 1)
      BY <1>1, <1>2 DEF PrintDigit, UartInv, Types
    <3>2. \A k \in 1..(Burst + 1) : Char(w, k) \in Chars /\ FaultChar(w, k) \in Chars
      BY Printable, <1>1
    <3> QED BY <1>2, <3>1, <3>2 DEF PrintDigit
  <2>3. /\ RingOK(tx', Chars) /\ tx'.count = tx.count + 1
        /\ hold' = hold /\ got' = <<>> /\ OutStep
    BY <2>1, Enqueued
  <2>4. irqMode /\ off = w
    BY <2>1 DEF UartInv, Bypassed, HasRoom, OffStates
  <2>5. Types' /\ Bypassed'
    BY <1>1, <2>1, <2>3, <2>4 DEF UartInv, Types, Bypassed, rvars
  <2>6. HasRoom'
    BY <1>1, <2>1, <2>3 DEF UartInv, Types, HasRoom
  <2>7. OwnRing'
    <3>1. SUFFICES ASSUME NEW v \in Writers, pc[v] \in InUser
                   PROVE  RingOK(tx', FaultChars(v))
      BY <2>1 DEF OwnRing, InUser
    <3>2. v = w /\ pc[w] = "fault" /\ RingOK(tx, FaultChars(w))
      BY <2>1, <2>4, <3>1 DEF UartInv, HasRoom, OwnRing, OffStates, InUser
    <3>3. c \in FaultChars(w)
      BY <2>1, <3>2 DEF FaultChars
    <3> QED BY <2>1, <3>2, <3>3, EnqueuedOwn
  <2> QED BY <2>1, <2>3, <2>5, <2>6, <2>7, NothingRead DEF StepOK, UartInv
<1>3. CASE PrintDone(w)
  <2>1. /\ said' = <<>> /\ carried' = <<>> /\ got' = <<>> /\ left = 0
        /\ pc[w] = "burst" /\ pc' = [pc EXCEPT ![w] = "idle"] /\ off' = NoWriter
        /\ UNCHANGED <<irqMode, rounds, left, todo, tvars, rvars>>
    BY <1>3 DEF PrintDone, Quiet, Says, Carries, Reads
  <2>2. UartInv'
    BY <1>1, <2>1, WriterDone DEF OffStates, tvars, rvars
  <2> QED BY <2>1, <2>2, NothingSent, NothingRead DEF StepOK, tvars
<1> QED BY <1>2, <1>3

(* A text in user memory.                                                    *)
LEMMA WriteUserStep ==
  ASSUME UartInv, NEW w \in Threads, WriteUser(w)
  PROVE  StepOK
<1>1. /\ w \in Writers /\ WriteAtomic(<<>>) /\ irqMode
      /\ off \in {NoWriter, w} /\ off' = w /\ todo' \in 0..Text /\ pc[w] = "idle"
      /\ pc' = [pc EXCEPT ![w] = "user"]
      /\ UNCHANGED <<irqMode, rounds, left, rvars>>
  BY DEF WriteUser, CanRun, Writers
<1>2. /\ RingOK(tx', Chars) /\ tx'.count = 0
      /\ hold' \in Seq(Chars) /\ got' = <<>> /\ OutStep
  BY <1>1, Written, EmptySeq
<1>3. /\ Burst \in Nat /\ Size \in Nat /\ NoWriter \notin Writers
      /\ off = NoWriter /\ left = 0
  BY <1>1, UartAssumption DEF Writers, UartInv, HasRoom, OffStates
<1>4. Types' /\ Bypassed'
  BY <1>1, <1>2, <1>3 DEF UartInv, Types, Bypassed, rvars
<1>5. HasRoom'
  BY <1>1, <1>2, <1>3 DEF UartInv, Types, HasRoom, OffStates
<1>6. OwnRing'
  BY <1>2, EmptyOfAll DEF OwnRing
<1> QED BY <1>1, <1>2, <1>4, <1>5, <1>6, NothingRead DEF StepOK, UartInv

LEMMA SendUserStep ==
  ASSUME UartInv, NEW w \in Writers, SendUser(w)
  PROVE  StepOK
<1>1. /\ pc[w] \in {"user", "there"} /\ todo > 0 /\ PutPoll(<<Char(w, todo)>>)
      /\ pc' = [pc EXCEPT ![w] = "user"] /\ todo' = todo - 1
      /\ UNCHANGED <<irqMode, rounds, off, left, tx, rvars>>
  BY DEF SendUser, PutPoll
<1>2. off = w /\ RingOK(tx, FaultChars(w)) /\ irqMode /\ Text \in Nat /\ todo \in Int
  BY <1>1, UartAssumption DEF UartInv, Types, HasRoom, OwnRing, Bypassed, OffStates
<1>3. <<Char(w, todo)>> \in Seq(Chars)
  BY <1>2, Printable
<1>4. hold' \in Seq(Chars) /\ got' = <<>> /\ OutStep
  BY <1>1, <1>2, <1>3, Overtaken
<1>5. Types' /\ Bypassed'
  BY <1>1, <1>2, <1>4 DEF UartInv, Types, Bypassed, rvars
<1>6. HasRoom'
  BY <1>1, <1>2 DEF UartInv, Types, HasRoom, OffStates
<1>7. OwnRing'
  BY <1>1, <1>2 DEF UartInv, Types, HasRoom, OwnRing, OffStates
<1> QED BY <1>1, <1>4, <1>5, <1>6, <1>7, NothingRead DEF StepOK, UartInv

LEMMA WriteDoneStep ==
  ASSUME UartInv, NEW w \in Writers, WriteDone(w) \/ FaultDone(w)
  PROVE  StepOK
<1>1. /\ said' = <<>> /\ carried' = <<>> /\ got' = <<>>
      /\ UNCHANGED <<irqMode, rounds, left, todo, tvars, rvars>>
  BY DEF WriteDone, FaultDone, Quiet, Says, Carries, Reads
<1>2. CASE WriteDone(w)
  <2>1. /\ pc[w] = "user" /\ pc' = [pc EXCEPT ![w] = "idle"] /\ off' = NoWriter
    BY <1>2 DEF WriteDone
  <2>2. left = 0
    BY <2>1 DEF UartInv, HasRoom
  <2>3. UartInv'
    BY <1>1, <2>1, <2>2, WriterDone DEF OffStates, tvars, rvars
  <2> QED BY <1>1, <2>3, NothingSent, NothingRead DEF StepOK, tvars
<1>3. CASE FaultDone(w)
  <2>1. /\ pc[w] = "fault" /\ left = 0 /\ pc' = [pc EXCEPT ![w] = "there"] /\ UNCHANGED off
    BY <1>3 DEF FaultDone
  <2>2. Types' /\ Bypassed'
    BY <1>1, <2>1 DEF UartInv, Types, Bypassed, tvars, rvars
  <2>3. HasRoom'
    BY <1>1, <2>1 DEF UartInv, Types, HasRoom, OffStates, tvars
  <2>4. OwnRing'
    BY <1>1, <2>1 DEF UartInv, Types, OwnRing, tvars
  <2> QED BY <1>1, <2>2, <2>3, <2>4, NothingSent, NothingRead DEF StepOK, UartInv, tvars
<1> QED BY <1>2, <1>3

LEMMA FaultStep ==
  ASSUME UartInv, NEW w \in Threads, Fault(w)
  PROVE  StepOK
<1>1. /\ w \in Writers /\ WriteAtomic(<<FaultChar(w, 1)>>) /\ pc[w] = "user"
      /\ UNCHANGED <<irqMode, rounds, rvars>>
  BY DEF Fault, Writers
<1>2. /\ RingOK(tx', Chars) /\ tx'.count = 0
      /\ hold' \in Seq(Chars) /\ got' = <<>> /\ OutStep
  <2>1. 1 \in Int /\ <<FaultChar(w, 1)>> \in Seq(Chars)
    BY <1>1, Printable
  <2> QED BY <1>1, <2>1, Written
<1>3. /\ Burst \in Nat /\ Size \in Nat /\ Burst <= Size /\ NoWriter \notin Writers
      /\ Text \in Nat /\ irqMode /\ off = w /\ left = 0
  BY <1>1, UartAssumption DEF Writers, UartInv, HasRoom, Bypassed, OffStates
<1>4. OwnRing'
  BY <1>2, EmptyOfAll DEF OwnRing
<1>5. CASE pc' = [pc EXCEPT ![w] = "fault"] /\ left' \in 1..Burst /\ UNCHANGED <<off, todo>>
  <2>1. Types' /\ Bypassed'
    BY <1>1, <1>2, <1>3, <1>5 DEF UartInv, Types, Bypassed, rvars
  <2>2. HasRoom'
    <3>1. tx'.count + left' <= Size
      <4>1. PICK l \in 1..Burst : left' = l
        BY <1>5
      <4>2. 0 + l <= Size
        BY <1>3
      <4> QED BY <1>2, <4>1, <4>2
    <3> QED BY <1>1, <1>3, <1>5, <3>1 DEF UartInv, Types, HasRoom, OffStates
  <2> QED BY <1>1, <1>2, <1>4, <2>1, <2>2, NothingRead DEF StepOK, UartInv
<1>6. CASE /\ pc' = [pc EXCEPT ![w] = "idle"] /\ off' = NoWriter /\ todo' = 0
           /\ UNCHANGED left
  <2>1. Types' /\ Bypassed'
    BY <1>1, <1>2, <1>3, <1>6 DEF UartInv, Types, Bypassed, rvars
  <2>2. HasRoom'
    BY <1>1, <1>3, <1>6 DEF UartInv, Types, HasRoom, OffStates
  <2> QED BY <1>1, <1>2, <1>4, <2>1, <2>2, NothingRead DEF StepOK, UartInv
<1> QED BY <1>5, <1>6 DEF Fault

LEMMA NextStep ==
  ASSUME UartInv, Next
  PROVE  StepOK
BY TransmitStep, ArriveStep, IrqInitStep, GetcStep, HandleStep, PutcStep, PutStep,
   PutsStep, PrintOffStep, PrintStep, WriteUserStep, SendUserStep, WriteDoneStep,
   FaultStep DEF Next, Goes

(* uart.c: the invariant of the driver.                                      *)
LEMMA DriverInvariant == Spec => []UartInv
<1>1. Init => UartInv
  BY InitUart
<1>2. UartInv /\ [Next]_vars => UartInv'
  <2>1. ASSUME UartInv, UNCHANGED vars PROVE UartInv'
    BY <2>1, OwnSame DEF UartInv, Types, Bypassed, HasRoom, vars, tvars, rvars, wvars
  <2> QED BY <2>1, NextStep DEF StepOK
<1> QED BY <1>1, <1>2, PTL DEF Spec

(* What is printed leaves in the order in which it was accepted, past the    *)
(* ring or through it, but for a process's text, which overtakes what its    *)
(* own page faults have printed; and what arrives is read in the order in    *)
(* which it came, but for what there was no room for: for rings of every     *)
(* size, texts of every length and faults at any of their characters         *)
(* (rb_push, rb_pop, uart_write_atomic, uart_irq_handler,                    *)
(* uart_getc_nonblock).                                                      *)
THEOREM OrderKept == Spec => CharsInOrder
<1>1. UartInv /\ [Next]_vars =>
        [irqMode' = irqMode =>
           \/ carried' \o Due' = Due \o said'
           \/ \E i \in 0..Len(Due) :
                /\ carried' \o Due'
                     = SubSeq(Due, 1, i) \o said' \o SubSeq(Due, i + 1, Len(Due))
                /\ \A j \in (i + 1)..Len(Due) : Due[j] \in FaultChars(off)
        ]_vars
  BY NextStep DEF StepOK, OutStep
<1>2. UartInv /\ [Next]_vars =>
        [irqMode' = irqMode =>
           \/ got' \o Unread' = Unread
           \/ got' = <<>> /\ \E c \in Input : Unread' = Append(Unread, c)
           \/ got' = <<>> /\ \E i \in (Size + 1)..Len(Unread) : Unread' = RemoveAt(Unread, i)
        ]_vars
  BY NextStep DEF StepOK, InStep
<1> QED BY <1>1, <1>2, DriverInvariant, PTL DEF Spec, CharsInOrder, OutputInOrder, InputInOrder

(* A number printed with interrupts off never waits for room in the ring     *)
(* (uart_dec and uart_hex of a trap handler, through uart_tx_enqueue).       *)
THEOREM NoSpin == Spec => []NoSpinOff
<1>1. UartInv => NoSpinOff
  <2>1. SUFFICES ASSUME UartInv, NEW w \in Writers,
                        pc[w] \in {"burst", "fault"}, left > 0
                 PROVE  ~Full(tx)
    BY DEF NoSpinOff
  <2>2. off = w /\ NoWriter \notin Writers /\ tx.count \in Nat /\ Size \in Nat
        /\ Burst \in Nat
    BY <2>1, Sequences, UartAssumption DEF UartInv, HasRoom, OffStates, Writers
  <2>3. tx.count + left <= Size /\ left \in Nat
    BY <2>1, <2>2 DEF UartInv, HasRoom, Types
  <2> QED BY <2>1, <2>2, <2>3 DEF Full
<1> QED BY <1>1, DriverInvariant, PTL
-----------------------------------------------------------------------------
(* The shell's line and the memory of its timeouts.                          *)
ShellTypes ==
  /\ text \in Seq(Letters) /\ row \in Seq(Letters \cup {Blank}) /\ column \in Nat
  /\ prompt \in BOOLEAN

(* Outside of cmd_set_timeout the shell has nothing in its hands, and in it  *)
(* only what it has come to.                                                 *)
InHandSoFar ==
  /\ step \in {"no", "message"} => message = NoBlock
  /\ step # "timer" => request = NoBlock
MemoryInv == TimeoutMemory /\ InHandSoFar
ShellInv == ShellTypes /\ LineAsShown /\ MemoryInv

LEMMA ShellInitInv == ShellInit => ShellInv
BY ShellAssumption
DEF ShellInit, ShellInv, ShellTypes, LineAsShown, MemoryInv, TimeoutMemory, InHandSoFar,
    Timeouts, InHands

(* What a character that is no backspace does to the screen, and what one    *)
(* that is does.                                                             *)
LEMMA ShowPrints ==
  ASSUME NEW r \in Seq(Letters \cup {Blank}), NEW k \in Nat, NEW c \in Letters \cup {Blank}
  PROVE  Show([row |-> r, column |-> k], c) =
           [row |-> [i \in 1 .. Len(r) + 1 |->
                       IF i = k + 1 THEN c ELSE IF i <= Len(r) THEN r[i] ELSE Blank],
            column |-> k + 1]
BY ShellAssumption DEF Show
LEMMA ShowMovesBack ==
  ASSUME NEW r, NEW k
  PROVE  Show([row |-> r, column |-> k], Backspace) = [row |-> r, column |-> k - 1]
BY DEF Show

(* A row of one more character is a row again.                               *)
LEMMA RowGrows ==
  ASSUME NEW r \in Seq(Letters \cup {Blank}), NEW k \in Nat, NEW c \in Letters \cup {Blank}
  PROVE  LET s == [i \in 1 .. Len(r) + 1 |->
                     IF i = k + 1 THEN c ELSE IF i <= Len(r) THEN r[i] ELSE Blank]
         IN  /\ s \in Seq(Letters \cup {Blank}) /\ Len(s) = Len(r) + 1
             /\ \A i \in 1 .. Len(r) + 1 :
                  s[i] = IF i = k + 1 THEN c ELSE IF i <= Len(r) THEN r[i] ELSE Blank
<1> DEFINE n == Len(r) + 1
           s == [i \in 1 .. n |-> IF i = k + 1 THEN c ELSE IF i <= Len(r) THEN r[i] ELSE Blank]
<1>1. n \in Nat /\ \A i \in 1 .. Len(r) : r[i] \in Letters \cup {Blank}
  OBVIOUS
<1>2. s \in [1 .. n -> Letters \cup {Blank}]
  BY <1>1
<1>3. s \in Seq(Letters \cup {Blank}) /\ Len(s) = n
  BY <1>1, <1>2
<1> QED BY <1>1, <1>3

LEMMA LetterKeeps ==
  ASSUME ShellInv, NEW c \in Letters, Letter(c)
  PROVE  ShellTypes' /\ LineAsShown'
<1>1. CASE Len(text) < MaxLen - 1
  <2> DEFINE grown == [i \in 1 .. Len(row) + 1 |->
                         IF i = column + 1 THEN c ELSE IF i <= Len(row) THEN row[i] ELSE Blank]
  <2>1. /\ ~prompt /\ text' = Append(text, c) /\ UNCHANGED prompt
        /\ row' = Show(Screen, c).row /\ column' = Show(Screen, c).column
    BY <1>1 DEF Letter, ReadsKey, Echoed, Shows
  <2>2. /\ text \in Seq(Letters) /\ row \in Seq(Letters \cup {Blank}) /\ column \in Nat
        /\ column = Len(text) /\ Len(text) <= Len(row)
        /\ \A i \in DOMAIN row : row[i] = IF i <= Len(text) THEN text[i] ELSE Blank
    BY <2>1 DEF ShellInv, ShellTypes, LineAsShown
  <2>3. row' = grown /\ column' = column + 1
    <3>1. Show([row |-> row, column |-> column], c)
            = [row |-> grown, column |-> column + 1]
      BY <2>2, ShowPrints
    <3> HIDE DEF grown
    <3> QED BY <2>1, <3>1 DEF Screen
  <2>4. /\ grown \in Seq(Letters \cup {Blank}) /\ Len(grown) = Len(row) + 1
        /\ \A i \in 1 .. Len(row) + 1 :
             grown[i] = IF i = column + 1 THEN c ELSE IF i <= Len(row) THEN row[i] ELSE Blank
    BY <2>2, RowGrows
  <2>5. /\ text' \in Seq(Letters) /\ Len(text') = Len(text) + 1
        /\ \A i \in 1 .. Len(text) : text'[i] = text[i]
        /\ text'[Len(text) + 1] = c
    BY <2>1, <2>2
  <2> HIDE DEF grown
  <2>6. ASSUME NEW i \in 1 .. Len(row) + 1
        PROVE  row'[i] = IF i <= Len(text') THEN text'[i] ELSE Blank
    <3>1. CASE i <= Len(text)
      <4>1. row'[i] = row[i]
        BY <2>2, <2>3, <2>4, <3>1
      <4>2. row[i] = text[i]
        BY <2>2, <3>1
      <4>3. text'[i] = text[i] /\ i <= Len(text')
        BY <2>2, <2>5, <3>1
      <4> QED BY <4>1, <4>2, <4>3
    <3>2. CASE i = Len(text) + 1
      BY <2>2, <2>3, <2>4, <2>5, <3>2
    <3>3. CASE i > Len(text) + 1
      <4>1. row'[i] = IF i <= Len(row) THEN row[i] ELSE Blank
        BY <2>2, <2>3, <2>4, <3>3
      <4>2. i \in DOMAIN row /\ ~(i <= Len(text)) => row[i] = Blank
        BY <2>2
      <4>3. (i <= Len(row) => i \in DOMAIN row) /\ ~(i <= Len(text)) /\ ~(i <= Len(text'))
        BY <2>2, <2>5, <3>3
      <4> QED BY <4>1, <4>2, <4>3
    <3> QED BY <3>1, <3>2, <3>3, <2>2
  <2>7. DOMAIN row' = 1 .. Len(row) + 1
    BY <2>3, <2>4
  <2>8. ShellTypes'
    BY <2>1, <2>2, <2>3, <2>4, <2>5 DEF ShellInv, ShellTypes
  <2>9. LineAsShown'
    <3>1. column' = Len(text') /\ Len(text') <= Len(row')
      BY <2>2, <2>3, <2>4, <2>5
    <3> QED BY <2>1, <2>6, <2>7, <3>1 DEF LineAsShown
  <2> QED BY <2>8, <2>9
<1>2. CASE ~(Len(text) < MaxLen - 1)
  <2>1. UNCHANGED <<text, row, column, prompt>>
    BY <1>2 DEF Letter, Echoed
  <2> QED BY <2>1 DEF ShellInv, ShellTypes, LineAsShown
<1> QED BY <1>1, <1>2

LEMMA EraseKeeps ==
  ASSUME ShellInv, Erase
  PROVE  ShellTypes' /\ LineAsShown'
<1>1. CASE text # <<>>
  <2> DEFINE k == column - 1
             blanked == [i \in 1 .. Len(row) + 1 |->
                           IF i = k + 1 THEN Blank ELSE IF i <= Len(row) THEN row[i] ELSE Blank]
             shown == Show(Show(Show(Screen, Backspace), Blank), Backspace)
  <2>1. /\ ~prompt /\ text' = Front(text) /\ UNCHANGED prompt
        /\ row' = shown.row /\ column' = shown.column
    BY <1>1 DEF Erase, ReadsKey, Shows
  <2>2. /\ text \in Seq(Letters) /\ row \in Seq(Letters \cup {Blank}) /\ column \in Nat
        /\ column = Len(text) /\ Len(text) <= Len(row)
        /\ \A i \in DOMAIN row : row[i] = IF i <= Len(text) THEN text[i] ELSE Blank
    BY <2>1 DEF ShellInv, ShellTypes, LineAsShown
  <2>3. k \in Nat /\ Len(text) = k + 1
    BY <1>1, <2>2
  <2>4. Show(Screen, Backspace) = [row |-> row, column |-> k]
    BY ShowMovesBack DEF Screen
  <2>5. Show([row |-> row, column |-> k], Blank) = [row |-> blanked, column |-> k + 1]
    BY <2>2, <2>3, ShowPrints
  <2>6. Show([row |-> blanked, column |-> k + 1], Backspace)
          = [row |-> blanked, column |-> (k + 1) - 1]
    BY ShowMovesBack
  <2>7. /\ blanked \in Seq(Letters \cup {Blank}) /\ Len(blanked) = Len(row) + 1
        /\ \A i \in 1 .. Len(row) + 1 :
             blanked[i] = IF i = k + 1 THEN Blank ELSE IF i <= Len(row) THEN row[i] ELSE Blank
    BY <2>2, <2>3, RowGrows
  <2>8. row' = blanked /\ column' = k
    <3> HIDE DEF blanked
    <3> QED BY <2>1, <2>3, <2>4, <2>5, <2>6
  <2>9. /\ text' \in Seq(Letters) /\ Len(text') = k
        /\ \A i \in 1 .. k : text'[i] = text[i]
    BY <2>1, <2>2, <2>3 DEF Front
  <2> HIDE DEF blanked, k, shown
  <2>10. ASSUME NEW i \in 1 .. Len(row) + 1
         PROVE  row'[i] = IF i <= Len(text') THEN text'[i] ELSE Blank
    <3>1. CASE i <= k
      <4>1. row'[i] = row[i]
        BY <2>2, <2>3, <2>7, <2>8, <3>1
      <4>2. row[i] = text[i]
        BY <2>2, <2>3, <3>1
      <4>3. text'[i] = text[i] /\ i <= Len(text')
        BY <2>3, <2>9, <3>1
      <4> QED BY <4>1, <4>2, <4>3
    <3>2. CASE i = k + 1
      BY <2>2, <2>3, <2>7, <2>8, <2>9, <3>2
    <3>3. CASE i > k + 1
      BY <2>2, <2>3, <2>7, <2>8, <2>9, <3>3
    <3> QED BY <3>1, <3>2, <3>3, <2>3
  <2>11. DOMAIN row' = 1 .. Len(row) + 1
    BY <2>7, <2>8
  <2>12. ShellTypes'
    BY <2>1, <2>3, <2>7, <2>8, <2>9 DEF ShellInv, ShellTypes
  <2>13. LineAsShown'
    <3>1. column' = Len(text') /\ Len(text') <= Len(row')
      BY <2>2, <2>3, <2>7, <2>8, <2>9
    <3> QED BY <2>1, <2>10, <2>11, <3>1 DEF LineAsShown
  <2> QED BY <2>12, <2>13
<1>2. CASE text = <<>>
  <2>1. UNCHANGED <<text, row, column, prompt>>
    BY <1>2 DEF Erase
  <2> QED BY <2>1 DEF ShellInv, ShellTypes, LineAsShown
<1> QED BY <1>1, <1>2

-----------------------------------------------------------------------------
(* A block that alloc() gives is nobody's.                                   *)
LEMMA AllocatedIsNew ==
  ASSUME MemoryInv, NEW b, Alloc(b)
  PROVE  /\ b # NoBlock => b \notin blocks /\ b \notin InHands
                           /\ \A t \in Timeouts : b \notin {t[1], t[2]}
         /\ blocks' = blocks \cup ({b} \ {NoBlock})
<1>1. CASE b = NoBlock /\ UNCHANGED blocks
  BY <1>1
<1>2. CASE /\ Blocks \ blocks # {} /\ b = (CHOOSE f \in Blocks \ blocks : TRUE)
           /\ blocks' = blocks \cup {b}
  <2>1. b \in Blocks \ blocks
    BY <1>2
  <2>2. b # NoBlock /\ b \notin blocks
    BY <2>1, ShellAssumption
  <2> QED BY <1>2, <2>2 DEF MemoryInv, TimeoutMemory
<1> QED BY <1>1, <1>2 DEF Alloc

LEMMA AllocKeeps ==
  ASSUME MemoryInv, AllocMessage \/ AllocRequest
  PROVE  MemoryInv'
<1>1. CASE AllocMessage
  <2>1. PICK b : Alloc(b) /\ message' = b
    BY <1>1 DEF AllocMessage
  <2>2. /\ step = "message" /\ step' = "request" /\ UNCHANGED <<request, pending, printing>>
        /\ message = NoBlock /\ request = NoBlock
    BY <1>1 DEF AllocMessage, MemoryInv, InHandSoFar
  <2>3. InHands = {} /\ InHands' = {b} \ {NoBlock} /\ Timeouts' = Timeouts
    BY <2>1, <2>2 DEF InHands, Timeouts
  <2>4. TimeoutMemory'
    BY <2>1, <2>2, <2>3, AllocatedIsNew DEF MemoryInv, TimeoutMemory
  <2> QED BY <2>2, <2>4 DEF MemoryInv, InHandSoFar
<1>2. CASE AllocRequest
  <2>1. PICK b : Alloc(b) /\ request' = b
    BY <1>2 DEF AllocRequest
  <2>2. /\ step = "request" /\ step' = "timer" /\ UNCHANGED <<message, pending, printing>>
        /\ request = NoBlock
    BY <1>2 DEF AllocRequest, MemoryInv, InHandSoFar
  <2>3. /\ InHands = {message} \ {NoBlock} /\ InHands' = InHands \cup ({b} \ {NoBlock})
        /\ Timeouts' = Timeouts
    BY <2>1, <2>2 DEF InHands, Timeouts
  <2>4. message = b => InHands' = {}
    BY <2>1, <2>3, AllocatedIsNew
  <2>5. TimeoutMemory'
    BY <2>1, <2>2, <2>3, <2>4, AllocatedIsNew DEF MemoryInv, TimeoutMemory
  <2> QED BY <2>2, <2>5 DEF MemoryInv, InHandSoFar
<1> QED BY <1>1, <1>2

LEMMA AddTimerKeeps ==
  ASSUME MemoryInv, AddTimer
  PROVE  MemoryInv'
<1>1. /\ step' = "no" /\ message' = NoBlock /\ request' = NoBlock /\ UNCHANGED printing
      /\ InHands' = {}
  BY DEF AddTimer, InHands
<1>2. CASE NoBlock \notin {message, request} /\ pending' = pending \cup {<<message, request>>}
           /\ UNCHANGED blocks
  <2> DEFINE n == <<message, request>>
  <2>1. InHands = {n[1], n[2]} /\ n[1] # n[2]
    BY <1>2 DEF InHands, MemoryInv, TimeoutMemory
  <2> HIDE DEF n
  <2>2. n \notin Timeouts
    BY <2>1 DEF MemoryInv, TimeoutMemory
  <2>3. Timeouts' = Timeouts \cup {n} /\ pending' \cap printing' = {}
    BY <1>1, <1>2, <2>2 DEF Timeouts, n, MemoryInv, TimeoutMemory
  <2>4. TimeoutMemory'
    BY <1>1, <1>2, <2>1, <2>3 DEF MemoryInv, TimeoutMemory
  <2> QED BY <1>1, <2>4 DEF MemoryInv, InHandSoFar
<1>3. CASE blocks' = blocks \ Frees /\ UNCHANGED pending
  <2>1. Frees = InHands /\ Timeouts' = Timeouts
    BY <1>1, <1>3 DEF Frees, InHands, Timeouts
  <2>2. TimeoutMemory'
    BY <1>1, <1>3, <2>1 DEF MemoryInv, TimeoutMemory
  <2> QED BY <1>1, <2>2 DEF MemoryInv, InHandSoFar
<1> QED BY <1>2, <1>3 DEF AddTimer

LEMMA TimeoutKeeps ==
  ASSUME MemoryInv, \/ \E t \in pending : TimeoutFires(t)
                    \/ \E t \in printing : TimeoutPrint(t)
  PROVE  MemoryInv'
<1>0. UNCHANGED <<step, message, request>> /\ InHands' = InHands
  BY DEF TimeoutFires, TimeoutPrint, InHands
<1>1. ASSUME NEW t \in pending, TimeoutFires(t)
      PROVE  TimeoutMemory'
  <2>1. Timeouts' = Timeouts /\ pending' \cap printing' = {} /\ UNCHANGED blocks
    BY <1>1 DEF TimeoutFires, Timeouts, MemoryInv, TimeoutMemory
  <2> QED BY <1>0, <2>1 DEF MemoryInv, TimeoutMemory
<1>2. ASSUME NEW t \in printing, TimeoutPrint(t)
      PROVE  TimeoutMemory'
  <2>1. /\ Timeouts' = Timeouts \ {t} /\ pending' \cap printing' = {}
        /\ blocks' = blocks \ {t[1], t[2]} /\ t \in Timeouts
    BY <1>2 DEF TimeoutPrint, Timeouts, MemoryInv, TimeoutMemory
  <2>2. blocks' = InHands' \cup UNION {{u[1], u[2]} : u \in Timeouts'}
    <3>1. /\ blocks = InHands \cup UNION {{u[1], u[2]} : u \in Timeouts}
          /\ InHands \cap {t[1], t[2]} = {}
          /\ \A u \in Timeouts : u # t => {t[1], t[2]} \cap {u[1], u[2]} = {}
      BY <2>1 DEF MemoryInv, TimeoutMemory
    <3>2. UNION {{u[1], u[2]} : u \in Timeouts} =
            (UNION {{u[1], u[2]} : u \in Timeouts \ {t}}) \cup {t[1], t[2]}
      BY <2>1
    <3>3. (UNION {{u[1], u[2]} : u \in Timeouts \ {t}}) \cap {t[1], t[2]} = {}
      BY <3>1
    <3> QED BY <1>0, <2>1, <3>1, <3>2, <3>3
  <2> QED BY <1>0, <2>1, <2>2 DEF MemoryInv, TimeoutMemory
<1>3. TimeoutMemory'
  BY <1>1, <1>2
<1> QED BY <1>0, <1>3 DEF MemoryInv, InHandSoFar

-----------------------------------------------------------------------------
LEMMA MemoryStays ==
  ASSUME MemoryInv, UNCHANGED timeoutVars
  PROVE  MemoryInv'
BY DEF timeoutVars, MemoryInv, TimeoutMemory, InHandSoFar, Timeouts, InHands

LEMMA ShellStep ==
  ASSUME ShellInv, [ShellNext]_shellVars
  PROVE  ShellInv'
<1>1. ASSUME NEW c \in Letters \cup {Newline, Backspace}, Type(c)
      PROVE  ShellInv'
  BY <1>1, MemoryStays DEF Type, ShellInv, ShellTypes, LineAsShown
<1>2. CASE ShowPrompt
  <2>1. text = <<>> /\ row' = <<>> /\ column' = 0 /\ UNCHANGED text /\ MemoryInv'
    BY <1>2, MemoryStays DEF ShowPrompt, ShellInv, LineAsShown
  <2>2. Len(text') = 0 /\ Len(row') = 0 /\ prompt' = FALSE
    BY <1>2, <2>1 DEF ShowPrompt
  <2>3. ShellTypes'
    <3>1. row' \in Seq(Letters \cup {Blank}) /\ column' \in Nat
      BY <2>1
    <3>2. text' \in Seq(Letters)
      BY <2>1 DEF ShellInv, ShellTypes
    <3> QED BY <2>2, <3>1, <3>2 DEF ShellTypes
  <2>4. LineAsShown'
    <3>1. DOMAIN row' = {}
      BY <2>1
    <3> QED BY <2>1, <2>2, <3>1 DEF LineAsShown
  <2> QED BY <2>1, <2>3, <2>4 DEF ShellInv
<1>3. CASE Erase
  <2>1. ShellTypes' /\ LineAsShown' /\ UNCHANGED timeoutVars
    BY <1>3, EraseKeeps DEF Erase
  <2> QED BY <2>1, MemoryStays DEF ShellInv
<1>4. CASE Execute
  <2>1. MemoryInv'
    <3>1. step = "no" /\ step' \in {"no", "message"}
          /\ UNCHANGED <<message, request, blocks, pending, printing>>
      BY <1>4 DEF Execute, ReadsKey
    <3> QED BY <3>1 DEF ShellInv, MemoryInv, TimeoutMemory, InHandSoFar, Timeouts, InHands
  <2>2. ShellTypes' /\ LineAsShown'
    BY <1>4 DEF Execute, ShellInv, ShellTypes, LineAsShown
  <2> QED BY <2>1, <2>2 DEF ShellInv
<1>5. CASE IdleTurn
  BY <1>5, MemoryStays DEF IdleTurn, ShellInv, ShellTypes, LineAsShown
<1>6. ASSUME NEW c \in Letters, Letter(c)
      PROVE  ShellInv'
  <2>1. ShellTypes' /\ LineAsShown' /\ UNCHANGED timeoutVars
    BY <1>6, LetterKeeps DEF Letter
  <2> QED BY <2>1, MemoryStays DEF ShellInv
<1>7. CASE ProgramReads \/ ProgramEnds \/ UNCHANGED shellVars
  BY <1>7, MemoryStays DEF ProgramReads, ProgramEnds, shellVars, lineEdit, ShellInv, ShellTypes, LineAsShown
<1>8. CASE \/ AllocMessage \/ AllocRequest \/ AddTimer
           \/ \E t \in pending : TimeoutFires(t)
           \/ \E t \in printing : TimeoutPrint(t)
  <2>1. MemoryInv'
    BY <1>8, AllocKeeps, AddTimerKeeps, TimeoutKeeps DEF ShellInv
  <2>2. UNCHANGED lineEdit
    BY <1>8 DEF AllocMessage, AllocRequest, AddTimer, TimeoutFires, TimeoutPrint
  <2> QED BY <2>1, <2>2 DEF lineEdit, ShellInv, ShellTypes, LineAsShown
<1> QED BY <1>1, <1>2, <1>3, <1>4, <1>5, <1>6, <1>7, <1>8 DEF ShellNext

(* Whatever is typed, the line that is run is the one on the screen; and     *)
(* the memory of timeouts belongs to those that are pending or being         *)
(* printed, each its own, or to the command that asks for one, whichever of  *)
(* its steps fails (shell_poll_once, cmd_set_timeout, timeout_print_cb).     *)
THEOREM BooksKept == ShellSpec => []ShellKeepsBooks
<1>1. ShellInv => ShellKeepsBooks
  BY DEF ShellInv, MemoryInv, ShellKeepsBooks
<1> QED BY <1>1, ShellInitInv, ShellStep, PTL DEF ShellSpec
=============================================================================
