--------------------------- MODULE TrapFrameProofs ---------------------------
(***************************************************************************)
(* Every trap resumes what it interrupted, for any number of threads and   *)
(* any depth of nesting, as long as no interrupt hits a window of the      *)
(* return.                                                                 *)
(*                                                                         *)
(* The argument: the traps a thread has not finished lie one above the     *)
(* other on its own kernel stack, and each has saved exactly where the     *)
(* thread was one level down (Kept); where it was is itself a place in     *)
(* this code (Sound), in particular with the registers that the return     *)
(* has loaded so far.  sscratch names a stack only while the thread that   *)
(* runs is in user mode or is about to be (Scratch), so the next trap      *)
(* finds the right place for its frame.  All of this ends with the first   *)
(* interrupt in a window, where the code goes wrong.                       *)
(*                                                                         *)
(* The second half is about the stacks of the lab5 kernel: a register of a *)
(* process never points into a stack that is somebody else's, or nobody's  *)
(* any more, for any number of processes and any depth of calls, as long   *)
(* as fork is called by the program itself, below no frame.  The           *)
(* argument: a block is named after the thread that owns it and is in use  *)
(* exactly while it does (Owns, Books); a living thread is in its handler  *)
(* or not, and this says which stacks its registers may name (Points); and *)
(* the ring holds everyone who has a struct (Linked), the idle thread too, *)
(* so schedule() always finds somebody whose struct is there.              *)
(***************************************************************************)
EXTENDS TrapFrame, StackProcesses, FiniteSetTheorems, SequenceTheorems, WellFoundedInduction,
  TLAPS

Pcs == {"user", "thread", "handler", "exit", "load", "sepc", "sstatus"}
Modes == {"U", "S"}
Statuses == [spp : Modes, spie : BOOLEAN, sie : BOOLEAN]
Pointers == Threads \X Int
Words == Pcs \cup {"zero"}
Places == [pc : Pcs, mode : Modes, sp : Pointers, t0 : Words, t1 : Statuses]
SavedFrames == [sp : Pointers, sepc : Pcs, status : Statuses, t0 : Words, t1 : Statuses]

Types ==
  /\ cur \in Threads
  /\ pc \in [Threads -> Pcs] /\ mode \in [Threads -> Modes]
  /\ sp \in [Threads -> Pointers]
  /\ t0 \in [Threads -> Words] /\ t1 \in [Threads -> Statuses]
  /\ flags \in [Threads -> Statuses]
  /\ sepc \in Pcs /\ spp \in Modes /\ spie \in BOOLEAN /\ sie \in BOOLEAN
  /\ frame \in [FrameSlots -> SavedFrames]
  /\ owed \in [Threads -> Seq(Places)]

-----------------------------------------------------------------------------
(* A thread with k unfinished traps: what it does without any, its stack     *)
(* pointer and its mode.                                                     *)
AtRest(t) == IF t \in UserThreads THEN "user" ELSE "thread"
Top(t, k) == <<t, IF k = 0 /\ t \in UserThreads THEN User ELSE k>>
ModeAt(t, k) == IF k = 0 /\ t \in UserThreads THEN "U" ELSE "S"

(* r is a place at which such a thread can be, given the frames fr.          *)
Sound(fr, t, k, r) ==
  /\ r.sp = Top(t, k) /\ r.mode = ModeAt(t, k)
  /\ IF k = 0 THEN r.pc = AtRest(t) ELSE r.pc \in Pcs \ {"user", "thread"}
  /\ r.pc \in {"sepc", "sstatus"} => r.t1 = fr[<<t, k>>].status
  /\ r.pc = "sepc" => r.t0 = fr[<<t, k>>].sepc
Kept(f, r) ==
  /\ f.sp = r.sp /\ f.sepc = r.pc /\ f.status.spp = r.mode
  /\ f.t0 = r.t0 /\ f.t1 = r.t1

(* A place that was interrupted outside the windows.                         *)
Harmless(t, k, r) ==
  /\ r.pc # "sstatus"
  /\ r.pc \in {"load", "sepc"} => ModeAt(t, k - 1) = "S"

Now(t) == Resume(pc[t], mode[t], sp[t], t0[t], t1[t])
Nested(t) == Len(owed[t])

ThreadSound(t) ==
  /\ Nested(t) <= Depth
  /\ Sound(frame, t, Nested(t), Now(t))
  /\ \A i \in 1..Nested(t) : /\ Sound(frame, t, i - 1, owed[t][i])
                             /\ Harmless(t, i - 1, owed[t][i])
                             /\ Kept(frame[<<t, i>>], owed[t][i])
ThreadsSound == \A t \in Threads : ThreadSound(t)

Leaving == pc[cur] \in {"load", "sepc", "sstatus"}
Scratch ==
  /\ sscratch = IF mode[cur] = "U" \/ (Leaving /\ ModeAt(cur, Nested(cur) - 1) = "U")
                THEN <<cur, 0>> ELSE NoStack
  /\ pc[cur] = "sstatus" => sepc = frame[<<cur, Nested(cur)>>].sepc
  /\ \A t \in Threads \ {cur} : pc[t] \in {"handler", "thread", "exit"}

Nests == Types /\ ThreadsSound /\ Scratch
TrapInv == ~spoilt => Nests

-----------------------------------------------------------------------------
LEMMA NestedNat ==
  ASSUME Types
  PROVE  \A t \in Threads : Nested(t) \in Nat /\ owed[t] \in Seq(Places)
BY LenProperties DEF Types, Nested

LEMMA Here ==
  ASSUME Types, ThreadsSound
  PROVE  /\ cur \in Threads /\ Nested(cur) \in Nat /\ Nested(cur) <= Depth
         /\ sp[cur] = Top(cur, Nested(cur)) /\ mode[cur] = ModeAt(cur, Nested(cur))
         /\ IF Nested(cur) = 0 THEN pc[cur] = AtRest(cur) ELSE pc[cur] \in Pcs \ {"user", "thread"}
         /\ pc[cur] \in {"sepc", "sstatus"} => t1[cur] = frame[<<cur, Nested(cur)>>].status
         /\ pc[cur] = "sepc" => t0[cur] = frame[<<cur, Nested(cur)>>].sepc
<1>1. cur \in Threads /\ ThreadSound(cur)
  BY DEF Types, ThreadsSound
<1> QED BY <1>1, NestedNat DEF ThreadSound, Sound, Now, Resume

(* In the way out of a trap there is a trap, and its frame is on the stack.  *)
LEMMA TopFrame ==
  ASSUME Types, ThreadsSound, Nested(cur) # 0
  PROVE  /\ sp[cur] = <<cur, Nested(cur)>> /\ <<cur, Nested(cur)>> \in FrameSlots
         /\ Nested(cur) \in 1..Nested(cur) /\ mode[cur] = "S"
         /\ frame[<<cur, Nested(cur)>>] \in SavedFrames
<1>1. Nested(cur) \in Nat /\ Nested(cur) <= Depth /\ cur \in Threads /\ Depth \in Nat
  BY Here, TrapFrameAssumption
<1>2. <<cur, Nested(cur)>> \in FrameSlots
  BY <1>1 DEF FrameSlots
<1>3. sp[cur] = <<cur, Nested(cur)>> /\ mode[cur] = "S"
  BY Here DEF Top, ModeAt
<1> QED BY <1>1, <1>2, <1>3 DEF Types

LEMMA InitNests ==
  ASSUME Init
  PROVE  Nests
<1>1. /\ Boot \in Threads /\ Depth \in Nat /\ 1 <= Depth
      /\ \A t \in Threads : t \in UserThreads <=> t \notin KernelThreads
      /\ NoStatus \in Statuses
  BY TrapFrameAssumption DEF Threads, NoStatus, Status, Statuses, Modes
<1>2. Types
  <2>1. \A t \in Threads : First(t) \in SavedFrames
    BY <1>1 DEF First, Frame, SavedFrames, Pointers, Pcs, Words, Status, Statuses, Modes, User
  <2>2. frame \in [FrameSlots -> SavedFrames]
    BY <2>1 DEF Init, FrameSlots
  <2>3. owed \in [Threads -> Seq(Places)]
    <3>1. \A t \in Threads : Resume("user", "U", <<t, User>>, "zero", NoStatus) \in Places
      <4>1. \A t \in Threads : <<t, User>> \in Pointers
        BY DEF Pointers, User
      <4>2. "user" \in Pcs /\ "U" \in Modes /\ "zero" \in Words /\ NoStatus \in Statuses
        BY <1>1 DEF Pcs, Modes, Words
      <4> QED BY <4>1, <4>2 DEF Resume, Places
    <3>2. \A t \in Threads :
            /\ <<Resume("user", "U", <<t, User>>, "zero", NoStatus)>> \in Seq(Places)
            /\ <<>> \in Seq(Places)
      BY <3>1
    <3> QED BY <3>2 DEF Init
  <2>4. \A t \in Threads : Status("U", FALSE, t \in KernelThreads) \in Statuses
    BY DEF Status, Statuses, Modes
  <2>5. /\ pc \in [Threads -> Pcs] /\ mode \in [Threads -> Modes]
        /\ t0 \in [Threads -> Words] /\ sepc \in Pcs /\ spp \in Modes
    BY DEF Init, Pcs, Modes, Words
  <2>6. sp \in [Threads -> Pointers]
    BY DEF Init, Pointers
  <2>7. t1 \in [Threads -> Statuses] /\ flags \in [Threads -> Statuses]
    BY <1>1, <2>4 DEF Init
  <2> QED BY <1>1, <2>2, <2>3, <2>5, <2>6, <2>7 DEF Init, Types
<1>3. ThreadsSound
  <2>1. SUFFICES ASSUME NEW t \in Threads PROVE ThreadSound(t)
    BY DEF ThreadsSound
  <2>2. CASE t \in UserThreads
    <3>1. /\ Nested(t) = 1 /\ owed[t][1] = Resume("user", "U", <<t, User>>, "zero", NoStatus)
          /\ <<t, 1>> \in FrameSlots /\ frame[<<t, 1>>] = First(t)
      BY <1>1, <2>2 DEF Init, Nested, FrameSlots
    <3>2. Now(t) = Resume("exit", "S", <<t, 1>>, "zero", NoStatus)
      BY <2>2 DEF Init, Now
    <3> QED BY <1>1, <2>2, <3>1, <3>2
        DEF ThreadSound, Sound, Harmless, Kept, Resume, First, Frame, Status, Top, ModeAt,
            AtRest, Pcs
  <2>3. CASE t \notin UserThreads
    <3>1. Nested(t) = 0
      BY <2>3 DEF Init, Nested
    <3>2. Now(t) = Resume("thread", "S", <<t, 0>>, "zero", NoStatus)
      BY <2>3 DEF Init, Now
    <3> QED BY <1>1, <2>3, <3>1, <3>2 DEF ThreadSound, Sound, Resume, Top, ModeAt, AtRest
  <2> QED BY <2>2, <2>3
<1>4. Scratch
  <2>1. Boot \notin UserThreads
    BY TrapFrameAssumption
  <2> QED BY <1>1, <2>1 DEF Init, Scratch, Leaving
<1> QED BY <1>2, <1>3, <1>4 DEF Nests

-----------------------------------------------------------------------------
(* Steps of one thread that neither enter nor leave a trap.                  *)

LEMMA OneMoves ==
  ASSUME Types, ThreadsSound, UNCHANGED <<frame, owed>>,
         \A t \in Threads \ {cur} :
            /\ pc'[t] = pc[t] /\ mode'[t] = mode[t] /\ sp'[t] = sp[t]
            /\ t0'[t] = t0[t] /\ t1'[t] = t1[t],
         Sound(frame, cur, Nested(cur),
               Resume(pc'[cur], mode'[cur], sp'[cur], t0'[cur], t1'[cur]))
  PROVE  ThreadsSound'
<1>1. SUFFICES ASSUME NEW t \in Threads PROVE ThreadSound(t)'
  BY DEF ThreadsSound
<1>2. ThreadSound(t) /\ Nested(t)' = Nested(t)
  BY DEF ThreadsSound, Nested
<1>3. Sound(frame, t, Nested(t), Now(t)')
  <2>1. CASE t = cur
    BY <2>1 DEF Now
  <2>2. CASE t # cur
    BY <1>2, <2>2 DEF Now, ThreadSound
  <2> QED BY <2>1, <2>2
<1> QED BY <1>2, <1>3 DEF ThreadSound

LEMMA RunTasksStep ==
  ASSUME Nests, RunTasks
  PROVE  Nests'
<1>1. /\ sie' = TRUE
      /\ UNCHANGED <<cur, threadVars, flags, sscratch, sepc, spp, spie, frame, owed>>
  BY DEF RunTasks
<1>2. Types'
  BY <1>1 DEF Nests, Types, threadVars
<1>3. ThreadsSound'
  BY <1>1 DEF Nests, ThreadsSound, ThreadSound, Nested, Now, threadVars
<1>4. Scratch'
  BY <1>1 DEF Nests, Scratch, Leaving, Nested, threadVars
<1> QED BY <1>2, <1>3, <1>4 DEF Nests

LEMMA HandledStep ==
  ASSUME Nests, Handled
  PROVE  Nests'
<1>1. /\ pc[cur] = "handler" /\ pc' = [pc EXCEPT ![cur] = "exit"]
      /\ UNCHANGED <<cur, mode, sp, t0, t1, flags, csrs, frame, owed>>
  BY DEF Handled
<1>2. Types'
  BY <1>1 DEF Nests, Types, csrs, Pcs
<1>3. Nested(cur) # 0 /\ pc'[cur] = "exit"
        /\ \A t \in Threads \ {cur} : pc'[t] = pc[t]
  BY <1>1, Here DEF Nests, Types, AtRest
<1>4. ThreadsSound'
  <2>1. Sound(frame, cur, Nested(cur),
              Resume(pc'[cur], mode'[cur], sp'[cur], t0'[cur], t1'[cur]))
    BY <1>1, <1>3, Here DEF Nests, Sound, Resume, Pcs
  <2> QED BY <1>1, <1>3, <2>1, OneMoves DEF Nests
<1>5. Scratch'
  BY <1>1, <1>3 DEF Nests, Scratch, Leaving, Nested, csrs
<1> QED BY <1>2, <1>4, <1>5 DEF Nests

LEMMA RestoreScratchStep ==
  ASSUME Nests, RestoreScratch
  PROVE  Nests'
<1>1. /\ pc[cur] = "exit" /\ pc' = [pc EXCEPT ![cur] = "load"]
      /\ sscratch' = IF ToUser THEN <<sp[cur][1], sp[cur][2] - 1>> ELSE sscratch
      /\ UNCHANGED <<cur, mode, sp, t0, t1, flags, sepc, spp, spie, sie, frame, owed>>
  BY DEF RestoreScratch
<1>2. Types'
  BY <1>1 DEF Nests, Types, Pcs
<1>3. /\ Nested(cur) # 0 /\ Nested(cur) \in Nat /\ pc'[cur] = "load"
      /\ \A t \in Threads \ {cur} : pc'[t] = pc[t]
  BY <1>1, Here DEF Nests, Types, AtRest
<1>4. ThreadsSound'
  <2>1. Sound(frame, cur, Nested(cur),
              Resume(pc'[cur], mode'[cur], sp'[cur], t0'[cur], t1'[cur]))
    BY <1>1, <1>3, Here DEF Nests, Sound, Resume, Pcs
  <2> QED BY <1>1, <1>3, <2>1, OneMoves DEF Nests
<1>5. Scratch'
  <2>1. /\ sp[cur] = <<cur, Nested(cur)>> /\ mode[cur] = "S" /\ cur \in Threads
        /\ Nested(cur) \in 1..Nested(cur)
    BY <1>3, TopFrame DEF Nests, Types
  <2>2. ToUser <=> ModeAt(cur, Nested(cur) - 1) = "U"
    BY <2>1 DEF Nests, ThreadsSound, ThreadSound, Sound, Kept, ToUser
  <2>3. ToUser => Nested(cur) = 1
    BY <1>3, <2>2 DEF ModeAt
  <2>4. sscratch = NoStack
    BY <1>1, <2>1 DEF Nests, Scratch, Leaving
  <2>5. sscratch' = IF ToUser THEN <<cur, 0>> ELSE NoStack
    BY <1>1, <2>1, <2>3, <2>4
  <2>6. Nested(cur)' = Nested(cur)
    BY <1>1 DEF Nested
  <2> QED BY <1>1, <1>3, <2>1, <2>2, <2>5, <2>6 DEF Nests, Scratch, Leaving
<1> QED BY <1>2, <1>4, <1>5 DEF Nests

LEMMA LoadStep ==
  ASSUME Nests, Load
  PROVE  Nests'
<1>1. /\ pc[cur] = "load" /\ pc' = [pc EXCEPT ![cur] = "sepc"]
      /\ t0' = [t0 EXCEPT ![cur] = frame[sp[cur]].sepc]
      /\ t1' = [t1 EXCEPT ![cur] = frame[sp[cur]].status]
      /\ UNCHANGED <<cur, mode, sp, flags, csrs, frame, owed>>
  BY DEF Load
<1>2. Nested(cur) # 0
  BY <1>1, Here DEF Nests, AtRest
<1>3. sp[cur] = <<cur, Nested(cur)>> /\ frame[<<cur, Nested(cur)>>] \in SavedFrames
  BY <1>2, TopFrame DEF Nests
<1>4. PICK f \in SavedFrames : f = frame[<<cur, Nested(cur)>>]
  BY <1>3
<1>5. f.sepc \in Pcs /\ f.status \in Statuses
  BY DEF SavedFrames
<1>6. /\ pc'[cur] = "sepc" /\ t0'[cur] = f.sepc /\ t1'[cur] = f.status
      /\ \A t \in Threads \ {cur} : pc'[t] = pc[t] /\ t0'[t] = t0[t] /\ t1'[t] = t1[t]
  BY <1>1, <1>3, <1>4 DEF Nests, Types
<1>7. Types'
  <2>1. t0' \in [Threads -> Words] /\ t1' \in [Threads -> Statuses]
    BY <1>1, <1>3, <1>4, <1>5 DEF Nests, Types, Words
  <2> QED BY <1>1, <2>1 DEF Nests, Types, Pcs, csrs
<1>8. ThreadsSound'
  <2>1. Sound(frame, cur, Nested(cur),
              Resume(pc'[cur], mode'[cur], sp'[cur], t0'[cur], t1'[cur]))
    BY <1>1, <1>2, <1>4, <1>6, Here DEF Nests, Sound, Resume, Pcs
  <2> QED BY <1>1, <1>6, <2>1, OneMoves DEF Nests
<1>9. Scratch'
  BY <1>1, <1>6 DEF Nests, Scratch, Leaving, Nested, csrs
<1> QED BY <1>7, <1>8, <1>9 DEF Nests

LEMMA WriteSepcStep ==
  ASSUME Nests, WriteSepc
  PROVE  Nests'
<1>1. /\ pc[cur] = "sepc" /\ pc' = [pc EXCEPT ![cur] = "sstatus"] /\ sepc' = t0[cur]
      /\ UNCHANGED <<cur, mode, sp, t0, t1, flags, sscratch, spp, spie, sie, frame, owed>>
  BY DEF WriteSepc
<1>2. Nested(cur) # 0 /\ sepc' = frame[<<cur, Nested(cur)>>].sepc
  BY <1>1, Here DEF Nests, AtRest
<1>3. frame[<<cur, Nested(cur)>>] \in SavedFrames
  BY <1>2, TopFrame DEF Nests
<1>4. Types'
  BY <1>1, <1>2, <1>3 DEF Nests, Types, Pcs, SavedFrames
<1>5. pc'[cur] = "sstatus" /\ \A t \in Threads \ {cur} : pc'[t] = pc[t]
  BY <1>1 DEF Nests, Types
<1>6. ThreadsSound'
  <2>1. Sound(frame, cur, Nested(cur),
              Resume(pc'[cur], mode'[cur], sp'[cur], t0'[cur], t1'[cur]))
    BY <1>1, <1>2, <1>5, Here DEF Nests, Sound, Resume, Pcs
  <2> QED BY <1>1, <1>5, <2>1, OneMoves DEF Nests
<1>7. Scratch'
  BY <1>1, <1>2, <1>5 DEF Nests, Scratch, Leaving, Nested
<1> QED BY <1>4, <1>6, <1>7 DEF Nests

LEMMA SwitchStep ==
  ASSUME Nests, NEW t \in Threads, Switch(t)
  PROVE  Nests'
<1>1. /\ t # cur /\ pc[cur] \in {"handler", "thread"} /\ cur' = t
      /\ flags' = [flags EXCEPT ![cur] = Status(spp, spie, sie)]
      /\ UNCHANGED <<threadVars, sscratch, sepc, frame, owed>>
  BY DEF Switch
<1>2. Types'
  <2>1. Status(spp, spie, sie) \in Statuses
    BY DEF Nests, Types, Status, Statuses
  <2>2. spp' \in Modes /\ spie' \in BOOLEAN /\ sie' \in BOOLEAN
    <3>1. flags[t] \in Statuses /\ spp \in Modes /\ spie \in BOOLEAN
      BY DEF Nests, Types
    <3>2. flags[t].spp \in Modes /\ flags[t].spie \in BOOLEAN /\ flags[t].sie \in BOOLEAN
      BY <3>1 DEF Statuses
    <3> QED BY <3>1, <3>2 DEF Switch
  <2>3. flags' \in [Threads -> Statuses]
    BY <1>1, <2>1 DEF Nests, Types
  <2> QED BY <1>1, <2>2, <2>3 DEF Nests, Types, threadVars
<1>3. ThreadsSound'
  BY <1>1 DEF Nests, ThreadsSound, ThreadSound, Nested, Now, threadVars
<1>4. Scratch'
  <2>1. mode[cur] = "S" /\ pc[t] \in {"handler", "thread", "exit"}
    BY <1>1, Here DEF Nests, ModeAt, AtRest, Scratch
  <2>2. sscratch = NoStack
    BY <1>1, <2>1 DEF Nests, Scratch, Leaving
  <2>3. mode[t] = "S"
    BY <2>1, NestedNat DEF Nests, ThreadsSound, ThreadSound, Sound, Now, Resume, ModeAt, AtRest
  <2> QED BY <1>1, <2>1, <2>2, <2>3 DEF Nests, Scratch, Leaving, threadVars
<1> QED BY <1>2, <1>3, <1>4 DEF Nests

-----------------------------------------------------------------------------
(* Into a trap and out of it.                                                *)

LEMMA Appended ==
  ASSUME NEW S, NEW q \in Seq(S), NEW e \in S
  PROVE  /\ Append(q, e) \in Seq(S) /\ Len(Append(q, e)) = Len(q) + 1
         /\ \A i \in 1..Len(q) : Append(q, e)[i] = q[i]
         /\ Append(q, e)[Len(q) + 1] = e
BY AppendProperties

LEMMA WithoutLast ==
  ASSUME NEW S, NEW q \in Seq(S), q # <<>>
  PROVE  /\ Front(q) \in Seq(S) /\ Len(Front(q)) = Len(q) - 1 /\ Len(q) \in Nat \ {0}
         /\ \A i \in 1..(Len(q) - 1) : Front(q)[i] = q[i]
         /\ Last(q) = q[Len(q)]
<1>1. Len(q) \in Nat /\ Len(q) # 0
  BY LenProperties, EmptySeq
<1>2. PICK n \in Nat : n = Len(q) - 1
  BY <1>1
<1>3. \A i \in 1..n : q[i] \in S
  BY <1>1, <1>2, ElementOfSeq
<1>4. /\ SubSeq(q, 1, n) \in Seq(S)
      /\ Len(SubSeq(q, 1, n)) = IF 1 <= n THEN n - 1 + 1 ELSE 0
      /\ \A i \in 1..(n - 1 + 1) : SubSeq(q, 1, n)[i] = q[1 + i - 1]
  BY <1>2, <1>3, SubSeqProperties
<1>5. /\ SubSeq(q, 1, n) \in Seq(S) /\ Len(SubSeq(q, 1, n)) = n
      /\ \A i \in 1..n : SubSeq(q, 1, n)[i] = q[i]
  BY <1>2, <1>4
<1> QED BY <1>1, <1>2, <1>5 DEF Front, Last

(* The new frame lies above those of the traps it interrupts.                *)
LEMMA EnterBase ==
  ASSUME Nests, Enter, ~Window
  PROVE  /\ Base = <<cur, Nested(cur)>>
         /\ <<cur, Nested(cur) + 1>> \in FrameSlots /\ Nested(cur) + 1 <= Depth
         /\ pc[cur] # "sstatus"
         /\ pc[cur] \in {"load", "sepc"} =>
              Nested(cur) # 0 /\ ModeAt(cur, Nested(cur) - 1) = "S"
<1>1. /\ pc[cur] # "sstatus"
      /\ pc[cur] \in {"load", "sepc"} => sscratch = NoStack
  BY DEF Window
<1>2. <<cur, 0>> # NoStack
  BY TrapFrameAssumption DEF Nests, Types
<1>3. /\ cur \in Threads /\ Nested(cur) \in Nat /\ Nested(cur) <= Depth
      /\ sp[cur] = Top(cur, Nested(cur)) /\ mode[cur] = ModeAt(cur, Nested(cur))
      /\ pc[cur] \in {"load", "sepc"} => Nested(cur) # 0
  BY Here DEF Nests, AtRest
<1>4. pc[cur] \in {"load", "sepc"} => ModeAt(cur, Nested(cur) - 1) = "S"
  BY <1>1, <1>2, <1>3 DEF Nests, Scratch, Leaving, ModeAt
<1>5. Base = <<cur, Nested(cur)>>
  <2>1. CASE mode[cur] = "U"
    <3>1. Nested(cur) = 0 /\ sscratch = <<cur, 0>>
      BY <1>3, <2>1 DEF Nests, Scratch, ModeAt
    <3> QED BY <1>2, <3>1 DEF Base
  <2>2. CASE mode[cur] # "U"
    <3>1. sscratch = NoStack
      BY <1>1, <1>3, <1>4, <2>2 DEF Nests, Scratch, Leaving, ModeAt
    <3>2. sp[cur] = <<cur, Nested(cur)>>
      BY <1>3, <2>2 DEF Top, ModeAt
    <3> QED BY <3>1, <3>2 DEF Base
  <2> QED BY <2>1, <2>2
<1>6. <<cur, Nested(cur) + 1>> \in FrameSlots
  BY <1>5 DEF Enter
<1>7. Nested(cur) + 1 <= Depth
  BY <1>3, <1>6, TrapFrameAssumption DEF FrameSlots
<1> QED BY <1>1, <1>3, <1>4, <1>5, <1>6, <1>7

LEMMA EnterStep ==
  ASSUME Nests, Enter, ~Window
  PROVE  Nests'
<1> DEFINE k == Nested(cur)
           f == Frame(sp[cur], pc[cur], Status(mode[cur], sie, FALSE), t0[cur], t1[cur])
           r == Resume(pc[cur], mode[cur], sp[cur], t0[cur], t1[cur])
<1>1. /\ Base = <<cur, k>> /\ <<cur, k + 1>> \in FrameSlots /\ k + 1 <= Depth
      /\ pc[cur] # "sstatus"
      /\ pc[cur] \in {"load", "sepc"} => ModeAt(cur, k - 1) = "S"
      /\ k \in Nat /\ cur \in Threads /\ Depth \in Nat
  BY EnterBase, Here, TrapFrameAssumption DEF Nests
<1>2. f \in SavedFrames /\ r \in Places
  <2>1. Status(mode[cur], sie, FALSE) \in Statuses
    BY DEF Nests, Types, Status, Statuses
  <2>2. /\ sp[cur] \in Pointers /\ pc[cur] \in Pcs /\ t0[cur] \in Words
        /\ t1[cur] \in Statuses /\ mode[cur] \in Modes
    BY DEF Nests, Types
  <2> QED BY <2>1, <2>2 DEF Frame, SavedFrames, Resume, Places
<1>3. /\ frame' = [frame EXCEPT ![<<cur, k + 1>>] = f]
      /\ owed' = [owed EXCEPT ![cur] = Append(owed[cur], r)]
  BY <1>1 DEF Enter
<1>4. /\ sepc' = pc[cur] /\ spp' = mode[cur] /\ spie' = sie /\ sie' = FALSE
      /\ sp' = [sp EXCEPT ![cur] = <<cur, k + 1>>]
      /\ pc' = [pc EXCEPT ![cur] = "handler"] /\ mode' = [mode EXCEPT ![cur] = "S"]
      /\ sscratch' = NoStack /\ UNCHANGED <<cur, t0, t1, flags>>
  BY <1>1 DEF Enter, ScratchAfter
<1>5. Kept(f, r)
  BY DEF Kept, Frame, Resume, Status
<1>6. /\ owed[cur] \in Seq(Places) /\ Append(owed[cur], r) \in Seq(Places)
      /\ Len(Append(owed[cur], r)) = k + 1
      /\ \A i \in 1..k : Append(owed[cur], r)[i] = owed[cur][i]
      /\ Append(owed[cur], r)[k + 1] = r
  BY <1>1, <1>2, NestedNat, Appended DEF Nests, Nested
<1>7. Sound(frame, cur, k, r) /\ Harmless(cur, k, r)
  BY <1>1 DEF Nests, ThreadsSound, ThreadSound, Now, Harmless, Resume
<1> HIDE DEF k, f, r
<1>8. Types'
  <2>1. <<cur, k + 1>> \in Pointers
    BY <1>1 DEF Pointers
  <2>2. /\ pc' \in [Threads -> Pcs] /\ mode' \in [Threads -> Modes]
        /\ sp' \in [Threads -> Pointers] /\ pc[cur] \in Pcs /\ mode[cur] \in Modes
    BY <1>4, <2>1 DEF Nests, Types, Pcs, Modes
  <2>3. frame' \in [FrameSlots -> SavedFrames]
    BY <1>2, <1>3 DEF Nests, Types
  <2>4. owed' \in [Threads -> Seq(Places)]
    BY <1>3, <1>6 DEF Nests, Types
  <2> QED BY <1>4, <2>2, <2>3, <2>4 DEF Nests, Types
<1>9. /\ \A s \in FrameSlots \ {<<cur, k + 1>>} : frame'[s] = frame[s]
      /\ frame'[<<cur, k + 1>>] = f
  BY <1>1, <1>3 DEF Nests, Types
<1>10. ThreadsSound'
  <2>1. SUFFICES ASSUME NEW t \in Threads PROVE ThreadSound(t)'
    BY DEF ThreadsSound
  <2>2. CASE t = cur
    <3>1. owed'[t] = Append(owed[cur], r) /\ Nested(t)' = k + 1
      BY <1>3, <1>6, <2>2 DEF Nests, Types, Nested
    <3>2. Now(t)' = Resume("handler", "S", <<cur, k + 1>>, t0[cur], t1[cur])
      BY <1>4, <2>2 DEF Nests, Types, Now
    <3>3. Sound(frame', t, k + 1, Now(t)')
      BY <1>1, <2>2, <3>2 DEF Sound, Resume, Top, ModeAt, Pcs
    <3>4. Sound(frame', cur, k, r)
      <4>1. CASE k = 0
        BY <1>7, <4>1 DEF Sound, AtRest
      <4>2. CASE k # 0
        <5>1. <<cur, k>> \in FrameSlots \ {<<cur, k + 1>>}
          BY <1>1, <4>2 DEF FrameSlots
        <5> QED BY <1>7, <1>9, <5>1 DEF Sound
      <4> QED BY <4>1, <4>2
    <3>5. ASSUME NEW i \in 1..k
          PROVE  /\ Sound(frame', cur, i - 1, owed[cur][i])
                 /\ Harmless(cur, i - 1, owed[cur][i])
                 /\ Kept(frame'[<<cur, i>>], owed[cur][i])
      <4>1. /\ Sound(frame, cur, i - 1, owed[cur][i])
            /\ Harmless(cur, i - 1, owed[cur][i])
            /\ Kept(frame[<<cur, i>>], owed[cur][i])
        BY <1>1 DEF Nests, ThreadsSound, ThreadSound, k
      <4>2. i \in Nat /\ i # 0 /\ i # k + 1 /\ i - 1 # k + 1
        BY <1>1
      <4>3. <<cur, i>> \in FrameSlots \ {<<cur, k + 1>>}
        BY <1>1, <4>2 DEF FrameSlots
      <4>4. Sound(frame', cur, i - 1, owed[cur][i])
        <5>1. CASE i = 1
          BY <4>1, <5>1 DEF Sound, AtRest
        <5>2. CASE i # 1
          <6>1. <<cur, i - 1>> \in FrameSlots \ {<<cur, k + 1>>}
            BY <1>1, <4>2, <5>2 DEF FrameSlots
          <6> QED BY <1>9, <4>1, <6>1 DEF Sound
        <5> QED BY <5>1, <5>2
      <4> QED BY <1>9, <4>1, <4>3, <4>4
    <3>6. \A i \in 1..(k + 1) :
            /\ Sound(frame', t, i - 1, owed'[t][i])
            /\ Harmless(t, i - 1, owed'[t][i])
            /\ Kept(frame'[<<t, i>>], owed'[t][i])
      <4>1. SUFFICES ASSUME NEW i \in 1..(k + 1)
                     PROVE  /\ Sound(frame', t, i - 1, owed'[t][i])
                            /\ Harmless(t, i - 1, owed'[t][i])
                            /\ Kept(frame'[<<t, i>>], owed'[t][i])
        OBVIOUS
      <4>2. CASE i = k + 1
        <5>1. i - 1 = k /\ owed'[t][i] = r /\ frame'[<<t, i>>] = f
          BY <1>1, <1>6, <1>9, <2>2, <3>1, <4>2
        <5> QED BY <1>5, <1>7, <2>2, <3>4, <5>1
      <4>3. CASE i # k + 1
        <5>1. i \in 1..k
          BY <1>1, <4>3
        <5> QED BY <1>6, <2>2, <3>1, <3>5, <5>1
      <4> QED BY <4>2, <4>3
    <3> QED BY <1>1, <3>1, <3>3, <3>6 DEF ThreadSound
  <2>3. CASE t # cur
    <3>1. owed'[t] = owed[t] /\ Now(t)' = Now(t) /\ Nested(t)' = Nested(t)
      BY <1>3, <1>4, <2>3 DEF Nests, Types, Nested, Now
    <3>2. \A i \in Int : <<t, i>> \in FrameSlots => frame'[<<t, i>>] = frame[<<t, i>>]
      BY <1>9, <2>3
    <3>3. /\ Nested(t) \in Nat /\ Nested(t) <= Depth /\ Depth \in Nat
      BY NestedNat, TrapFrameAssumption DEF Nests, ThreadsSound, ThreadSound
    <3>4. \A i \in 1..Nested(t) : <<t, i>> \in FrameSlots
      BY <3>3 DEF FrameSlots
    <3>5. ASSUME NEW i \in 0..Nested(t), NEW p, Sound(frame, t, i, p)
          PROVE  Sound(frame', t, i, p)
      <4>1. CASE i = 0
        BY <3>5, <4>1 DEF Sound, AtRest
      <4>2. CASE i # 0
        <5>1. i \in 1..Nested(t) /\ i \in Int
          BY <3>3, <4>2
        <5>2. frame'[<<t, i>>] = frame[<<t, i>>]
          BY <3>2, <3>4, <5>1
        <5> QED BY <3>5, <5>2 DEF Sound
      <4> QED BY <4>1, <4>2
    <3>6. ThreadSound(t)
      BY DEF Nests, ThreadsSound
    <3>7. Sound(frame', t, Nested(t), Now(t))
      BY <3>3, <3>5, <3>6 DEF ThreadSound
    <3>8. ASSUME NEW i \in 1..Nested(t)
          PROVE  /\ Sound(frame', t, i - 1, owed[t][i])
                 /\ Harmless(t, i - 1, owed[t][i])
                 /\ Kept(frame'[<<t, i>>], owed[t][i])
      <4>1. i - 1 \in 0..Nested(t) /\ i \in Int
        BY <3>3
      <4> QED BY <3>2, <3>4, <3>5, <3>6, <4>1 DEF ThreadSound
    <3> QED BY <3>1, <3>3, <3>7, <3>8 DEF ThreadSound
  <2> QED BY <2>2, <2>3
<1>11. Scratch'
  <2>1. pc'[cur] = "handler" /\ mode'[cur] = "S" /\ \A t \in Threads \ {cur} : pc'[t] = pc[t]
    BY <1>4 DEF Nests, Types
  <2> QED BY <1>4, <2>1 DEF Nests, Scratch, Leaving
<1> QED BY <1>8, <1>10, <1>11 DEF Nests

(* sret goes back to the place that the trap interrupted.                    *)
LEMMA SretStep ==
  ASSUME Nests, Sret
  PROVE  Nests' /\ Returned
<1> DEFINE k == Nested(cur)
           f == frame[<<cur, k>>]
           r == owed[cur][k]
<1>1. /\ pc[cur] = "sstatus" /\ owed[cur] # <<>> /\ cur \in Threads
      /\ owed[cur] \in Seq(Places)
  BY NestedNat DEF Sret, Nests, Types
<1>2. k \in Nat \ {0} /\ k <= Depth /\ Depth \in Nat /\ sp[cur] = <<cur, k>>
  BY <1>1, Here, TopFrame, TrapFrameAssumption DEF Nests, AtRest
<1>3. /\ Front(owed[cur]) \in Seq(Places) /\ Len(Front(owed[cur])) = k - 1
      /\ \A i \in 1..(k - 1) : Front(owed[cur])[i] = owed[cur][i]
      /\ Last(owed[cur]) = r
  BY <1>1, WithoutLast DEF Nested
<1>4. \A i \in 1..k : /\ Sound(frame, cur, i - 1, owed[cur][i])
                      /\ Harmless(cur, i - 1, owed[cur][i])
                      /\ Kept(frame[<<cur, i>>], owed[cur][i])
  BY <1>1 DEF Nests, ThreadsSound, ThreadSound
<1>5. Sound(frame, cur, k - 1, r) /\ Harmless(cur, k - 1, r) /\ Kept(f, r) /\ r \in Places
  <2>1. k \in 1..k
    BY <1>2
  <2>2. r \in Places
    BY <1>1, <2>1, ElementOfSeq DEF Nested
  <2> QED BY <1>4, <2>1, <2>2
<1>6. /\ sepc = f.sepc /\ t1[cur] = f.status
  BY <1>1, Here DEF Nests, Scratch
<1>7. sscratch = IF ModeAt(cur, k - 1) = "U" THEN <<cur, 0>> ELSE NoStack
  <2>1. mode[cur] = "S"
    BY <1>2, Here DEF Nests, ModeAt
  <2> QED BY <1>1, <2>1 DEF Nests, Scratch, Leaving
<1> HIDE DEF k, f, r
<1>8. /\ pc' = [pc EXCEPT ![cur] = r.pc] /\ mode' = [mode EXCEPT ![cur] = r.mode]
      /\ sp' = [sp EXCEPT ![cur] = r.sp]
      /\ t0' = [t0 EXCEPT ![cur] = r.t0] /\ t1' = [t1 EXCEPT ![cur] = r.t1]
      /\ owed' = [owed EXCEPT ![cur] = Front(owed[cur])]
      /\ sie' = f.status.spie /\ spp' = "U" /\ spie' = TRUE
      /\ UNCHANGED <<cur, flags, sscratch, sepc, frame>>
  <2>1. sp[cur] = <<cur, k>> /\ f = frame[<<cur, k>>]
    BY <1>2 DEF f
  <2> QED BY <1>5, <1>6, <2>1 DEF Sret, Kept
<1>9. /\ pc'[cur] = r.pc /\ mode'[cur] = r.mode /\ sp'[cur] = r.sp
      /\ t0'[cur] = r.t0 /\ t1'[cur] = r.t1 /\ owed'[cur] = Front(owed[cur])
      /\ Nested(cur)' = k - 1
      /\ \A t \in Threads \ {cur} :
           /\ Now(t)' = Now(t) /\ owed'[t] = owed[t] /\ pc'[t] = pc[t]
  BY <1>1, <1>3, <1>8 DEF Nests, Types, Nested, Now
<1>10. Returned
  BY <1>3, <1>9 DEF Returned
<1>11. Types'
  <2>1. /\ r.pc \in Pcs /\ r.mode \in Modes /\ r.sp \in Pointers /\ r.t0 \in Words
        /\ r.t1 \in Statuses
    BY <1>5 DEF Places
  <2>2. /\ pc' \in [Threads -> Pcs] /\ mode' \in [Threads -> Modes]
        /\ sp' \in [Threads -> Pointers]
        /\ t0' \in [Threads -> Words] /\ t1' \in [Threads -> Statuses]
    BY <1>8, <2>1 DEF Nests, Types
  <2>3. owed' \in [Threads -> Seq(Places)]
    BY <1>3, <1>8 DEF Nests, Types
  <2>4. sie' \in BOOLEAN
    <3>1. t1[cur] \in Statuses
      BY DEF Nests, Types
    <3>2. f.status.spie \in BOOLEAN
      BY <1>6, <3>1 DEF Statuses
    <3> QED BY <1>8, <3>2
  <2> QED BY <1>8, <2>2, <2>3, <2>4 DEF Nests, Types, Modes
<1>12. ThreadsSound'
  <2>1. SUFFICES ASSUME NEW t \in Threads PROVE ThreadSound(t)'
    BY DEF ThreadsSound
  <2>2. CASE t = cur
    <3>1. Now(t)' = Resume(r.pc, r.mode, r.sp, r.t0, r.t1)
      BY <1>9, <2>2 DEF Now
    <3>2. Sound(frame, t, k - 1, Now(t)')
      BY <1>5, <2>2, <3>1 DEF Sound, Resume
    <3>3. k - 1 <= Depth /\ \A i \in 1..(k - 1) : i \in 1..k
      BY <1>2
    <3>4. \A i \in 1..(k - 1) : /\ Sound(frame, t, i - 1, owed'[t][i])
                                /\ Harmless(t, i - 1, owed'[t][i])
                                /\ Kept(frame[<<t, i>>], owed'[t][i])
      BY <1>3, <1>4, <1>9, <2>2, <3>3
    <3>5. frame' = frame /\ Nested(t)' = k - 1
      BY <1>8, <1>9, <2>2
    <3> QED BY <3>2, <3>3, <3>4, <3>5 DEF ThreadSound
  <2>3. CASE t # cur
    <3>1. /\ Now(t)' = Now(t) /\ owed'[t] = owed[t] /\ frame' = frame
          /\ Nested(t)' = Nested(t) /\ ThreadSound(t)
      BY <1>8, <1>9, <2>3 DEF Nests, ThreadsSound, Nested
    <3> QED BY <3>1 DEF ThreadSound
  <2> QED BY <2>2, <2>3
<1>13. Scratch'
  <2>1. r.mode = ModeAt(cur, k - 1) /\ r.pc # "sstatus" /\ Nested(cur)' - 1 = k - 2
        /\ k - 1 - 1 = k - 2
    BY <1>2, <1>5, <1>9 DEF Sound, Harmless
  <2>2. CASE r.mode = "U"
    BY <1>7, <1>8, <1>9, <2>1, <2>2 DEF Nests, Scratch
  <2>3. CASE r.mode # "U"
    <3>1. r.pc \in {"load", "sepc"} => ModeAt(cur, k - 2) # "U"
      BY <1>5, <2>1 DEF Harmless
    <3> QED BY <1>7, <1>8, <1>9, <2>1, <2>3, <3>1 DEF Nests, Scratch, Leaving
  <2> QED BY <2>2, <2>3
<1> QED BY <1>10, <1>11, <1>12, <1>13 DEF Nests

-----------------------------------------------------------------------------
LEMMA TrapsNest == Spec => []TrapInv
<1>1. Init => TrapInv
  BY InitNests DEF TrapInv
<1>2. TrapInv /\ [Next]_vars => TrapInv'
  <2>1. SUFFICES ASSUME Nests, ~spoilt, [Next]_vars, ~spoilt' PROVE Nests'
    <3>1. [Next]_vars => (spoilt => spoilt')
      BY DEF Next, vars, Enter, RunTasks, Handled, Switch, RestoreScratch, Load, WriteSepc,
             Sret
    <3> QED BY <3>1 DEF TrapInv
  <2>2. CASE Enter
    BY <2>1, <2>2, EnterStep DEF Enter
  <2>3. CASE RunTasks \/ Handled \/ RestoreScratch \/ Load \/ WriteSepc
    BY <2>1, <2>3, RunTasksStep, HandledStep, RestoreScratchStep, LoadStep, WriteSepcStep
  <2>4. CASE Sret
    BY <2>1, <2>4, SretStep
  <2>5. CASE \E t \in Threads : Switch(t)
    BY <2>1, <2>5, SwitchStep
  <2>6. CASE UNCHANGED vars
    <3>1. /\ UNCHANGED <<cur, pc, mode, sp, t0, t1, flags, sscratch, sepc, spp, spie, sie>>
          /\ UNCHANGED <<frame, owed>>
      BY <2>6 DEF vars, threadVars, csrs
    <3>2. Types'
      BY <2>1, <3>1 DEF Nests, Types
    <3>3. ThreadsSound' /\ Scratch'
      BY <2>1, <3>1 DEF Nests, ThreadsSound, ThreadSound, Nested, Now, Scratch, Leaving
    <3> QED BY <3>2, <3>3 DEF Nests
  <2> QED BY <2>1, <2>2, <2>3, <2>4, <2>5, <2>6 DEF Next
<1> QED BY <1>1, <1>2, PTL DEF Spec

(* trap_entry.S: whatever traps interrupt each other and whatever threads    *)
(* schedule() switches to in between, sret puts back program counter, mode,  *)
(* stack pointer and registers as they were when the trap came, until an     *)
(* interrupt hits lines 108 to 114.                                          *)
THEOREM TrapsResume == Spec => Resumes
<1>1. TrapInv /\ [Next]_vars => [Sret /\ ~spoilt => Returned]_vars
  BY SretStep DEF TrapInv
<1> QED BY <1>1, TrapsNest, PTL DEF Spec, Resumes

-----------------------------------------------------------------------------
Everyone == Procs \cup {Shell, Idle}
Targets == Blocks \cup {Nothing}
Registers == [sp : Targets, s0 : Targets]
Structs ==
  [status : {"none", "READY", "RUNNING", "WAITING", "SLEEPING", "TERMINATED"},
   parent : Procs \cup {Shell, NoThread}, waits : Procs \cup {NoThread},
   asked : Procs \cup {NoThread}, at : {"ret", "user", "waitpid"},
   handlers : SUBSET Signals, pending : SUBSET Signals, active : BOOLEAN,
   regs : Registers, saved : Registers, own : [Kinds -> Targets]]

(* A thread's blocks are named after it; a struct in use has three of them.  *)
Named(t, k) == {b \in Blocks : b[1] = t /\ b[2] = k}
Owns(t, s) ==
  /\ \A k \in Kinds : s.own[k] \in Named(t, k) \cup {Nothing}
  /\ s.status = "none" => \A k \in Kinds : s.own[k] = Nothing
  /\ s.status # "none" => \A k \in Kinds \ {"signal_stack"} : s.own[k] # Nothing

(* The registers of a living thread, in its handler and out of it, and the   *)
(* frame pointers in its stack.                                              *)
Points(s, fr) ==
  LET stack == s.own["user_stack"]
  IN  s.status \notin {"none", "TERMINATED"} =>
        /\ s.regs.s0 \in {stack, Nothing} /\ s.saved.s0 \in {stack, Nothing}
        /\ s.active => /\ s.own["signal_stack"] # Nothing
                       /\ s.regs.sp = s.own["signal_stack"] /\ s.saved.sp = stack
        /\ ~s.active => /\ s.own["signal_stack"] = Nothing
                        /\ s.regs.sp = stack /\ s.saved = NoRegs
        /\ \A i \in DOMAIN fr[stack] : fr[stack][i] \in {stack, Nothing}

(* The blocks in use are those that are owned; only user stacks have frames. *)
Books(ts, us) ==
  us \subseteq Blocks /\ \A b \in Blocks : b \in us <=> ts[b[1]].own[b[2]] = b
Framed(us, fr) ==
  /\ fr \in [Blocks -> Seq(Targets)]
  /\ \A b \in Blocks : fr[b] # <<>> => b[2] = "user_stack" /\ b \in us

Fine(ts, us, fr) ==
  /\ ts \in [Procs -> Structs]
  /\ \A t \in Procs : Owns(t, ts[t]) /\ Points(ts[t], fr)
  /\ Books(ts, us) /\ Framed(us, fr)

(* Everyone who has a struct is in the ring once.                            *)
Linked(ts, q) ==
  /\ q \in Seq(Everyone) /\ IsInjective(q)
  /\ \A t \in Everyone : t \in ToSet(q) <=> (t \in Procs => ts[t].status # "none")

StacksInv ==
  /\ Fine(procs, used, frames) /\ Linked(procs, ring)
  /\ running \in Everyone /\ (running \in Procs => procs[running].status = "RUNNING")

-----------------------------------------------------------------------------
LEMMA BlockFacts ==
  /\ Nothing \notin Blocks
  /\ \A b \in Blocks : b[1] \in Procs /\ b[2] \in Kinds /\ b \in Named(b[1], b[2])
  /\ \A t \in Procs, k \in Kinds : \A b \in Named(t, k) : b \in Blocks /\ b[1] = t /\ b[2] = k
  /\ Kinds = {"user_stack", "signal_stack", "struct", "kernel_stack"}
<1>1. /\ \A b \in Blocks : b[1] \in Procs /\ b[2] \in Kinds /\ b \in Named(b[1], b[2])
      /\ \A t \in Procs, k \in Kinds : \A b \in Named(t, k) : b \in Blocks /\ b[1] = t /\ b[2] = k
  BY DEF Blocks, Named
<1>2. Nothing \notin Blocks
  BY DEF Blocks, Nothing
<1>3. Kinds = {"user_stack", "signal_stack", "struct", "kernel_stack"}
  BY DEF Kinds, Stacks
<1> QED BY <1>1, <1>2, <1>3

(* What differs for no stack: a thread's status within life, or its end.     *)
Akin(s, r) ==
  /\ r.own = s.own /\ (r.status = "none" <=> s.status = "none")
  /\ r.status \notin {"none", "TERMINATED"} =>
       /\ s.status \notin {"none", "TERMINATED"}
       /\ r.regs = s.regs /\ r.saved = s.saved /\ r.active = s.active

LEMMA FineAkin ==
  ASSUME NEW ts, NEW us, NEW fr, Fine(ts, us, fr),
         NEW ts2 \in [Procs -> Structs], \A t \in Procs : Akin(ts[t], ts2[t]),
         NEW fr2 \in [Blocks -> Seq(Targets)], \A b \in Blocks : fr2[b] \in {fr[b], <<>>}
  PROVE  Fine(ts2, us, fr2)
<1>1. ASSUME NEW t \in Procs
      PROVE  Owns(t, ts2[t]) /\ Points(ts2[t], fr2)
  <2>1. Owns(t, ts[t]) /\ Points(ts[t], fr) /\ Akin(ts[t], ts2[t])
    BY DEF Fine
  <2>2. Owns(t, ts2[t])
    BY <2>1 DEF Owns, Akin
  <2>3. ASSUME ts2[t].status \notin {"none", "TERMINATED"}
        PROVE  fr2[ts2[t].own["user_stack"]] \in {fr[ts[t].own["user_stack"]], <<>>}
    BY <2>1, <2>3, BlockFacts DEF Owns, Akin
  <2>4. ASSUME ts2[t].status \notin {"none", "TERMINATED"}
        PROVE  \A i \in DOMAIN fr2[ts2[t].own["user_stack"]] :
                 fr2[ts2[t].own["user_stack"]][i] \in {ts2[t].own["user_stack"], Nothing}
    <3>1. CASE fr2[ts2[t].own["user_stack"]] = <<>>
      <4>1. DOMAIN fr2[ts2[t].own["user_stack"]] = {}
        BY <3>1
      <4> QED BY <4>1
    <3>2. CASE fr2[ts2[t].own["user_stack"]] = fr[ts[t].own["user_stack"]]
      BY <2>1, <2>4, <3>2 DEF Points, Akin
    <3> QED BY <2>3, <2>4, <3>1, <3>2
  <2>5. Points(ts2[t], fr2)
    BY <2>1, <2>4 DEF Points, Akin
  <2> QED BY <2>2, <2>5
<1>2. Books(ts2, us)
  BY BlockFacts DEF Fine, Books, Akin
<1>3. Framed(us, fr2)
  BY BlockFacts DEF Fine, Framed
<1> QED BY <1>1, <1>2, <1>3 DEF Fine

(* The books us2 and fr2 differ from us and fr for p's blocks only, and      *)
(* those are what s holds.                                                   *)
BooksOf(p, s, us, fr, us2, fr2) ==
  \A b \in Blocks : IF b[1] = p
    THEN /\ b \in us2 <=> s.own[b[2]] = b
         /\ fr2[b] # <<>> => b[2] = "user_stack" /\ b \in us2
    ELSE fr2[b] = fr[b] /\ (b \in us2 <=> b \in us)

(* One thread's blocks, registers and frames change.                         *)
LEMMA FineOne ==
  ASSUME NEW ts, NEW us, NEW fr, Fine(ts, us, fr),
         NEW p \in Procs, NEW s \in Structs, NEW us2 \in SUBSET Blocks,
         NEW fr2 \in [Blocks -> Seq(Targets)], Owns(p, s), Points(s, fr2),
         BooksOf(p, s, us, fr, us2, fr2)
  PROVE  Fine([ts EXCEPT ![p] = s], us2, fr2)
<1> DEFINE ts2 == [ts EXCEPT ![p] = s]
<1>1. ts \in [Procs -> Structs] /\ ts2 \in [Procs -> Structs] /\ ts2[p] = s
      /\ \A t \in Procs \ {p} : ts2[t] = ts[t]
  BY DEF Fine
<1> HIDE DEF ts2
<1>2. ASSUME NEW t \in Procs, t # p
      PROVE  Owns(t, ts2[t]) /\ Points(ts2[t], fr2)
  <2>1. Owns(t, ts[t]) /\ Points(ts[t], fr) /\ ts2[t] = ts[t]
    BY <1>1, <1>2 DEF Fine
  <2>2. ASSUME ts[t].status \notin {"none", "TERMINATED"}
        PROVE  fr2[ts[t].own["user_stack"]] = fr[ts[t].own["user_stack"]]
    BY <1>2, <2>1, <2>2, BlockFacts DEF Owns, BooksOf
  <2> QED BY <2>1, <2>2 DEF Points
<1>3. Books(ts2, us2)
  BY <1>1, BlockFacts DEF Fine, Books, BooksOf
<1>4. Framed(us2, fr2)
  BY DEF Fine, Framed, BooksOf
<1>5. Fine(ts2, us2, fr2)
  BY <1>1, <1>2, <1>3, <1>4 DEF Fine
<1> QED BY <1>5 DEF ts2

-----------------------------------------------------------------------------
LEMMA LeastOf ==
  ASSUME NEW X \in SUBSET Nat, X # {}
  PROVE  Min(X) \in X /\ \A x \in X : Min(X) <= x
<1>1. PICK n \in X : \A other \in X : <<other, n>> \notin OpToRel(<, Nat)
  <2>1. X \subseteq Nat /\ X # {}
    OBVIOUS
  <2> QED BY <2>1, WFMin, NatLessThanWellFounded
<1>2. OpToRel(<, Nat) = {pair \in Nat \X Nat : pair[1] < pair[2]}
  BY Zenon DEF OpToRel
<1>3. ASSUME NEW x \in X
      PROVE  n <= x
  <2>1. n \in Nat /\ x \in Nat
    OBVIOUS
  <2>2. <<x, n>> \notin {pair \in Nat \X Nat : pair[1] < pair[2]}
    BY <1>1, <1>2
  <2> QED BY <2>1, <2>2
<1> QED BY <1>3 DEF Min

(* Going round a ring of n from the place after at on comes past every other *)
(* place i.                                                                  *)
LEMMA RoundTheRing ==
  ASSUME NEW n \in Nat, NEW at \in 1..n, NEW i \in 1..n
  PROVE  \E m \in 1..n : 1 + ((at - 1 + m) % n) = i
<1>1. ASSUME NEW k \in Nat \ {0}, NEW y \in 0..(2 * k - 1)
      PROVE  y % k = IF y < k THEN y ELSE y - k
  OBVIOUS
<1> DEFINE m == IF i > at THEN i - at ELSE i - at + n
           y == at - 1 + m
<1>2. m \in 1..n /\ n \in Nat \ {0} /\ y \in 0..(2 * n - 1) /\ i - 1 = IF y < n THEN y ELSE y - n
  OBVIOUS
<1> HIDE DEF m
<1>3. 1 + (y % n) = i
  <2> HIDE DEF y
  <2>1. y % n = i - 1
    BY <1>1, <1>2
  <2> QED BY <2>1
<1> QED BY <1>2, <1>3

(* schedule() always finds somebody to run: the idle thread is in the ring.  *)
LEMMA NextRuns ==
  ASSUME NEW ts, Linked(ts, ring), running \in ToSet(ring)
  PROVE  NextOf(ts) \in ToSet(ring) /\ Runnable(ts, NextOf(ts))
<1> DEFINE n == Len(ring)
           at == CHOOSE i \in DOMAIN ring : ring[i] = running
           Further(m) == ring[1 + ((at - 1 + m) % n)]
           X == {m \in 1 .. n : Runnable(ts, Further(m))}
<1>0. NextOf(ts) = Further(Min(X))
  BY Zenon DEF NextOf
<1>1. /\ n \in Nat /\ DOMAIN ring = 1..n /\ at \in 1..n
      /\ \E i \in 1..n : ring[i] = Idle
  <2>1. ring \in Seq(Everyone) /\ Idle \in ToSet(ring)
    BY StackProcessesAssumption DEF Linked, Everyone
  <2> QED BY <2>1 DEF ToSet
<1>2. PICK i \in 1..n : ring[i] = Idle
  BY <1>1
<1> HIDE DEF n, at
<1>3. PICK m \in 1..n : 1 + ((at - 1 + m) % n) = i
  BY <1>1, RoundTheRing
<1>4. m \in X
  BY <1>2, <1>3 DEF Runnable
<1>5. X \subseteq Nat /\ X # {}
  <2>1. X \subseteq 1..n
    OBVIOUS
  <2> HIDE DEF X
  <2> QED BY <1>1, <1>4, <2>1
<1> DEFINE least == Min(X)
<1> HIDE DEF least
<1>6. least \in X
  BY <1>5, LeastOf DEF least
<1>7. least \in 1..n /\ Runnable(ts, Further(least)) /\ NextOf(ts) = Further(least)
  BY <1>0, <1>6 DEF least
<1>8. 1 + ((at - 1 + least) % n) \in 1..n
  BY <1>1, <1>7
<1>9. Further(least) \in ToSet(ring)
  BY <1>1, <1>8 DEF ToSet
<1> QED BY <1>7, <1>9

-----------------------------------------------------------------------------
(* schedule() from a sound state: whoever runs next has a struct, and only   *)
(* statuses change.                                                          *)
LEMMA ScheduleFine ==
  ASSUME NEW ts, NEW us, NEW fr, Fine(ts, us, fr), Linked(ts, ring),
         running \in ToSet(ring), Schedule(ts)
  PROVE  /\ Fine(procs', us, fr) /\ Linked(procs', ring')
         /\ running' \in Everyone /\ (running' \in Procs => procs'[running'].status = "RUNNING")
<1> DEFINE nxt == NextOf(ts)
<1>1. nxt \in ToSet(ring) /\ Runnable(ts, nxt)
  BY NextRuns
<1>2. nxt \in Everyone
  BY <1>1 DEF Linked, ToSet
<1>3. /\ running' = nxt /\ ring' = ring
      /\ procs' = [t \in Procs |->
              IF t = nxt THEN [ts[t] EXCEPT !.status = "RUNNING"]
              ELSE IF t = running /\ ts[t].status = "RUNNING"
              THEN [ts[t] EXCEPT !.status = "READY"] ELSE ts[t]]
  BY DEF Schedule
<1> HIDE DEF nxt
<1>4. ASSUME NEW t \in Procs
      PROVE  /\ procs'[t] \in Structs /\ Akin(ts[t], procs'[t])
             /\ t = nxt => procs'[t].status = "RUNNING"
  <2>1. ts[t] \in Structs
    BY DEF Fine
  <2>2. CASE t = nxt
    <3>1. ts[t].status \in {"READY", "RUNNING"}
      BY <1>1, <2>2, StackProcessesAssumption DEF Runnable
    <3>2. procs'[t] = [ts[t] EXCEPT !.status = "RUNNING"]
      BY <1>3, <2>2
    <3> QED BY <2>1, <3>1, <3>2 DEF Structs, Akin
  <2>3. CASE t # nxt /\ t = running /\ ts[t].status = "RUNNING"
    <3>1. procs'[t] = [ts[t] EXCEPT !.status = "READY"]
      BY <1>3, <2>3
    <3> QED BY <2>1, <2>3, <3>1 DEF Structs, Akin
  <2>4. CASE t # nxt /\ ~(t = running /\ ts[t].status = "RUNNING")
    <3>1. procs'[t] = ts[t]
      BY <1>3, <2>4
    <3> QED BY <2>1, <2>4, <3>1 DEF Akin
  <2> QED BY <2>2, <2>3, <2>4
<1>5. procs' \in [Procs -> Structs]
  BY <1>3, <1>4
<1>6. fr \in [Blocks -> Seq(Targets)]
  BY DEF Fine, Framed
<1>7. Fine(procs', us, fr)
  BY <1>4, <1>5, <1>6, FineAkin
<1>8. Linked(procs', ring')
  BY <1>3, <1>4 DEF Linked, Akin
<1> QED BY <1>2, <1>3, <1>4, <1>7, <1>8

(* A step that leaves the run queue alone.                                   *)
LEMMA Steady ==
  ASSUME StacksInv, Fine(procs', used', frames'), UNCHANGED <<ring, running>>,
         \A t \in Procs : procs'[t].status = "none" <=> procs[t].status = "none",
         running \in Procs => procs'[running].status = "RUNNING"
  PROVE  StacksInv'
BY DEF StacksInv, Linked

(* One that changes nobody's stacks, either.                                 *)
LEMMA Quiet ==
  ASSUME StacksInv, UNCHANGED <<ring, running, used, frames>>,
         procs' \in [Procs -> Structs], \A t \in Procs : Akin(procs[t], procs'[t]),
         running \in Procs => procs'[running].status = "RUNNING"
  PROVE  StacksInv'
<1>1. Fine(procs, used, frames) /\ frames \in [Blocks -> Seq(Targets)]
  BY DEF StacksInv, Fine, Framed
<1>2. Fine(procs', used, frames)
  BY <1>1, FineAkin
<1>3. \A t \in Procs : procs'[t].status = "none" <=> procs[t].status = "none"
  BY DEF Akin
<1> QED BY <1>2, <1>3, Steady

LEMMA RunningLinked ==
  ASSUME StacksInv
  PROVE  /\ running \in ToSet(ring) /\ Linked(procs, ring) /\ Fine(procs, used, frames)
         /\ frames \in [Blocks -> Seq(Targets)] /\ procs \in [Procs -> Structs]
         /\ used \subseteq Blocks
         /\ running \in Procs => procs[running].status = "RUNNING"
BY DEF StacksInv, Linked, Everyone, Fine, Framed, Books

LEMMA FreedFacts ==
  ASSUME frames \in [Blocks -> Seq(Targets)], NEW bs
  PROVE  /\ Freed(bs) \in [Blocks -> Seq(Targets)]
         /\ \A b \in Blocks : Freed(bs)[b] = IF b \in bs THEN <<>> ELSE frames[b]
         /\ \A b \in Blocks : Freed(bs)[b] \in {frames[b], <<>>}
BY DEF Freed

-----------------------------------------------------------------------------
LEMMA BlankTyped ==
  /\ Blank \in Structs /\ NoRegs \in Registers
  /\ Blank.status = "none" /\ Blank.saved = NoRegs /\ Blank.active = FALSE
  /\ \A k \in Kinds : Blank.own[k] = Nothing
<1>1. Nothing \in Targets
  BY DEF Targets
<1>2. NoRegs \in Registers
  BY <1>1 DEF NoRegs, Registers
<1>3. [k \in Kinds |-> Nothing] \in [Kinds -> Targets]
  BY <1>1
<1>4. /\ NoThread \in Procs \cup {NoThread} /\ NoThread \in Procs \cup {Shell, NoThread}
      /\ {} \in SUBSET Signals
  OBVIOUS
<1> QED BY <1>2, <1>3, <1>4 DEF Blank, Structs

(* The end of a thread: its struct and its blocks stay until kill_zombies.   *)
LEMMA EndedAkin ==
  ASSUME procs \in [Procs -> Structs], NEW t \in Procs, procs[t].status # "none"
  PROVE  /\ Ended(t) \in [Procs -> Structs]
         /\ \A u \in Procs : /\ Akin(procs[u], Ended(t)[u])
                             /\ u # t /\ procs[u].status = "RUNNING" => Ended(t)[u] = procs[u]
<1>2. Blank \in Structs
  BY BlankTyped
<1>3. ASSUME NEW u \in Procs
      PROVE  /\ Ended(t)[u] \in Structs /\ Akin(procs[u], Ended(t)[u])
             /\ u # t /\ procs[u].status = "RUNNING" => Ended(t)[u] = procs[u]
  <2>1. procs[u] \in Structs
    OBVIOUS
  <2>2. CASE u = t
    <3>1. Ended(t)[u] = Dead(procs[u])
      BY <2>2 DEF Ended
    <3>2. Dead(procs[u]) = [Blank EXCEPT !.status = "TERMINATED", !.parent = procs[u].parent,
                                         !.own = procs[u].own]
      BY DEF Dead
    <3>3. Dead(procs[u]) \in Structs
      BY <1>2, <2>1, <3>2 DEF Structs
    <3>4. Dead(procs[u]).status = "TERMINATED" /\ Dead(procs[u]).own = procs[u].own
      BY <1>2, <3>2 DEF Structs
    <3> QED BY <2>2, <3>1, <3>3, <3>4 DEF Akin
  <2>3. CASE u # t /\ u = procs[t].parent /\ procs[u].status = "WAITING" /\ procs[u].waits = t
    <3>1. Ended(t)[u] = [procs[u] EXCEPT !.status = "READY", !.waits = NoThread]
      BY <2>3 DEF Ended
    <3>2. Ended(t)[u] \in Structs
      BY <2>1, <3>1 DEF Structs
    <3>3. Ended(t)[u].status = "READY" /\ Ended(t)[u].own = procs[u].own
          /\ Ended(t)[u].regs = procs[u].regs /\ Ended(t)[u].saved = procs[u].saved
          /\ Ended(t)[u].active = procs[u].active
      BY <2>1, <3>1 DEF Structs
    <3> QED BY <2>3, <3>2, <3>3 DEF Akin
  <2>4. CASE u # t /\ ~(u = procs[t].parent /\ procs[u].status = "WAITING" /\ procs[u].waits = t)
    <3>1. Ended(t)[u] = procs[u]
      BY <2>4 DEF Ended
    <3> QED BY <2>1, <2>4, <3>1 DEF Akin
  <2> QED BY <2>2, <2>3, <2>4
<1>4. Ended(t) \in [Procs -> Structs]
  <2>1. Ended(t) = [u \in Procs |-> Ended(t)[u]]
    BY Zenon DEF Ended
  <2> QED BY <1>3, <2>1
<1> QED BY <1>3, <1>4

LEMMA EndedFine ==
  ASSUME StacksInv, NEW t \in Procs, procs[t].status # "none", NEW bs
  PROVE  Fine(Ended(t), used, Freed(bs)) /\ Linked(Ended(t), ring)
<1>1. Ended(t) \in [Procs -> Structs] /\ \A u \in Procs : Akin(procs[u], Ended(t)[u])
  BY RunningLinked, EndedAkin
<1>2. Fine(Ended(t), used, Freed(bs))
  BY <1>1, RunningLinked, FreedFacts, FineAkin
<1>3. Linked(Ended(t), ring)
  BY <1>1, RunningLinked DEF Linked, Akin
<1> QED BY <1>2, <1>3

LEMMA ThreadExitKeeps ==
  ASSUME StacksInv, NEW p \in Procs, running = p, ThreadExit(p)
  PROVE  StacksInv'
<1>1. procs[p].status # "none"
  BY RunningLinked
<1> DEFINE bs == BlocksOf(procs[p].own)
<1>2. Schedule(Ended(p)) /\ frames' = Freed(bs) /\ used' = used
  BY DEF ThreadExit
<1>3. Fine(Ended(p), used, Freed(bs)) /\ Linked(Ended(p), ring) /\ running \in ToSet(ring)
  BY <1>1, EndedFine, RunningLinked
<1>4. /\ Fine(procs', used, Freed(bs)) /\ Linked(procs', ring')
      /\ running' \in Everyone /\ (running' \in Procs => procs'[running'].status = "RUNNING")
  <2> HIDE DEF bs
  <2> QED BY <1>2, <1>3, ScheduleFine
<1> QED BY <1>2, <1>4 DEF StacksInv

LEMMA AtReturn ==
  ASSUME NEW s \in Structs, NEW place \in {"ret", "user", "waitpid"}
  PROVE  [s EXCEPT !.at = place] \in Structs /\ Akin(s, [s EXCEPT !.at = place])
         /\ [s EXCEPT !.at = place].status = s.status
BY DEF Structs, Akin

LEMMA TerminateKeeps ==
  ASSUME StacksInv, NEW p \in Procs, NEW t \in Procs, InUser(p), procs[t].status # "none",
         Terminate(p, t)
  PROVE  StacksInv'
<1>1. CASE t = p
  BY <1>1, ThreadExitKeeps DEF Terminate, InUser
<1>2. CASE t # p
  <2> DEFINE bs == BlocksOf(procs[t].own)
             ts == Ended(t)
  <2>1. /\ procs' = [ts EXCEPT ![p] = [ts[p] EXCEPT !.at = "ret"]] /\ frames' = Freed(bs)
        /\ UNCHANGED <<ring, running, used>>
    BY <1>2 DEF Terminate
  <2>2. /\ running = p /\ procs[p].status = "RUNNING" /\ frames \in [Blocks -> Seq(Targets)]
        /\ Fine(procs, used, frames)
    BY RunningLinked DEF InUser
  <2>3. /\ ts \in [Procs -> Structs] /\ ts[p] = procs[p]
        /\ \A u \in Procs : Akin(procs[u], ts[u])
    BY <1>2, <2>2, RunningLinked, EndedAkin
  <2> HIDE DEF ts, bs
  <2>4. [ts[p] EXCEPT !.at = "ret"] \in Structs /\ Akin(ts[p], [ts[p] EXCEPT !.at = "ret"])
        /\ [ts[p] EXCEPT !.at = "ret"].status = "RUNNING"
    BY <2>2, <2>3, AtReturn
  <2>5. procs' \in [Procs -> Structs] /\ procs'[p].status = "RUNNING"
        /\ \A u \in Procs : Akin(procs[u], procs'[u])
    <3>1. procs' \in [Procs -> Structs] /\ procs'[p] = [ts[p] EXCEPT !.at = "ret"]
          /\ \A u \in Procs \ {p} : procs'[u] = ts[u]
      BY <2>1, <2>3, <2>4
    <3>2. procs'[p].status = "RUNNING"
      BY <2>4, <3>1
    <3>3. Akin(procs[p], procs'[p])
      BY <2>3, <2>4, <3>1
    <3>4. ASSUME NEW u \in Procs, u # p
          PROVE  Akin(procs[u], procs'[u])
      BY <2>3, <3>1, <3>4
    <3> QED BY <3>1, <3>2, <3>3, <3>4
  <2>6. Fine(procs', used', frames')
    <3> DEFINE fr == Freed(bs)
    <3>1. fr \in [Blocks -> Seq(Targets)] /\ \A b \in Blocks : fr[b] \in {frames[b], <<>>}
      BY <2>2, FreedFacts
    <3> HIDE DEF fr
    <3>2. Fine(procs', used, fr)
      BY <2>2, <2>5, <3>1, FineAkin
    <3> QED BY <2>1, <3>2 DEF fr
  <2>7. \A u \in Procs : procs'[u].status = "none" <=> procs[u].status = "none"
    BY <2>5 DEF Akin
  <2> QED BY <2>1, <2>2, <2>5, <2>6, <2>7, Steady
<1> QED BY <1>1, <1>2

-----------------------------------------------------------------------------
(* Steps of the running thread p that touch no stack.                        *)
LEMMA QuietOne ==
  ASSUME StacksInv, UNCHANGED <<ring, running, used, frames>>,
         NEW p \in Procs, running = p, NEW s \in Structs, procs' = [procs EXCEPT ![p] = s],
         Akin(procs[p], s), s.status = procs[p].status
  PROVE  StacksInv'
<1>1. procs \in [Procs -> Structs] /\ procs[p].status = "RUNNING"
  BY RunningLinked
<1>2. procs' \in [Procs -> Structs] /\ procs'[p] = s /\ \A t \in Procs \ {p} : procs'[t] = procs[t]
  BY <1>1
<1>3. ASSUME NEW t \in Procs
      PROVE  Akin(procs[t], procs'[t])
  <2>1. CASE t = p
    BY <1>2, <2>1
  <2>2. CASE t # p
    BY <1>2, <2>2 DEF Akin
  <2> QED BY <2>1, <2>2
<1> QED BY <1>1, <1>2, <1>3, Quiet

LEMMA ReturnsKeeps ==
  ASSUME StacksInv, UNCHANGED <<used, frames>>, NEW p \in Procs, running = p,
         NEW s \in Structs, Returns(p, s), Akin(procs[p], s), s.status = procs[p].status
  PROVE  StacksInv'
<1> DEFINE r == [s EXCEPT !.at = "ret"]
<1>1. r \in Structs /\ Akin(s, r) /\ r.status = s.status
  BY AtReturn
<1>2. procs' = [procs EXCEPT ![p] = r] /\ UNCHANGED <<ring, running>>
  BY DEF Returns
<1> HIDE DEF r
<1>3. Akin(procs[p], r)
  BY <1>1 DEF Akin
<1> QED BY <1>1, <1>2, <1>3, QuietOne

LEMMA ReturnsSame ==
  ASSUME StacksInv, UNCHANGED <<used, frames>>, NEW p \in Procs, running = p, Returns(p, procs[p])
  PROVE  StacksInv'
<1>1. procs[p] \in Structs /\ Akin(procs[p], procs[p])
  BY RunningLinked DEF Akin
<1> QED BY <1>1, ReturnsKeeps

LEMMA ExecFailsKeeps ==
  ASSUME StacksInv, NEW p \in Procs, ExecFails(p)
  PROVE  StacksInv'
BY ReturnsSame DEF ExecFails, InUser

LEMMA SignalKeeps ==
  ASSUME StacksInv, NEW p \in Procs, NEW s \in Signals, Signal(p, s)
  PROVE  StacksInv'
<1>1. running = p /\ UNCHANGED <<used, frames>>
  BY DEF Signal, InUser
<1>2. PICK set \in {procs[p].handlers \cup {s}, procs[p].handlers \ {s}} :
        Returns(p, [procs[p] EXCEPT !.handlers = set])
  BY DEF Signal
<1> DEFINE r == [procs[p] EXCEPT !.handlers = set]
<1>3. procs[p] \in Structs
  BY RunningLinked
<1>4. set \in SUBSET Signals
  BY <1>2, <1>3 DEF Structs
<1>5. r \in Structs /\ Akin(procs[p], r) /\ r.status = procs[p].status
  BY <1>3, <1>4 DEF Structs, Akin
<1>6. Returns(p, r)
  BY <1>2
<1> HIDE DEF r
<1> QED BY <1>1, <1>5, <1>6, ReturnsKeeps

LEMMA ExitKeeps ==
  ASSUME StacksInv, NEW p \in Procs, Exit(p)
  PROVE  StacksInv'
BY ThreadExitKeeps DEF Exit, InUser

LEMMA StopKeeps ==
  ASSUME StacksInv, NEW p \in Procs, NEW t \in Procs, Stop(p, t)
  PROVE  StacksInv'
BY TerminateKeeps DEF Stop

(* Sleeping and waiting: p changes, then schedule().                         *)
LEMMA GivesWay ==
  ASSUME StacksInv, UNCHANGED <<used, frames>>,
         NEW ts \in [Procs -> Structs], \A t \in Procs : Akin(procs[t], ts[t]), Schedule(ts)
  PROVE  StacksInv'
<1>1. /\ Fine(procs, used, frames) /\ Linked(procs, ring) /\ running \in ToSet(ring)
      /\ frames \in [Blocks -> Seq(Targets)]
  BY RunningLinked
<1>2. Fine(ts, used, frames)
  BY <1>1, FineAkin
<1>3. Linked(ts, ring)
  BY <1>1 DEF Linked, Akin
<1>4. /\ Fine(procs', used, frames) /\ Linked(procs', ring')
      /\ running' \in Everyone /\ (running' \in Procs => procs'[running'].status = "RUNNING")
  BY <1>1, <1>2, <1>3, ScheduleFine
<1> QED BY <1>4 DEF StacksInv

LEMMA UsleepKeeps ==
  ASSUME StacksInv, NEW p \in Procs, Usleep(p)
  PROVE  StacksInv'
<1>1. running = p /\ UNCHANGED <<used, frames>>
  BY DEF Usleep, InUser
<1>2. CASE procs[p].pending = {}
  <2> DEFINE r == [procs[p] EXCEPT !.status = "SLEEPING", !.at = "ret"]
             ts == [procs EXCEPT ![p] = r]
  <2>1. Schedule(ts)
    BY <1>2 DEF Usleep
  <2>2. procs \in [Procs -> Structs] /\ procs[p].status = "RUNNING"
    BY <1>1, RunningLinked
  <2>3. r \in Structs /\ Akin(procs[p], r)
    BY <2>2 DEF Structs, Akin
  <2> HIDE DEF r
  <2>4. ts \in [Procs -> Structs] /\ ts[p] = r /\ \A t \in Procs \ {p} : ts[t] = procs[t]
    BY <2>2, <2>3
  <2> HIDE DEF ts
  <2>5. \A t \in Procs : Akin(procs[t], ts[t])
    BY <2>3, <2>4 DEF Akin
  <2> QED BY <1>1, <2>1, <2>4, <2>5, GivesWay
<1>3. CASE procs[p].pending # {}
  BY <1>1, <1>3, ReturnsSame DEF Usleep
<1> QED BY <1>2, <1>3

LEMMA CollectedAkin ==
  ASSUME procs \in [Procs -> Structs], NEW t \in Procs \cup {NoThread}
  PROVE  /\ Collected(t) \in [Procs -> Structs]
         /\ \A u \in Procs : Akin(procs[u], Collected(t)[u])
                            /\ Collected(t)[u].status = procs[u].status
<1>1. CASE t # NoThread /\ procs[t].status = "TERMINATED"
  <2> DEFINE r == [procs[t] EXCEPT !.parent = NoThread]
  <2>1. t \in Procs /\ procs[t] \in Structs /\ Collected(t) = [procs EXCEPT ![t] = r]
    BY <1>1 DEF Collected
  <2>2. r \in Structs /\ Akin(procs[t], r) /\ r.status = procs[t].status
    BY <2>1 DEF Structs, Akin
  <2> HIDE DEF r
  <2>3. /\ Collected(t) \in [Procs -> Structs] /\ Collected(t)[t] = r
        /\ \A u \in Procs \ {t} : Collected(t)[u] = procs[u]
    BY <2>1, <2>2
  <2> QED BY <2>2, <2>3 DEF Akin
<1>2. CASE ~(t # NoThread /\ procs[t].status = "TERMINATED")
  <2>1. Collected(t) = procs
    BY <1>2 DEF Collected
  <2> QED BY <2>1 DEF Akin
<1> QED BY <1>1, <1>2

(* Collecting t, then one more change of p.                                  *)
LEMMA CollectedOne ==
  ASSUME StacksInv, UNCHANGED <<ring, running, used, frames>>, NEW p \in Procs, running = p,
         NEW t \in Procs \cup {NoThread}, NEW s \in Structs,
         procs' = [Collected(t) EXCEPT ![p] = s],
         Akin(Collected(t)[p], s), s.status = Collected(t)[p].status
  PROVE  StacksInv'
<1>1. procs \in [Procs -> Structs] /\ procs[p].status = "RUNNING"
  BY RunningLinked
<1> DEFINE ts == Collected(t)
<1>2. /\ ts \in [Procs -> Structs]
      /\ \A u \in Procs : Akin(procs[u], ts[u]) /\ ts[u].status = procs[u].status
  BY <1>1, CollectedAkin
<1>3. procs' = [ts EXCEPT ![p] = s] /\ Akin(ts[p], s) /\ s.status = ts[p].status
  OBVIOUS
<1> HIDE DEF ts
<1>4. procs' \in [Procs -> Structs] /\ procs'[p] = s /\ \A u \in Procs \ {p} : procs'[u] = ts[u]
  BY <1>2, <1>3
<1>5. ASSUME NEW u \in Procs
      PROVE  Akin(procs[u], procs'[u])
  <2>1. CASE u = p
    <3>1. Akin(procs[p], s)
      BY <1>2, <1>3 DEF Akin
    <3> QED BY <1>4, <2>1, <3>1
  <2>2. CASE u # p
    BY <1>2, <1>4, <2>2
  <2> QED BY <2>1, <2>2
<1>6. procs'[running].status = "RUNNING"
  BY <1>1, <1>2, <1>3, <1>4
<1> QED BY <1>4, <1>5, <1>6, Quiet

LEMMA WaitpidReturnsKeeps ==
  ASSUME StacksInv, NEW p \in Procs, WaitpidReturns(p)
  PROVE  StacksInv'
<1> DEFINE t == procs[p].asked
           q == Collected(t)[p]
           s == [q EXCEPT !.at = "ret", !.asked = NoThread]
<1>1. procs \in [Procs -> Structs] /\ t \in Procs \cup {NoThread}
  BY RunningLinked DEF Structs
<1>2. running = p /\ UNCHANGED <<ring, running, used, frames>>
      /\ procs' = [Collected(t) EXCEPT ![p] = s]
  BY DEF WaitpidReturns
<1> HIDE DEF t
<1>3. q \in Structs
  BY <1>1, CollectedAkin
<1>4. s \in Structs /\ Akin(q, s) /\ s.status = q.status
  <2> HIDE DEF q
  <2> QED BY <1>3 DEF Structs, Akin
<1> HIDE DEF s
<1> QED BY <1>1, <1>2, <1>4, CollectedOne

LEMMA WaitpidKeeps ==
  ASSUME StacksInv, NEW p \in Procs, NEW t \in Procs, Waitpid(p, t)
  PROVE  StacksInv'
<1>1. running = p /\ UNCHANGED <<used, frames>>
  BY DEF Waitpid, InUser
<1>2. procs \in [Procs -> Structs] /\ procs[p].status = "RUNNING"
  BY <1>1, RunningLinked
<1>3. CASE Alive(t)
  <2> DEFINE r == [procs[p] EXCEPT !.status = "WAITING", !.waits = t, !.asked = t, !.at = "waitpid"]
             ts == [procs EXCEPT ![p] = r]
  <2>1. Schedule(ts)
    BY <1>3 DEF Waitpid
  <2>3. r \in Structs /\ Akin(procs[p], r)
    BY <1>2 DEF Structs, Akin
  <2> HIDE DEF r
  <2>4. ts \in [Procs -> Structs] /\ ts[p] = r /\ \A u \in Procs \ {p} : ts[u] = procs[u]
    BY <1>2, <2>3
  <2> HIDE DEF ts
  <2>5. \A u \in Procs : Akin(procs[u], ts[u])
    BY <2>3, <2>4 DEF Akin
  <2> QED BY <1>1, <2>1, <2>4, <2>5, GivesWay
<1>4. CASE ~Alive(t)
  <2> DEFINE q == Collected(t)[p]
             s == [q EXCEPT !.at = "ret"]
  <2>1. procs' = [Collected(t) EXCEPT ![p] = s] /\ UNCHANGED <<ring, running>>
    BY <1>4 DEF Waitpid
  <2>2. q \in Structs
    BY <1>2, CollectedAkin
  <2>3. s \in Structs /\ Akin(q, s) /\ s.status = q.status
    <3> HIDE DEF q
    <3> QED BY <2>2, AtReturn
  <2> HIDE DEF s
  <2> QED BY <1>1, <2>1, <2>3, CollectedOne
<1> QED BY <1>3, <1>4

LEMMA KillKeeps ==
  ASSUME StacksInv, NEW p \in Procs, NEW t \in Procs, NEW s \in Signals, Kill(p, t, s)
  PROVE  StacksInv'
<1>1. InUser(p) /\ running = p /\ procs[t].status \notin {"none", "TERMINATED"}
  BY DEF Kill, InUser, Alive
<1>2. procs \in [Procs -> Structs] /\ procs[p].status = "RUNNING"
  BY <1>1, RunningLinked
<1>3. CASE s \in procs[t].handlers
  <2> DEFINE m == MadeRunnable(procs[t])
             r == [m EXCEPT !.pending = @ \cup {s}]
             ts == [procs EXCEPT ![t] = r]
             v == [ts[p] EXCEPT !.at = "ret"]
  <2>1. procs' = [ts EXCEPT ![p] = v] /\ UNCHANGED <<ring, running, used, frames>>
    BY <1>3 DEF Kill
  <2>2. /\ m \in Structs /\ Akin(procs[t], m)
        /\ procs[t].status = "RUNNING" => m.status = "RUNNING"
    BY <1>1, <1>2 DEF MadeRunnable, Structs, Akin
  <2> HIDE DEF m
  <2>3. r \in Structs /\ Akin(m, r) /\ r.status = m.status
    BY <2>2 DEF Structs, Akin
  <2>4. Akin(procs[t], r)
    BY <2>2, <2>3 DEF Akin
  <2> HIDE DEF r
  <2>5. ts \in [Procs -> Structs] /\ ts[t] = r /\ \A u \in Procs \ {t} : ts[u] = procs[u]
    BY <1>2, <2>3
  <2> HIDE DEF ts
  <2>6. ts[p].status = "RUNNING" /\ \A u \in Procs : Akin(procs[u], ts[u])
    BY <1>2, <2>2, <2>3, <2>4, <2>5 DEF Akin
  <2>7. v \in Structs /\ Akin(ts[p], v) /\ v.status = "RUNNING"
    BY <2>5, <2>6, AtReturn
  <2> HIDE DEF v
  <2>8. procs' \in [Procs -> Structs] /\ procs'[p] = v /\ \A u \in Procs \ {p} : procs'[u] = ts[u]
    BY <2>1, <2>5, <2>7
  <2>9. ASSUME NEW u \in Procs
        PROVE  Akin(procs[u], procs'[u])
    <3>1. CASE u = p
      <4>1. Akin(procs[p], v)
        BY <2>6, <2>7 DEF Akin
      <4> QED BY <2>8, <3>1, <4>1
    <3>2. CASE u # p
      BY <2>6, <2>8, <3>2
    <3> QED BY <3>1, <3>2
  <2> QED BY <1>1, <2>1, <2>7, <2>8, <2>9, Quiet
<1>4. CASE s \notin procs[t].handlers
  BY <1>1, <1>4, TerminateKeeps DEF Kill
<1> QED BY <1>3, <1>4

LEMMA InterruptKeeps ==
  ASSUME StacksInv, NEW due \in SUBSET Procs, Interrupt(due)
  PROVE  StacksInv'
<1> DEFINE ts == WakeSleepers(due)
<1>1. /\ procs \in [Procs -> Structs] /\ \A t \in due : procs[t].status = "SLEEPING"
      /\ Schedule(ts) /\ UNCHANGED <<used, frames>>
  BY RunningLinked DEF Interrupt
<1>2. ASSUME NEW t \in Procs
      PROVE  ts[t] \in Structs /\ Akin(procs[t], ts[t])
  <2>1. procs[t] \in Structs
    BY <1>1
  <2>2. CASE t \in due
    <3>1. ts[t] = [procs[t] EXCEPT !.status = "READY"] /\ procs[t].status = "SLEEPING"
      BY <1>1, <2>2 DEF WakeSleepers
    <3> QED BY <2>1, <3>1 DEF Structs, Akin
  <2>3. CASE t \notin due /\ t = running
    <3>1. ts[t] = [procs[t] EXCEPT !.at = "ret"]
      BY <2>3 DEF WakeSleepers
    <3> QED BY <2>1, <3>1, AtReturn
  <2>4. CASE t \notin due /\ t # running
    <3>1. ts[t] = procs[t]
      BY <2>4 DEF WakeSleepers
    <3> QED BY <2>1, <3>1 DEF Akin
  <2> QED BY <2>2, <2>3, <2>4
<1>3. ts \in [Procs -> Structs]
  <2>1. ts = [t \in Procs |-> ts[t]]
    BY Zenon DEF WakeSleepers
  <2> HIDE DEF ts
  <2> QED BY <1>2, <2>1
<1> HIDE DEF ts
<1> QED BY <1>1, <1>2, <1>3, GivesWay

-----------------------------------------------------------------------------
(* Allocation: a block of t's for k is free, since t owns at most one.       *)
LEMMA FreshBlock ==
  ASSUME StacksInv, NEW t \in Procs, NEW k \in Kinds
  PROVE  Block(t, k) \in Named(t, k) /\ Block(t, k) \notin used
<1>1. \A n \in {1, 2} : <<t, k, n>> \in Blocks /\ <<t, k, n>> \in Named(t, k)
                       /\ <<t, k, n>>[1] = t /\ <<t, k, n>>[2] = k
  BY DEF Blocks, Named
<1>2. \E n \in {1, 2} : <<t, k, n>> \notin used
  <2> SUFFICES ASSUME \A n \in {1, 2} : <<t, k, n>> \in used
               PROVE  FALSE
    OBVIOUS
  <2>1. Books(procs, used)
    BY RunningLinked DEF Fine
  <2>2. procs[t].own[k] = <<t, k, 1>> /\ procs[t].own[k] = <<t, k, 2>>
    BY <1>1, <2>1 DEF Books
  <2> QED BY <2>2
<1> QED BY <1>1, <1>2 DEF Block

LEMMA GrantedFacts ==
  ASSUME StacksInv, NEW t \in Procs, NEW kinds \in SUBSET Kinds
  PROVE  /\ Granted(t, kinds) \in [Kinds -> Targets]
         /\ \A k \in kinds : Granted(t, kinds)[k] \in Named(t, k) /\ Granted(t, kinds)[k] # Nothing
         /\ \A k \in Kinds \ kinds : Granted(t, kinds)[k] = Nothing
         /\ BlocksOf(Granted(t, kinds)) \subseteq Blocks
         /\ BlocksOf(Granted(t, kinds)) \cap used = {}
         /\ \A b \in Blocks : b \in BlocksOf(Granted(t, kinds)) <=>
                              b[1] = t /\ Granted(t, kinds)[b[2]] = b
<1> DEFINE own == Granted(t, kinds)
<1>1. /\ \A k \in kinds : own[k] = Block(t, k)
      /\ \A k \in Kinds \ kinds : own[k] = Nothing
      /\ own = [k \in Kinds |-> own[k]]
  BY DEF Granted
<1> HIDE DEF own
<1>2. \A k \in kinds : own[k] \in Named(t, k) /\ own[k] \in Blocks /\ own[k] \notin used
                      /\ own[k] # Nothing /\ own[k][1] = t /\ own[k][2] = k
  BY <1>1, FreshBlock, BlockFacts
<1>3. own \in [Kinds -> Targets]
  <2>1. \A k \in Kinds : own[k] \in Targets
    BY <1>1, <1>2 DEF Targets
  <2> QED BY <1>1, <2>1
<1>4. BlocksOf(own) = {own[k] : k \in kinds}
  BY <1>1, <1>2 DEF BlocksOf
<1>5. ASSUME NEW b \in Blocks
      PROVE  b \in BlocksOf(own) <=> b[1] = t /\ own[b[2]] = b
  <2>1. b[2] \in Kinds /\ b # Nothing
    BY BlockFacts
  <2> QED BY <1>1, <1>2, <1>4, <2>1
<1>6. BlocksOf(own) \subseteq Blocks /\ BlocksOf(own) \cap used = {}
  BY <1>2, <1>4
<1> QED BY <1>1, <1>2, <1>3, <1>5, <1>6 DEF own

LEMMA InitSound == StacksInit => StacksInv
<1> SUFFICES ASSUME StacksInit PROVE StacksInv
  OBVIOUS
<1>1. /\ procs = [t \in Procs |-> Blank] /\ ring = <<Idle, Shell>> /\ running = Idle
      /\ used = {} /\ frames = [b \in Blocks |-> <<>>]
  BY DEF StacksInit
<1>2. \A t \in Procs : procs[t] = Blank /\ Owns(t, procs[t]) /\ Points(procs[t], frames)
  BY <1>1, BlankTyped DEF Owns, Points
<1>3. procs \in [Procs -> Structs]
  BY <1>1, BlankTyped
<1>4. Books(procs, used)
  BY <1>1, <1>2, BlankTyped, BlockFacts DEF Books
<1>5. Framed(used, frames)
  <2>1. <<>> \in Seq(Targets)
    OBVIOUS
  <2> QED BY <1>1, <2>1 DEF Framed
<1>6. Linked(procs, ring)
  <2>1. Shell \notin Procs /\ Idle \notin Procs /\ Shell # Idle
    BY StackProcessesAssumption
  <2>2. ring \in Seq(Everyone) /\ ToSet(ring) = {Shell, Idle} /\ DOMAIN ring = {1, 2}
    BY <1>1 DEF Everyone, ToSet
  <2>3. IsInjective(ring)
    BY <1>1, <2>1, <2>2 DEF IsInjective
  <2> QED BY <1>2, <2>1, <2>2, <2>3, BlankTyped DEF Linked, Everyone
<1> QED BY <1>1, <1>2, <1>3, <1>4, <1>5, <1>6, StackProcessesAssumption
        DEF StacksInv, Fine, Everyone

(* enqueue_thread                                                            *)
LEMMA EnqueuedLinked ==
  ASSUME NEW ts, Linked(ts, ring), NEW t \in Procs, ts[t].status = "none", NEW ts2,
         \A u \in Procs : ts2[u].status = "none" <=> ts[u].status = "none" /\ u # t
  PROVE  Linked(ts2, Enqueued(t))
<1> DEFINE n == Len(ring)
           e == Enqueued(t)
<1>1. /\ ring \in Seq(Everyone) /\ IsInjective(ring) /\ t \notin ToSet(ring) /\ t \in Everyone
      /\ Idle \in ToSet(ring)
  BY StackProcessesAssumption DEF Linked, Everyone
<1>2. /\ n \in Nat /\ n >= 1 /\ DOMAIN ring = 1..n
  BY <1>1 DEF ToSet
<1>3. /\ e \in Seq(Everyone) /\ Len(e) = n + 1 /\ DOMAIN e = 1 .. n + 1
      /\ e[1] = ring[1] /\ e[2] = t /\ \A i \in 3 .. n + 1 : e[i] = ring[i - 1]
  <2> DEFINE tail == Tail(ring)
             front == <<Head(ring), t>>
  <2>1. /\ ring # <<>> /\ Head(ring) = ring[1] /\ ring[1] \in Everyone
    BY <1>1, <1>2
  <2>2. /\ tail \in Seq(Everyone) /\ Len(tail) = n - 1
        /\ \A i \in 1 .. n - 1 : tail[i] = ring[i + 1]
    BY <1>1, <1>2, <2>1
  <2>3. /\ front \in Seq(Everyone) /\ Len(front) = 2 /\ front[1] = ring[1] /\ front[2] = t
    BY <1>1, <2>1
  <2>4. e = front \o tail
    BY DEF Enqueued
  <2> HIDE DEF front, tail, e, n
  <2>5. /\ e \in Seq(Everyone) /\ Len(e) = Len(front) + Len(tail)
        /\ \A i \in 1 .. Len(front) + Len(tail) :
             e[i] = IF i <= Len(front) THEN front[i] ELSE tail[i - Len(front)]
    BY <2>2, <2>3, <2>4, ConcatProperties
  <2>6. \A i \in 1 .. n + 1 : e[i] = IF i <= 2 THEN front[i] ELSE tail[i - 2]
    BY <1>2, <2>2, <2>3, <2>5
  <2>7. \A i \in 3 .. n + 1 : i - 2 \in 1 .. n - 1 /\ e[i] = tail[i - 2] /\ (i - 2) + 1 = i - 1
    BY <1>2, <2>6
  <2> QED BY <1>2, <2>2, <2>3, <2>5, <2>6, <2>7
<1> HIDE DEF e, n
<1>4. ToSet(e) = ToSet(ring) \cup {t}
  <2>1. ASSUME NEW u \in ToSet(e)
        PROVE  u \in ToSet(ring) \cup {t}
    <3>1. PICK i \in 1 .. n + 1 : e[i] = u
      BY <1>3 DEF ToSet
    <3>2. CASE i = 1
      BY <1>2, <1>3, <3>1, <3>2 DEF ToSet
    <3>3. CASE i = 2
      BY <1>3, <3>1, <3>3
    <3>4. CASE i \notin {1, 2}
      <4>1. i \in 3 .. n + 1 /\ i - 1 \in 1..n
        BY <1>2, <3>4
      <4> QED BY <1>2, <1>3, <3>1, <4>1 DEF ToSet
    <3> QED BY <3>2, <3>3, <3>4
  <2>2. ASSUME NEW u \in ToSet(ring)
        PROVE  u \in ToSet(e)
    <3>1. PICK i \in 1..n : ring[i] = u
      BY <1>2 DEF ToSet
    <3>2. CASE i = 1
      BY <1>2, <1>3, <3>1, <3>2 DEF ToSet
    <3>3. CASE i # 1
      <4>1. i + 1 \in 3 .. n + 1 /\ (i + 1) - 1 = i
        BY <1>2, <3>3
      <4>2. e[i + 1] = u /\ i + 1 \in DOMAIN e
        BY <1>3, <3>1, <4>1
      <4> QED BY <4>2 DEF ToSet
    <3> QED BY <3>2, <3>3
  <2>3. t \in ToSet(e)
    BY <1>2, <1>3 DEF ToSet
  <2> QED BY <2>1, <2>2, <2>3
<1>5. IsInjective(e)
  <2> DEFINE back(i) == IF i = 1 THEN 1 ELSE i - 1
  <2>1. ASSUME NEW i \in DOMAIN e, i # 2
        PROVE  back(i) \in DOMAIN ring /\ e[i] = ring[back(i)]
    BY <1>2, <1>3, <2>1
  <2>2. ASSUME NEW i \in DOMAIN e, NEW j \in DOMAIN e, e[i] = e[j]
        PROVE  i = j
    <3>1. CASE i # 2 /\ j # 2
      <4>1. back(i) = back(j)
        BY <1>1, <2>1, <2>2, <3>1 DEF IsInjective
      <4> QED BY <1>2, <1>3, <3>1, <4>1
    <3>2. CASE i = 2 /\ j # 2
      BY <1>1, <1>3, <2>1, <2>2, <3>2 DEF ToSet
    <3>3. CASE i # 2 /\ j = 2
      BY <1>1, <1>3, <2>1, <2>2, <3>3 DEF ToSet
    <3> QED BY <3>1, <3>2, <3>3
  <2> QED BY <2>2 DEF IsInjective
<1> QED BY <1>1, <1>3, <1>4, <1>5, StackProcessesAssumption DEF Linked, Everyone, e

-----------------------------------------------------------------------------
(* The running thread changes what it holds.                                 *)
LEMMA OneKeeps ==
  ASSUME StacksInv, UNCHANGED <<ring, running>>, NEW p \in Procs, running = p,
         NEW s \in Structs, s.status = "RUNNING", procs' = [procs EXCEPT ![p] = s],
         used' \subseteq Blocks, frames' \in [Blocks -> Seq(Targets)],
         Owns(p, s), Points(s, frames'), BooksOf(p, s, used, frames, used', frames')
  PROVE  StacksInv'
<1>1. Fine(procs, used, frames) /\ procs \in [Procs -> Structs] /\ procs[p].status = "RUNNING"
  BY RunningLinked
<1>2. Fine([procs EXCEPT ![p] = s], used', frames')
  BY <1>1, FineOne
<1>3. procs'[p] = s /\ \A t \in Procs \ {p} : procs'[t] = procs[t]
  BY <1>1
<1> QED BY <1>1, <1>2, <1>3, Steady

(* What the invariant says of the running thread.                            *)
LEMMA RunningFacts ==
  ASSUME StacksInv, NEW p \in Procs, running = p
  PROVE  /\ procs[p] \in Structs /\ procs[p].status = "RUNNING"
         /\ Owns(p, procs[p]) /\ Points(procs[p], frames)
         /\ procs[p].own \in [Kinds -> Targets] /\ procs[p].regs \in Registers
         /\ procs[p].saved \in Registers
         /\ procs[p].own["user_stack"] \in Named(p, "user_stack")
         /\ procs[p].own["user_stack"] # Nothing
         /\ \A k \in Kinds : procs[p].own[k] \in Named(p, k) \cup {Nothing}
         /\ \A b \in Blocks : /\ b \in used <=> procs[b[1]].own[b[2]] = b
                              /\ frames[b] # <<>> => b[2] = "user_stack" /\ b \in used
         /\ used \subseteq Blocks /\ frames \in [Blocks -> Seq(Targets)]
<1>1. procs[p] \in Structs /\ procs[p].status = "RUNNING" /\ Fine(procs, used, frames)
  BY RunningLinked
<1>2. Owns(p, procs[p]) /\ Points(procs[p], frames) /\ Books(procs, used) /\ Framed(used, frames)
  BY <1>1 DEF Fine
<1>3. /\ procs[p].own \in [Kinds -> Targets] /\ procs[p].regs \in Registers
      /\ procs[p].saved \in Registers
  BY <1>1 DEF Structs
<1>4. /\ \A k \in Kinds : procs[p].own[k] \in Named(p, k) \cup {Nothing}
      /\ procs[p].own["user_stack"] # Nothing
  BY <1>1, <1>2, BlockFacts DEF Owns
<1> QED BY <1>1, <1>2, <1>3, <1>4, BlockFacts DEF Books, Framed

LEMMA ExecKeeps ==
  ASSUME StacksInv, NEW p \in Procs, Exec(p)
  PROVE  StacksInv'
<1> DEFINE new == Block(p, "user_stack")
           stack == procs[p].own["user_stack"]
           signal == procs[p].own["signal_stack"]
           old == {stack} \cup SignalStack(procs[p])
           s == [[ClearSignalRuntime(procs[p]) EXCEPT
                    !.own["user_stack"] = new, !.regs = [sp |-> new, s0 |-> Nothing]]
                   EXCEPT !.at = "ret"]
<1>1. /\ running = p /\ used' = (used \cup {new}) \ old /\ frames' = Freed(old)
      /\ procs' = [procs EXCEPT ![p] = s] /\ UNCHANGED <<ring, running>>
  BY DEF Exec, InUser, Returns
<1>2. /\ procs[p] \in Structs /\ procs[p].status = "RUNNING" /\ Owns(p, procs[p])
      /\ stack \in Named(p, "user_stack") /\ signal \in Named(p, "signal_stack") \cup {Nothing}
      /\ \A b \in Blocks : /\ b \in used <=> procs[b[1]].own[b[2]] = b
                           /\ frames[b] # <<>> => b[2] = "user_stack" /\ b \in used
      /\ used \subseteq Blocks /\ frames \in [Blocks -> Seq(Targets)]
  BY <1>1, RunningFacts, BlockFacts
<1>3. new \in Named(p, "user_stack") /\ new \notin used
  BY BlockFacts, FreshBlock
<1>4. old = {stack, signal} \ {Nothing}
  <2>1. SignalStack(procs[p]) = {signal} \ {Nothing}
    BY <1>2, BlockFacts DEF SignalStack, ClearSignalRuntime, Structs
  <2> QED BY <1>2, <2>1, BlockFacts
<1>5. /\ s.status = "RUNNING" /\ s.active = FALSE /\ s.saved = NoRegs
      /\ s.regs = [sp |-> new, s0 |-> Nothing]
      /\ s.own["user_stack"] = new /\ s.own["signal_stack"] = Nothing
      /\ \A k \in Kinds \ Stacks : s.own[k] = procs[p].own[k]
      /\ s.own \in [Kinds -> Targets]
  BY <1>2, <1>3, BlockFacts DEF ClearSignalRuntime, Structs, Stacks, Targets
<1>6. s \in Structs
  <2>1. [sp |-> new, s0 |-> Nothing] \in Registers
    BY <1>3, BlockFacts DEF Registers, Targets
  <2> QED BY <1>2, <1>5, <2>1, BlankTyped DEF ClearSignalRuntime, Structs
<1> HIDE DEF s, old, new
<1>7. Owns(p, s)
  BY <1>2, <1>3, <1>5, BlockFacts DEF Owns, Stacks
<1>8. /\ frames' \in [Blocks -> Seq(Targets)]
      /\ \A b \in Blocks : frames'[b] = IF b \in old THEN <<>> ELSE frames[b]
  BY <1>1, <1>2, FreedFacts
<1>9. frames'[new] = <<>>
  BY <1>2, <1>3, <1>8, BlockFacts
<1>10. Points(s, frames')
  <2>1. DOMAIN frames'[new] = {}
    BY <1>9
  <2> QED BY <1>5, <2>1 DEF Points, NoRegs
<1>11. used' \subseteq Blocks
  BY <1>1, <1>2, <1>3, BlockFacts
<1>12. BooksOf(p, s, used, frames, used', frames')
  <2> SUFFICES ASSUME NEW b \in Blocks
               PROVE  IF b[1] = p
                      THEN /\ b \in used' <=> s.own[b[2]] = b
                           /\ frames'[b] # <<>> => b[2] = "user_stack" /\ b \in used'
                      ELSE frames'[b] = frames[b] /\ (b \in used' <=> b \in used)
    BY DEF BooksOf
  <2> HIDE DEF stack, signal
  <2>1. b[2] \in Kinds /\ b # Nothing
    BY BlockFacts
  <2>2. /\ b \in old <=> b \in {stack, signal}
        /\ b \in used' <=> (b \in used \/ b = new) /\ b \notin {stack, signal}
        /\ frames'[b] = IF b \in {stack, signal} THEN <<>> ELSE frames[b]
        /\ frames[b] # <<>> => b[2] = "user_stack" /\ b \in used
        /\ new # stack /\ new # signal /\ new[1] = p /\ new[2] = "user_stack"
    <3>1. stack \in used /\ stack[1] = p /\ stack[2] = "user_stack" /\ stack \in Blocks
      BY <1>2, BlockFacts DEF stack
    <3>2. new[1] = p /\ new[2] = "user_stack" /\ new \in Blocks
      BY <1>3, BlockFacts
    <3>3. signal = Nothing \/ signal[2] = "signal_stack"
      BY <1>2, BlockFacts
    <3>4. b \in old <=> b \in {stack, signal}
      BY <1>4, <2>1
    <3>5. b \in used' <=> (b \in used \/ b = new) /\ b \notin {stack, signal}
      BY <1>1, <3>4
    <3>6. frames'[b] = IF b \in {stack, signal} THEN <<>> ELSE frames[b]
      BY <1>8, <3>4
    <3>7. new # stack /\ new # signal
      BY <1>3, <3>1, <3>2, <3>3, BlockFacts
    <3> QED BY <1>2, <3>2, <3>4, <3>5, <3>6, <3>7
  <2>3. CASE b[1] # p
    <3>1. b \notin {stack, signal}
      BY <1>2, <2>1, <2>3, BlockFacts
    <3> QED BY <2>2, <2>3, <3>1
  <2>4. CASE b[1] = p
    <3>1. b \in used <=> procs[p].own[b[2]] = b
      BY <1>2, <2>4
    <3>2. /\ b = stack => b[2] = "user_stack"
          /\ b = signal => b[2] = "signal_stack"
      BY <1>2, <2>1, BlockFacts
    <3>3. CASE b[2] = "user_stack"
      <4>1. b \in used <=> b = stack
        BY <3>1, <3>3 DEF stack
      <4> QED BY <1>5, <2>2, <2>4, <3>2, <3>3, <4>1
    <3>4. CASE b[2] = "signal_stack"
      <4>1. b \in used <=> b = signal
        BY <3>1, <3>4 DEF signal
      <4> QED BY <1>5, <2>1, <2>2, <2>4, <3>4, <4>1
    <3>5. CASE b[2] \notin Stacks
      <4>1. s.own[b[2]] = procs[p].own[b[2]]
        BY <1>5, <2>1, <3>5
      <4> QED BY <2>2, <2>4, <3>1, <3>2, <3>5, <4>1 DEF Stacks
    <3> QED BY <3>3, <3>4, <3>5 DEF Stacks
  <2> QED BY <2>3, <2>4
<1> QED BY <1>1, <1>5, <1>6, <1>7, <1>8, <1>10, <1>11, <1>12, OneKeeps

LEMMA SigreturnKeeps ==
  ASSUME StacksInv, NEW p \in Procs, Sigreturn(p)
  PROVE  StacksInv'
<1> DEFINE signal == procs[p].own["signal_stack"]
           s == [[procs[p] EXCEPT !.regs = procs[p].saved, !.saved = NoRegs, !.active = FALSE,
                                  !.own["signal_stack"] = Nothing] EXCEPT !.at = "ret"]
<1>1. /\ running = p /\ procs[p].active /\ used' = used \ {signal} /\ frames' = Freed({signal})
      /\ procs' = [procs EXCEPT ![p] = s] /\ UNCHANGED <<ring, running>>
  BY DEF Sigreturn, InUser, Returns
<1>2. /\ procs[p] \in Structs /\ procs[p].status = "RUNNING" /\ Owns(p, procs[p])
      /\ Points(procs[p], frames) /\ signal \in Named(p, "signal_stack") \cup {Nothing}
      /\ procs[p].own["user_stack"] \in Named(p, "user_stack")
      /\ \A b \in Blocks : /\ b \in used <=> procs[b[1]].own[b[2]] = b
                           /\ frames[b] # <<>> => b[2] = "user_stack" /\ b \in used
      /\ used \subseteq Blocks /\ frames \in [Blocks -> Seq(Targets)]
  BY <1>1, RunningFacts, BlockFacts
<1>3. signal # Nothing
  BY <1>1, <1>2 DEF Points
<1>4. signal \in Blocks /\ signal[1] = p /\ signal[2] = "signal_stack"
  BY <1>2, <1>3, BlockFacts
<1>5. /\ s.status = "RUNNING" /\ s.active = FALSE /\ s.saved = NoRegs /\ s.regs = procs[p].saved
      /\ s.own["signal_stack"] = Nothing
      /\ \A k \in Kinds \ {"signal_stack"} : s.own[k] = procs[p].own[k]
  BY <1>2, BlockFacts DEF Structs
<1>6. s \in Structs
  <2>1. Nothing \in Targets
    BY DEF Targets
  <2> QED BY <1>2, <2>1, BlankTyped DEF Structs
<1> HIDE DEF s
<1>7. Owns(p, s)
  BY <1>2, <1>5, BlockFacts DEF Owns
<1>8. /\ frames' \in [Blocks -> Seq(Targets)]
      /\ \A b \in Blocks : frames'[b] = IF b \in {signal} THEN <<>> ELSE frames[b]
  BY <1>1, <1>2, FreedFacts
<1>9. \A b \in Blocks : frames'[b] = frames[b]
  BY <1>2, <1>4, <1>8
<1>10. Points(s, frames')
  <2>1. s.own["user_stack"] = procs[p].own["user_stack"]
    BY <1>5, BlockFacts
  <2>2. frames'[s.own["user_stack"]] = frames[procs[p].own["user_stack"]]
    BY <1>2, <1>9, <2>1, BlockFacts
  <2> DEFINE stack == procs[p].own["user_stack"]
  <2>3. /\ procs[p].saved.s0 \in {stack, Nothing} /\ procs[p].saved.sp = stack
        /\ \A i \in DOMAIN frames[stack] : frames[stack][i] \in {stack, Nothing}
    BY <1>1, <1>2 DEF Points
  <2>4. NoRegs.s0 = Nothing
    BY DEF NoRegs
  <2> HIDE DEF stack
  <2> QED BY <1>5, <2>1, <2>2, <2>3, <2>4 DEF Points, stack
<1>11. used' \subseteq Blocks
  BY <1>1, <1>2
<1>12. BooksOf(p, s, used, frames, used', frames')
  <2> SUFFICES ASSUME NEW b \in Blocks
               PROVE  IF b[1] = p
                      THEN /\ b \in used' <=> s.own[b[2]] = b
                           /\ frames'[b] # <<>> => b[2] = "user_stack" /\ b \in used'
                      ELSE frames'[b] = frames[b] /\ (b \in used' <=> b \in used)
    BY DEF BooksOf
  <2>1. b[2] \in Kinds /\ b # Nothing
    BY BlockFacts
  <2>2. b \in used' <=> b \in used /\ b # signal
    BY <1>1
  <2>3. CASE b[1] # p
    BY <1>4, <1>9, <2>2, <2>3
  <2>4. CASE b[1] = p /\ b[2] = "signal_stack"
    <3>1. b \in used <=> b = signal
      BY <1>2, <2>4
    <3> QED BY <1>2, <1>5, <1>9, <2>1, <2>2, <2>4, <3>1
  <2>5. CASE b[1] = p /\ b[2] # "signal_stack"
    <3>1. b \in used <=> s.own[b[2]] = b
      BY <1>2, <1>5, <2>1, <2>5
    <3>2. b # signal
      BY <1>4, <2>5
    <3> QED BY <1>2, <1>9, <2>2, <2>5, <3>1, <3>2
  <2> QED BY <2>3, <2>4, <2>5
<1> QED BY <1>1, <1>5, <1>6, <1>7, <1>8, <1>10, <1>11, <1>12, OneKeeps

LEMMA DeliverKeeps ==
  ASSUME StacksInv, NEW p \in Procs, running = p, ~procs[p].active, NEW signo, Deliver(p, signo)
  PROVE  StacksInv'
<1> DEFINE stack == Block(p, "signal_stack")
           s == [procs[p] EXCEPT
                   !.pending = @ \ {signo}, !.active = TRUE, !.saved = procs[p].regs,
                   !.own["signal_stack"] = stack, !.regs.sp = stack, !.at = "user"]
<1>1. /\ used' = used \cup {stack} /\ frames' = frames
      /\ procs' = [procs EXCEPT ![p] = s] /\ UNCHANGED <<ring, running>>
  BY DEF Deliver
<1>2. /\ procs[p] \in Structs /\ procs[p].status = "RUNNING" /\ Owns(p, procs[p])
      /\ Points(procs[p], frames)
      /\ procs[p].own["user_stack"] \in Named(p, "user_stack")
      /\ \A b \in Blocks : /\ b \in used <=> procs[b[1]].own[b[2]] = b
                           /\ frames[b] # <<>> => b[2] = "user_stack" /\ b \in used
      /\ used \subseteq Blocks /\ frames \in [Blocks -> Seq(Targets)]
  BY RunningFacts, BlockFacts
<1>3. /\ stack \in Named(p, "signal_stack") /\ stack \notin used
      /\ stack \in Blocks /\ stack[1] = p /\ stack[2] = "signal_stack" /\ stack # Nothing
  BY BlockFacts, FreshBlock
<1> HIDE DEF stack
<1>4. procs[p].own["signal_stack"] = Nothing
  BY <1>2 DEF Points
<1>5. /\ s.status = "RUNNING" /\ s.active = TRUE /\ s.saved = procs[p].regs
      /\ s.regs.sp = stack /\ s.regs.s0 = procs[p].regs.s0
      /\ s.own["signal_stack"] = stack
      /\ \A k \in Kinds \ {"signal_stack"} : s.own[k] = procs[p].own[k]
  BY <1>2, BlockFacts DEF Structs, Registers
<1>6. s \in Structs
  <2>1. stack \in Targets
    BY <1>3 DEF Targets
  <2>2. [procs[p].regs EXCEPT !.sp = stack] \in Registers /\ procs[p].regs \in Registers
    BY <1>2, <2>1 DEF Structs, Registers
  <2>3. [procs[p].own EXCEPT !["signal_stack"] = stack] \in [Kinds -> Targets]
    BY <1>2, <2>1 DEF Structs
  <2> QED BY <1>2, <2>2, <2>3 DEF Structs
<1> HIDE DEF s
<1>7. Owns(p, s)
  BY <1>2, <1>3, <1>5, BlockFacts DEF Owns
<1>8. Points(s, frames')
  <2>1. s.own["user_stack"] = procs[p].own["user_stack"]
    BY <1>5, BlockFacts
  <2> QED BY <1>1, <1>2, <1>3, <1>5, <2>1 DEF Points
<1>9. used' \subseteq Blocks /\ frames' \in [Blocks -> Seq(Targets)]
  BY <1>1, <1>2, <1>3
<1>10. BooksOf(p, s, used, frames, used', frames')
  <2> SUFFICES ASSUME NEW b \in Blocks
               PROVE  IF b[1] = p
                      THEN /\ b \in used' <=> s.own[b[2]] = b
                           /\ frames'[b] # <<>> => b[2] = "user_stack" /\ b \in used'
                      ELSE frames'[b] = frames[b] /\ (b \in used' <=> b \in used)
    BY DEF BooksOf
  <2>1. b[2] \in Kinds /\ b # Nothing
    BY BlockFacts
  <2>2. b \in used' <=> b \in used \/ b = stack
    BY <1>1
  <2>3. CASE b[1] # p
    BY <1>1, <1>3, <2>2, <2>3
  <2>4. CASE b[1] = p /\ b[2] = "signal_stack"
    <3>1. b \notin used
      BY <1>2, <1>4, <2>1, <2>4
    <3> QED BY <1>1, <1>2, <1>5, <2>2, <2>4, <3>1
  <2>5. CASE b[1] = p /\ b[2] # "signal_stack"
    <3>1. b \in used <=> s.own[b[2]] = b
      BY <1>2, <1>5, <2>1, <2>5
    <3>2. b # stack
      BY <1>3, <2>5
    <3> QED BY <1>1, <1>2, <2>2, <2>5, <3>1, <3>2
  <2> QED BY <2>3, <2>4, <2>5
<1> QED BY <1>1, <1>5, <1>6, <1>7, <1>8, <1>9, <1>10, OneKeeps

LEMMA ReturnToUserKeeps ==
  ASSUME StacksInv, NEW p \in Procs, ReturnToUser(p)
  PROVE  StacksInv'
<1> DEFINE first == CHOOSE s \in Deliverable(p) : \A r \in Deliverable(p) : s <= r
<1>1. running = p
  BY DEF ReturnToUser
<1>2. \/ ThreadExit(p)
      \/ Deliverable(p) # {} /\ Deliver(p, first)
      \/ procs' = [procs EXCEPT ![p].at = "user"] /\ UNCHANGED <<ring, running, used, frames>>
  BY DEF ReturnToUser
<1> HIDE DEF first
<1>3. CASE ThreadExit(p)
  BY <1>1, <1>3, ThreadExitKeeps
<1>4. CASE Deliverable(p) # {} /\ Deliver(p, first)
  <2>1. ~procs[p].active
    BY <1>4 DEF Deliverable
  <2> QED BY <1>1, <1>4, <2>1, DeliverKeeps
<1>5. CASE procs' = [procs EXCEPT ![p].at = "user"] /\ UNCHANGED <<ring, running, used, frames>>
  <2> DEFINE r == [procs[p] EXCEPT !.at = "user"]
  <2>1. procs' = [procs EXCEPT ![p] = r]
    BY <1>5
  <2>2. r \in Structs /\ Akin(procs[p], r) /\ r.status = procs[p].status
    <3>1. procs[p] \in Structs
      BY RunningLinked
    <3> QED BY <3>1, AtReturn
  <2> HIDE DEF r
  <2> QED BY <1>1, <1>5, <2>1, <2>2, QuietOne
<1> QED BY <1>2, <1>3, <1>4, <1>5

LEMMA CallKeeps ==
  ASSUME StacksInv, NEW p \in Procs, Call(p)
  PROVE  StacksInv'
<1> DEFINE stack == procs[p].own["user_stack"]
           s == [procs[p] EXCEPT !.regs.s0 = stack]
           pushed == Append(frames[stack], procs[p].regs.s0)
<1>1. running = p /\ ~procs[p].active
  BY DEF Call, InUser
<1>2. /\ procs[p] \in Structs /\ procs[p].status = "RUNNING" /\ Owns(p, procs[p])
      /\ Points(procs[p], frames) /\ procs[p].regs \in Registers /\ procs[p].saved \in Registers
      /\ stack \in Named(p, "user_stack") /\ stack # Nothing
      /\ \A b \in Blocks : /\ b \in used <=> procs[b[1]].own[b[2]] = b
                           /\ frames[b] # <<>> => b[2] = "user_stack" /\ b \in used
      /\ used \subseteq Blocks /\ frames \in [Blocks -> Seq(Targets)]
  BY <1>1, RunningFacts, BlockFacts
<1>3. stack \in Blocks /\ stack[1] = p /\ stack[2] = "user_stack"
  BY <1>2, BlockFacts
<1>4. /\ procs[p].regs.sp = stack /\ procs[p].regs.s0 \in {stack, Nothing}
      /\ procs[p].own["signal_stack"] = Nothing /\ procs[p].saved = NoRegs
      /\ \A i \in DOMAIN frames[stack] : frames[stack][i] \in {stack, Nothing}
  BY <1>1, <1>2 DEF Points
<1>5. /\ frames' = [frames EXCEPT ![stack] = pushed]
      /\ procs' = [procs EXCEPT ![p] = s] /\ UNCHANGED <<ring, running, used>>
  BY <1>4 DEF Call
<1>6. /\ s.status = "RUNNING" /\ s.active = procs[p].active /\ s.own = procs[p].own
      /\ s.regs.sp = stack /\ s.regs.s0 = stack /\ s.saved = procs[p].saved
  BY <1>2, <1>4 DEF Structs, Registers
<1>7. s \in Structs
  <2>1. [procs[p].regs EXCEPT !.s0 = stack] \in Registers
    BY <1>2, <1>3 DEF Registers, Targets
  <2> QED BY <1>2, <2>1 DEF Structs
<1> HIDE DEF s
<1>8. /\ pushed \in Seq(Targets)
      /\ \A i \in DOMAIN pushed : pushed[i] \in {stack, Nothing}
  <2>1. frames[stack] \in Seq(Targets) /\ procs[p].regs.s0 \in Targets
    BY <1>2, <1>3 DEF Registers
  <2>2. /\ pushed \in Seq(Targets) /\ Len(pushed) = Len(frames[stack]) + 1
        /\ \A i \in 1 .. Len(frames[stack]) : pushed[i] = frames[stack][i]
        /\ pushed[Len(frames[stack]) + 1] = procs[p].regs.s0
    BY <2>1
  <2> HIDE DEF pushed
  <2>3. DOMAIN pushed = 1 .. Len(frames[stack]) + 1 /\ Len(frames[stack]) \in Nat
        /\ DOMAIN frames[stack] = 1 .. Len(frames[stack])
    BY <2>1, <2>2
  <2>4. ASSUME NEW i \in DOMAIN pushed
        PROVE  pushed[i] \in {stack, Nothing}
    <3>1. CASE i = Len(frames[stack]) + 1
      BY <1>4, <2>2, <3>1
    <3>2. CASE i # Len(frames[stack]) + 1
      <4>1. i \in 1 .. Len(frames[stack])
        BY <2>3, <3>2
      <4> QED BY <1>4, <2>2, <2>3, <4>1
    <3> QED BY <3>1, <3>2
  <2> QED BY <2>2, <2>4
<1> HIDE DEF pushed
<1>9. /\ frames' \in [Blocks -> Seq(Targets)] /\ frames'[stack] = pushed
      /\ \A b \in Blocks \ {stack} : frames'[b] = frames[b]
  BY <1>2, <1>3, <1>5, <1>8
<1>10. Owns(p, s) /\ Points(s, frames')
  BY <1>1, <1>2, <1>4, <1>6, <1>8, <1>9 DEF Owns, Points, NoRegs
<1>11. BooksOf(p, s, used, frames, used', frames')
  <2> SUFFICES ASSUME NEW b \in Blocks
               PROVE  IF b[1] = p
                      THEN /\ b \in used' <=> s.own[b[2]] = b
                           /\ frames'[b] # <<>> => b[2] = "user_stack" /\ b \in used'
                      ELSE frames'[b] = frames[b] /\ (b \in used' <=> b \in used)
    BY DEF BooksOf
  <2>1. stack \in used
    BY <1>2, <1>3
  <2>2. CASE b = stack
    BY <1>2, <1>3, <1>5, <1>6, <2>1, <2>2
  <2>3. CASE b # stack
    BY <1>2, <1>5, <1>6, <1>9, <2>3
  <2> QED BY <2>2, <2>3
<1>12. used' \subseteq Blocks
  BY <1>2, <1>5
<1> QED BY <1>1, <1>5, <1>6, <1>7, <1>9, <1>10, <1>11, <1>12, OneKeeps

LEMMA ReturnKeeps ==
  ASSUME StacksInv, NEW p \in Procs, Return(p)
  PROVE  StacksInv'
<1> DEFINE stack == procs[p].own["user_stack"]
           top == Last(frames[stack])
           rest == Front(frames[stack])
           s == [procs[p] EXCEPT !.regs.s0 = top]
<1>1. running = p /\ frames[procs[p].regs.sp] # <<>>
  BY DEF Return, InUser
<1>2. /\ procs[p] \in Structs /\ procs[p].status = "RUNNING" /\ Owns(p, procs[p])
      /\ Points(procs[p], frames) /\ procs[p].regs \in Registers /\ procs[p].saved \in Registers
      /\ stack \in Named(p, "user_stack") /\ stack # Nothing
      /\ procs[p].own["signal_stack"] \in Named(p, "signal_stack") \cup {Nothing}
      /\ \A b \in Blocks : /\ b \in used <=> procs[b[1]].own[b[2]] = b
                           /\ frames[b] # <<>> => b[2] = "user_stack" /\ b \in used
      /\ used \subseteq Blocks /\ frames \in [Blocks -> Seq(Targets)]
  BY <1>1, RunningFacts, BlockFacts
<1>3. stack \in Blocks /\ stack[1] = p /\ stack[2] = "user_stack"
  BY <1>2, BlockFacts
<1>4. /\ ~procs[p].active /\ procs[p].regs.sp = stack
      /\ procs[p].own["signal_stack"] = Nothing /\ procs[p].saved = NoRegs
      /\ \A i \in DOMAIN frames[stack] : frames[stack][i] \in {stack, Nothing}
  <2>1. ~procs[p].active
    <3> SUFFICES ASSUME procs[p].active
                 PROVE  FALSE
      OBVIOUS
    <3>1. /\ procs[p].regs.sp = procs[p].own["signal_stack"]
          /\ procs[p].own["signal_stack"] # Nothing
      BY <1>2 DEF Points
    <3>2. procs[p].regs.sp \in Blocks /\ procs[p].regs.sp[2] = "signal_stack"
      BY <1>2, <3>1, BlockFacts
    <3> QED BY <1>1, <1>2, <3>2
  <2> QED BY <1>2, <2>1 DEF Points
<1>5. /\ frames' = [frames EXCEPT ![stack] = rest]
      /\ procs' = [procs EXCEPT ![p] = s] /\ UNCHANGED <<ring, running, used>>
  BY <1>4 DEF Return
<1>6. /\ frames[stack] \in Seq(Targets) /\ frames[stack] # <<>>
      /\ Len(frames[stack]) \in Nat /\ Len(frames[stack]) >= 1
      /\ DOMAIN frames[stack] = 1 .. Len(frames[stack])
  BY <1>1, <1>2, <1>3, <1>4
<1>7. /\ top \in {stack, Nothing} /\ rest \in Seq(Targets)
      /\ \A i \in DOMAIN rest : rest[i] \in {stack, Nothing}
  <2>1. top = frames[stack][Len(frames[stack])]
    BY DEF Last
  <2>2. rest = [i \in 1 .. Len(frames[stack]) - 1 |-> frames[stack][i]]
    BY <1>6 DEF Front
  <2>3. \A i \in 1 .. Len(frames[stack]) - 1 : frames[stack][i] \in Targets \cap {stack, Nothing}
    BY <1>4, <1>6
  <2> HIDE DEF rest
  <2>4. rest \in Seq(Targets) /\ DOMAIN rest = 1 .. Len(frames[stack]) - 1
    BY <1>6, <2>2, <2>3
  <2>5. top \in {stack, Nothing}
    BY <1>4, <1>6, <2>1
  <2>6. \A i \in DOMAIN rest : rest[i] \in {stack, Nothing}
    BY <2>2, <2>3
  <2> QED BY <2>4, <2>5, <2>6
<1>8. /\ s.status = "RUNNING" /\ s.active = procs[p].active /\ s.own = procs[p].own
      /\ s.regs.sp = stack /\ s.regs.s0 = top /\ s.saved = procs[p].saved
  <2> HIDE DEF top
  <2> QED BY <1>2, <1>4 DEF Structs, Registers
<1>9. s \in Structs
  <2>0. top \in Targets
    BY <1>3, <1>7 DEF Targets
  <2> HIDE DEF top
  <2>1. [procs[p].regs EXCEPT !.s0 = top] \in Registers
    BY <1>2, <2>0 DEF Registers
  <2> QED BY <1>2, <2>1 DEF Structs
<1> HIDE DEF s, rest, top
<1>10. /\ frames' \in [Blocks -> Seq(Targets)] /\ frames'[stack] = rest
       /\ \A b \in Blocks \ {stack} : frames'[b] = frames[b]
  BY <1>2, <1>3, <1>5, <1>7
<1>11. Owns(p, s) /\ Points(s, frames')
  BY <1>2, <1>4, <1>7, <1>8, <1>10 DEF Owns, Points, NoRegs
<1>12. BooksOf(p, s, used, frames, used', frames')
  <2> SUFFICES ASSUME NEW b \in Blocks
               PROVE  IF b[1] = p
                      THEN /\ b \in used' <=> s.own[b[2]] = b
                           /\ frames'[b] # <<>> => b[2] = "user_stack" /\ b \in used'
                      ELSE frames'[b] = frames[b] /\ (b \in used' <=> b \in used)
    BY DEF BooksOf
  <2>1. stack \in used
    BY <1>2, <1>3
  <2>2. CASE b = stack
    BY <1>2, <1>3, <1>5, <1>8, <2>1, <2>2
  <2>3. CASE b # stack
    BY <1>2, <1>5, <1>8, <1>10, <2>3
  <2> QED BY <2>2, <2>3
<1>13. used' \subseteq Blocks
  BY <1>2, <1>5
<1> QED BY <1>1, <1>5, <1>8, <1>9, <1>10, <1>11, <1>12, <1>13, OneKeeps

-----------------------------------------------------------------------------
(* A new thread t with the stack and the frames fr2 leaves in it.            *)
LEMMA NewThread ==
  ASSUME StacksInv, NEW t \in Procs, procs[t].status = "none", NEW s \in Structs,
         s.status = "READY", s.active = FALSE, s.saved = NoRegs,
         s.own = Granted(t, Kinds \ {"signal_stack"}), s.regs.sp = s.own["user_stack"],
         s.regs.s0 \in {s.own["user_stack"], Nothing},
         NEW fr2 \in [Blocks -> Seq(Targets)],
         \A b \in Blocks \ {s.own["user_stack"]} : fr2[b] = frames[b],
         \A i \in DOMAIN fr2[s.own["user_stack"]] :
           fr2[s.own["user_stack"]][i] \in {s.own["user_stack"], Nothing}
  PROVE  Fine([procs EXCEPT ![t] = s], used \cup BlocksOf(s.own), fr2)
<1> DEFINE stack == s.own["user_stack"]
           us2 == used \cup BlocksOf(s.own)
<1>1. /\ Fine(procs, used, frames) /\ Owns(t, procs[t]) /\ used \subseteq Blocks
      /\ \A b \in Blocks : /\ b \in used <=> procs[b[1]].own[b[2]] = b
                           /\ frames[b] # <<>> => b[2] = "user_stack" /\ b \in used
  BY RunningLinked DEF Fine, Books, Framed
<1>2. /\ \A k \in Kinds \ {"signal_stack"} : s.own[k] \in Named(t, k) /\ s.own[k] # Nothing
      /\ s.own["signal_stack"] = Nothing
      /\ BlocksOf(s.own) \subseteq Blocks /\ BlocksOf(s.own) \cap used = {}
      /\ \A b \in Blocks : b \in BlocksOf(s.own) <=> b[1] = t /\ s.own[b[2]] = b
  <2>1. /\ Kinds \ {"signal_stack"} \in SUBSET Kinds
        /\ "signal_stack" \in Kinds \ (Kinds \ {"signal_stack"})
    BY BlockFacts
  <2> QED BY <2>1, GrantedFacts
<1>3. stack \in Named(t, "user_stack") /\ stack \in Blocks /\ stack[1] = t /\ stack[2] = "user_stack"
  BY <1>2, BlockFacts
<1>4. Owns(t, s)
  BY <1>2 DEF Owns
<1>5. Points(s, fr2)
  <2>1. NoRegs.s0 = Nothing
    BY DEF NoRegs
  <2> QED BY <1>2, <2>1 DEF Points
<1>6. \A b \in Blocks : b[1] = t => b \notin used
  <2>1. \A k \in Kinds : procs[t].own[k] = Nothing
    BY <1>1 DEF Owns
  <2>2. SUFFICES ASSUME NEW b \in Blocks, b[1] = t
                 PROVE  b \notin used
    OBVIOUS
  <2>3. b # Nothing /\ b[2] \in Kinds
    BY BlockFacts
  <2>4. procs[b[1]].own[b[2]] = Nothing
    BY <2>1, <2>2, <2>3
  <2> QED BY <1>1, <2>3, <2>4
<1>7. us2 \in SUBSET Blocks
  BY <1>1, <1>2
<1>8. BooksOf(t, s, used, frames, us2, fr2)
  <2> SUFFICES ASSUME NEW b \in Blocks
               PROVE  IF b[1] = t
                      THEN /\ b \in us2 <=> s.own[b[2]] = b
                           /\ fr2[b] # <<>> => b[2] = "user_stack" /\ b \in us2
                      ELSE fr2[b] = frames[b] /\ (b \in us2 <=> b \in used)
    BY DEF BooksOf
  <2>1. b \in us2 <=> b \in used \/ (b[1] = t /\ s.own[b[2]] = b)
    BY <1>2
  <2>2. CASE b = stack
    BY <1>3, <2>1, <2>2
  <2>3. CASE b # stack /\ b[1] = t
    <3>1. b \notin used /\ fr2[b] = <<>>
      BY <1>1, <1>6, <2>3
    <3> QED BY <2>1, <2>3, <3>1
  <2>4. CASE b # stack /\ b[1] # t
    BY <2>1, <2>4
  <2> QED BY <2>2, <2>3, <2>4
<1> HIDE DEF us2
<1>9. Fine([procs EXCEPT ![t] = s], us2, fr2)
  BY <1>1, <1>4, <1>5, <1>7, <1>8, FineOne
<1> QED BY <1>9 DEF us2

LEMMA CreateKeeps ==
  ASSUME StacksInv, NEW t \in Procs, Create(t)
  PROVE  StacksInv'
<1> DEFINE own == Granted(t, Kinds \ {"signal_stack"})
           stack == own["user_stack"]
           s == [Blank EXCEPT !.status = "READY", !.parent = Shell, !.own = own,
                              !.regs = [sp |-> stack, s0 |-> Nothing]]
<1>1. /\ running = Shell /\ procs[t].status = "none"
      /\ used' = used \cup BlocksOf(own) /\ ring' = Enqueued(t)
      /\ procs' = [procs EXCEPT ![t] = s] /\ running' = running /\ frames' = frames
  BY DEF Create
<1>2. /\ own \in [Kinds -> Targets] /\ stack \in Named(t, "user_stack") /\ stack \in Blocks
      /\ stack \notin used
  <2>1. Kinds \ {"signal_stack"} \in SUBSET Kinds
    OBVIOUS
  <2>2. own \in [Kinds -> Targets] /\ stack \in Named(t, "user_stack") /\ own[stack[2]] = stack
        /\ stack \in Blocks /\ stack[1] = t
    BY <2>1, GrantedFacts, BlockFacts
  <2>3. stack \in BlocksOf(own) /\ BlocksOf(own) \cap used = {}
    BY <2>1, <2>2, GrantedFacts
  <2> QED BY <2>2, <2>3
<1> HIDE DEF own
<1>3. /\ procs \in [Procs -> Structs] /\ frames \in [Blocks -> Seq(Targets)] /\ Linked(procs, ring)
      /\ \A b \in Blocks : frames[b] # <<>> => b \in used
  BY RunningLinked DEF Fine, Framed
<1>4. /\ s.status = "READY" /\ s.active = FALSE /\ s.saved = NoRegs /\ s.own = own
      /\ s.regs.sp = stack /\ s.regs.s0 = Nothing
  BY BlankTyped DEF Structs
<1>5. s \in Structs
  <2>1. [sp |-> stack, s0 |-> Nothing] \in Registers
    BY <1>2 DEF Registers, Targets
  <2> QED BY <1>2, <2>1, BlankTyped DEF Structs
<1> HIDE DEF s
<1>6. Fine(procs', used', frames')
  <2>1. DOMAIN frames[stack] = {}
    <3>1. frames[stack] = <<>>
      BY <1>2, <1>3
    <3> QED BY <3>1
  <2>2. Fine([procs EXCEPT ![t] = s], used \cup BlocksOf(s.own), frames)
    BY <1>1, <1>3, <1>4, <1>5, <2>1, NewThread DEF own
  <2> QED BY <1>1, <1>4, <2>2
<1>7. \A u \in Procs : procs'[u].status = "none" <=> procs[u].status = "none" /\ u # t
  BY <1>1, <1>3, <1>4
<1>8. Linked(procs', ring')
  BY <1>1, <1>3, <1>7, EnqueuedLinked
<1>9. running' \in Everyone /\ running' \notin Procs
  BY <1>1, StackProcessesAssumption DEF Everyone
<1> QED BY <1>6, <1>8, <1>9 DEF StacksInv

(* fork copies the stack as it is, and this is right where fork is called by *)
(* the program itself, below no frame.                                       *)
LEMMA ForkKeeps ==
  ASSUME StacksInv, PlainFork = TRUE, NEW p \in Procs, NEW t \in Procs, Fork(p, t)
  PROVE  StacksInv'
<1> DEFINE own == Granted(t, Kinds \ {"signal_stack"})
           old == procs[p].own["user_stack"]
           new == own["user_stack"]
           s == [procs[p] EXCEPT !.status = "READY", !.parent = p, !.pending = {}, !.active = FALSE,
                   !.saved = NoRegs, !.own = own, !.regs = AdjustedRegs(procs[p].regs, old, new),
                   !.at = "ret"]
           r == [procs[p] EXCEPT !.at = "ret"]
           fr2 == [frames EXCEPT ![new] = frames[old]]
           ts == [procs EXCEPT ![t] = s]
<1>1. /\ running = p /\ procs[t].status = "none" /\ MayFork(p)
      /\ used' = used \cup BlocksOf(own) /\ ring' = Enqueued(t) /\ running' = running
      /\ frames' = fr2 /\ procs' = [[procs EXCEPT ![p] = r] EXCEPT ![t] = s]
  BY DEF Fork, InUser
<1>2. /\ own \in [Kinds -> Targets] /\ new \in Blocks /\ new # Nothing
  BY GrantedFacts, BlockFacts
<1> HIDE DEF own
<1>3. /\ procs \in [Procs -> Structs] /\ frames \in [Blocks -> Seq(Targets)] /\ Linked(procs, ring)
  BY RunningLinked
<1>4. /\ procs[p] \in Structs /\ procs[p].status = "RUNNING" /\ Points(procs[p], frames)
      /\ old \in Blocks /\ old # Nothing /\ t # p
  BY <1>1, RunningFacts, BlockFacts
<1>5. /\ procs[p].regs.sp = old /\ \A i \in DOMAIN frames[old] : frames[old][i] = Nothing
      /\ procs[p].regs.s0 \in {old, Nothing}
  BY <1>1, <1>4 DEF MayFork, Points
<1>6. /\ AdjustedRegs(procs[p].regs, old, new).sp = new
      /\ AdjustedRegs(procs[p].regs, old, new).s0 \in {new, Nothing}
      /\ AdjustedRegs(procs[p].regs, old, new) \in Registers
  <2>1. new \in Targets /\ Nothing \in Targets
    BY <1>2 DEF Targets
  <2> HIDE DEF new, old
  <2> QED BY <1>4, <1>5, <2>1 DEF AdjustedRegs, Adjusted, Registers
<1> HIDE DEF new, old
<1>7. /\ s.status = "READY" /\ s.active = FALSE /\ s.saved = NoRegs /\ s.own = own
      /\ s.regs.sp = new /\ s.regs.s0 \in {new, Nothing} /\ s \in Structs
  <2> DEFINE regs == AdjustedRegs(procs[p].regs, old, new)
  <2>1. /\ regs \in Registers /\ regs.sp = new /\ regs.s0 \in {new, Nothing}
        /\ s = [procs[p] EXCEPT !.status = "READY", !.parent = p, !.pending = {}, !.active = FALSE,
                  !.saved = NoRegs, !.own = own, !.regs = regs, !.at = "ret"]
    BY <1>6
  <2> HIDE DEF regs, s
  <2> QED BY <1>2, <1>4, <2>1, BlankTyped DEF Structs
<1>8. r \in Structs /\ Akin(procs[p], r) /\ r.status = "RUNNING"
  BY <1>4, AtReturn
<1> HIDE DEF s, r
<1>9. /\ fr2 \in [Blocks -> Seq(Targets)] /\ fr2[new] = frames[old]
      /\ \A b \in Blocks \ {new} : fr2[b] = frames[b]
  BY <1>2, <1>3, <1>4
<1> HIDE DEF fr2
<1>10. Fine(ts, used', fr2)
  <2>1. \A i \in DOMAIN fr2[new] : fr2[new][i] \in {new, Nothing}
    BY <1>5, <1>9
  <2>2. s.own["user_stack"] = new /\ s.own = Granted(t, Kinds \ {"signal_stack"})
    BY <1>7 DEF new, own
  <2>3. Fine(ts, used \cup BlocksOf(s.own), fr2)
    BY <1>1, <1>7, <1>9, <2>1, <2>2, NewThread
  <2> QED BY <1>1, <1>7, <2>3
<1>11. /\ ts \in [Procs -> Structs] /\ ts[t] = s /\ \A u \in Procs \ {t} : ts[u] = procs[u]
  BY <1>3, <1>7
<1>12. /\ procs' \in [Procs -> Structs] /\ procs'[t] = s /\ procs'[p] = r
       /\ \A u \in Procs \ {p, t} : procs'[u] = procs[u]
  BY <1>1, <1>3, <1>4, <1>7, <1>8
<1> HIDE DEF ts
<1>13. \A u \in Procs : Akin(ts[u], procs'[u])
  <2> SUFFICES ASSUME NEW u \in Procs
               PROVE  Akin(ts[u], procs'[u])
    OBVIOUS
  <2>1. CASE u = p
    BY <1>4, <1>8, <1>11, <1>12, <2>1
  <2>2. CASE u # p
    <3>1. procs'[u] = ts[u]
      BY <1>11, <1>12, <2>2
    <3> QED BY <3>1 DEF Akin
  <2> QED BY <2>1, <2>2
<1>14. Fine(procs', used', frames')
  <2>1. \A b \in Blocks : fr2[b] \in {fr2[b], <<>>}
    OBVIOUS
  <2>2. Fine(procs', used', fr2)
    BY <1>9, <1>10, <1>12, <1>13, <2>1, FineAkin
  <2> QED BY <1>1, <2>2
<1>15. Linked(procs', ring')
  <2>1. \A u \in Procs : procs'[u].status = "none" <=> procs[u].status = "none" /\ u # t
    BY <1>4, <1>7, <1>8, <1>12
  <2> QED BY <1>1, <1>3, <2>1, EnqueuedLinked
<1> QED BY <1>1, <1>8, <1>12, <1>14, <1>15 DEF StacksInv, Everyone

LEMMA ForkFailsKeeps ==
  ASSUME StacksInv, NEW p \in Procs, NEW t \in Procs, ForkFails(p, t)
  PROVE  StacksInv'
<1> DEFINE all == Kinds \ {"signal_stack"}
<1>1. PICK got \in SUBSET all \ {all} :
        /\ InUser(p)
        /\ used' = (used \cup BlocksOf(Granted(t, got))) \ BlocksOf(Granted(t, got))
        /\ Returns(p, procs[p]) /\ UNCHANGED frames
  BY DEF ForkFails
<1>2. BlocksOf(Granted(t, got)) \cap used = {}
  BY GrantedFacts
<1>3. used' = used
  BY <1>1, <1>2
<1> QED BY <1>1, <1>3, ReturnsSame DEF InUser

-----------------------------------------------------------------------------
(* kill_zombies: what is freed is what the dead own, no more and no less.    *)
LEMMA EveryoneFinite == IsFiniteSet(Everyone)
<1>1. IsFiniteSet(Procs)
  BY StackProcessesAssumption
<1>2. IsFiniteSet(Procs \cup {Shell})
  BY <1>1, FS_AddElement
<1>3. IsFiniteSet((Procs \cup {Shell}) \cup {Idle})
  BY <1>2, FS_AddElement
<1>4. Everyone = (Procs \cup {Shell}) \cup {Idle}
  BY DEF Everyone
<1> QED BY <1>3, <1>4

LEMMA UnlinkedSound ==
  ASSUME NEW dead \in SUBSET Procs, Linked(procs, ring), NEW q \in Unlinked(dead)
  PROVE  /\ q \in Seq(Everyone) /\ IsInjective(q) /\ ToSet(q) = ToSet(ring) \ dead
<1> DEFINE left == ToSet(ring) \ dead
           n == Cardinality(left)
<1>1. left \subseteq Everyone /\ IsInjective(ring)
  BY DEF Linked, ToSet
<1>2. n \in Nat
  BY <1>1, EveryoneFinite, FS_Subset, FS_CardinalityType
<1>3. /\ q \in [1..n -> left] /\ ToSet(q) = left
      /\ \A i, j \in DOMAIN q : i < j =>
           \E k, m \in DOMAIN ring : k < m /\ ring[k] = q[i] /\ ring[m] = q[j]
  BY DEF Unlinked
<1> HIDE DEF n, left
<1>4. q \in Seq(Everyone) /\ DOMAIN q = 1..n
  BY <1>1, <1>2, <1>3
<1>5. IsInjective(q)
  <2> SUFFICES ASSUME NEW i \in 1..n, NEW j \in 1..n, i # j
               PROVE  q[i] # q[j]
    BY <1>4 DEF IsInjective
  <2>1. ASSUME NEW a \in 1..n, NEW b \in 1..n, a < b
        PROVE  q[a] # q[b]
    <3>1. PICK k, m \in DOMAIN ring : k < m /\ ring[k] = q[a] /\ ring[m] = q[b]
      BY <1>3, <1>4, <2>1
    <3>2. k # m
      <4>1. DOMAIN ring = 1 .. Len(ring) /\ Len(ring) \in Nat
        BY DEF Linked
      <4> QED BY <3>1, <4>1
    <3> QED BY <1>1, <3>1, <3>2 DEF IsInjective
  <2>2. i < j \/ j < i
    BY <1>2
  <2> QED BY <2>1, <2>2
<1> QED BY <1>3, <1>4, <1>5 DEF left

LEMMA KillZombiesKeeps ==
  ASSUME StacksInv, NEW reused, KillZombies(reused)
  PROVE  StacksInv'
<1> DEFINE dead == {t \in Procs : IsZombie(t, reused)}
           freed == UNION {BlocksOf(procs[t].own) : t \in dead}
           Forgotten(t) == IF t \in dead THEN NoThread ELSE t
<1>1. /\ running = Idle /\ running' = running /\ ring' \in Unlinked(dead)
      /\ used' = used \ freed /\ frames' = Freed(freed)
      /\ procs' = [t \in Procs |-> IF t \in dead THEN Blank ELSE
                    [procs[t] EXCEPT !.waits = Forgotten(procs[t].waits),
                                     !.asked = Forgotten(procs[t].asked)]]
  BY DEF KillZombies
<1>2. dead \in SUBSET Procs /\ \A t \in dead : procs[t].status = "TERMINATED"
  BY DEF IsZombie
<1> HIDE DEF dead
<1>3. /\ procs \in [Procs -> Structs] /\ Linked(procs, ring) /\ used \subseteq Blocks
      /\ frames \in [Blocks -> Seq(Targets)]
      /\ \A t \in Procs : Owns(t, procs[t]) /\ Points(procs[t], frames)
      /\ \A b \in Blocks : /\ b \in used <=> procs[b[1]].own[b[2]] = b
                           /\ frames[b] # <<>> => b[2] = "user_stack" /\ b \in used
  BY RunningLinked DEF Fine, Books, Framed
<1>4. ASSUME NEW t \in Procs, t \notin dead
      PROVE  procs'[t] \in Structs /\ Akin(procs[t], procs'[t])
  <2> DEFINE w == Forgotten(procs[t].waits)
             a == Forgotten(procs[t].asked)
  <2>1. w \in Procs \cup {NoThread} /\ a \in Procs \cup {NoThread}
    BY <1>3 DEF Structs
  <2>2. procs'[t] = [procs[t] EXCEPT !.waits = w, !.asked = a]
    BY <1>1, <1>4
  <2> HIDE DEF w, a
  <2>3. procs[t] \in Structs
    BY <1>3
  <2> QED BY <2>1, <2>2, <2>3 DEF Structs, Akin
<1>5. \A t \in dead : procs'[t] = Blank
  BY <1>1, <1>2
<1>6. procs' \in [Procs -> Structs]
  <2>1. procs' = [t \in Procs |-> procs'[t]]
    BY <1>1
  <2>2. \A t \in Procs : procs'[t] \in Structs
    BY <1>4, <1>5, BlankTyped
  <2> QED BY <2>1, <2>2
<1>7. \A b \in Blocks : b \in freed <=> b[1] \in dead /\ b \in used
  <2> SUFFICES ASSUME NEW b \in Blocks
               PROVE  b \in freed <=> b[1] \in dead /\ b \in used
    OBVIOUS
  <2>1. b[1] \in Procs /\ b[2] \in Kinds /\ b # Nothing
    BY BlockFacts
  <2>2. ASSUME b \in freed
        PROVE  b[1] \in dead /\ b \in used
    <3>1. PICK t \in dead : b \in BlocksOf(procs[t].own)
      BY <2>2
    <3>2. PICK k \in Kinds : b = procs[t].own[k]
      BY <3>1 DEF BlocksOf
    <3>3. b \in Named(t, k)
      BY <1>2, <1>3, <2>1, <3>2 DEF Owns
    <3>4. b[1] = t /\ b[2] = k
      BY <1>2, <3>3, BlockFacts
    <3> QED BY <1>3, <3>2, <3>4
  <2>3. ASSUME b[1] \in dead, b \in used
        PROVE  b \in freed
    <3>1. procs[b[1]].own[b[2]] = b
      BY <1>3, <2>3
    <3>2. b \in BlocksOf(procs[b[1]].own)
      BY <2>1, <3>1 DEF BlocksOf
    <3> QED BY <2>3, <3>2
  <2> QED BY <2>2, <2>3
<1> HIDE DEF freed
<1>8. /\ frames' \in [Blocks -> Seq(Targets)]
      /\ \A b \in Blocks : frames'[b] = IF b \in freed THEN <<>> ELSE frames[b]
  BY <1>1, <1>3, FreedFacts
<1>9. ASSUME NEW t \in Procs
      PROVE  Owns(t, procs'[t]) /\ Points(procs'[t], frames')
  <2>1. CASE t \in dead
    BY <1>5, <2>1, BlankTyped DEF Owns, Points
  <2>2. CASE t \notin dead
    <3>1. Akin(procs[t], procs'[t]) /\ Owns(t, procs[t]) /\ Points(procs[t], frames)
      BY <1>3, <1>4, <2>2
    <3>2. Owns(t, procs'[t])
      BY <3>1 DEF Owns, Akin
    <3>3. ASSUME procs'[t].status \notin {"none", "TERMINATED"}
          PROVE  frames'[procs[t].own["user_stack"]] = frames[procs[t].own["user_stack"]]
      <4>1. procs[t].own["user_stack"] \in Named(t, "user_stack")
        BY <3>1, <3>3, BlockFacts DEF Owns, Akin
      <4>2. procs[t].own["user_stack"] \in Blocks /\ procs[t].own["user_stack"][1] = t
        BY <4>1, BlockFacts
      <4> QED BY <1>7, <1>8, <2>2, <4>2
    <3>4. Points(procs'[t], frames')
      BY <3>1, <3>3 DEF Points, Akin
    <3> QED BY <3>2, <3>4
  <2> QED BY <2>1, <2>2
<1>10. Books(procs', used')
  <2> SUFFICES ASSUME NEW b \in Blocks
               PROVE  b \in used' <=> procs'[b[1]].own[b[2]] = b
    BY <1>1, <1>3 DEF Books
  <2>1. b[1] \in Procs /\ b[2] \in Kinds /\ b # Nothing
    BY BlockFacts
  <2>2. b \in used' <=> b \in used /\ b[1] \notin dead
    BY <1>1, <1>7
  <2>3. CASE b[1] \in dead
    BY <1>5, <2>1, <2>2, <2>3, BlankTyped
  <2>4. CASE b[1] \notin dead
    BY <1>3, <1>4, <2>1, <2>2, <2>4 DEF Akin
  <2> QED BY <2>3, <2>4
<1>11. Framed(used', frames')
  BY <1>1, <1>3, <1>8 DEF Framed
<1>12. Linked(procs', ring')
  <2>1. ring' \in Seq(Everyone) /\ IsInjective(ring') /\ ToSet(ring') = ToSet(ring) \ dead
    BY <1>1, <1>2, <1>3, UnlinkedSound
  <2>2. ASSUME NEW t \in Everyone
        PROVE  t \in ToSet(ring') <=> (t \in Procs => procs'[t].status # "none")
    <3>1. t \in ToSet(ring) <=> (t \in Procs => procs[t].status # "none")
      BY <1>3 DEF Linked
    <3>2. CASE t \notin Procs
      BY <1>2, <2>1, <3>1, <3>2
    <3>3. CASE t \in dead
      BY <1>2, <1>5, <2>1, <3>3, BlankTyped
    <3>4. CASE t \in Procs \ dead
      <4>1. procs'[t].status = "none" <=> procs[t].status = "none"
        BY <1>4, <3>4 DEF Akin
      <4> QED BY <2>1, <3>1, <3>4, <4>1
    <3> QED BY <3>2, <3>3, <3>4
  <2> QED BY <2>1, <2>2 DEF Linked
<1>13. running' \in Everyone /\ running' \notin Procs
  BY <1>1, StackProcessesAssumption DEF Everyone
<1> QED BY <1>6, <1>9, <1>10, <1>11, <1>12, <1>13 DEF StacksInv, Fine

-----------------------------------------------------------------------------
LEMMA StepSound ==
  ASSUME PlainFork = TRUE, StacksInv, [StacksNext]_stackVars
  PROVE  StacksInv'
<1>1. CASE UNCHANGED stackVars
  BY <1>1 DEF stackVars, StacksInv, Linked
<1>2. CASE \E due \in SUBSET Procs : Interrupt(due)
  BY <1>2, InterruptKeeps
<1>3. CASE \E reused \in SUBSET Procs : KillZombies(reused)
  BY <1>3, KillZombiesKeeps
<1>4. ASSUME NEW p \in Procs,
             \/ Create(p) \/ Exec(p) \/ ExecFails(p) \/ WaitpidReturns(p) \/ Usleep(p) \/ Exit(p)
             \/ Sigreturn(p) \/ ReturnToUser(p) \/ Call(p) \/ Return(p)
      PROVE  StacksInv'
  BY <1>4, CreateKeeps, ExecKeeps, ExecFailsKeeps, WaitpidReturnsKeeps, UsleepKeeps, ExitKeeps,
     SigreturnKeeps, ReturnToUserKeeps, CallKeeps, ReturnKeeps
<1>5. ASSUME NEW p \in Procs, NEW t \in Procs,
             Fork(p, t) \/ ForkFails(p, t) \/ Waitpid(p, t) \/ Stop(p, t)
      PROVE  StacksInv'
  BY <1>5, ForkKeeps, ForkFailsKeeps, WaitpidKeeps, StopKeeps
<1>6. ASSUME NEW p \in Procs, NEW s \in Signals,
             Signal(p, s) \/ \E t \in Procs : Kill(p, t, s)
      PROVE  StacksInv'
  BY <1>6, SignalKeeps, KillKeeps
<1> QED BY <1>1, <1>2, <1>3, <1>4, <1>5, <1>6 DEF StacksNext

LEMMA OwnedOnce ==
  ASSUME StacksInv
  PROVE  BlocksOwned
<1> DEFINE held == {h \in Procs \X Kinds : procs[h[1]].own[h[2]] # Nothing}
           block(h) == procs[h[1]].own[h[2]]
           f == [h \in held |-> block(h)]
<1>1. /\ procs \in [Procs -> Structs] /\ used \subseteq Blocks
      /\ \A t \in Procs : Owns(t, procs[t])
      /\ \A b \in Blocks : b \in used <=> procs[b[1]].own[b[2]] = b
      /\ Linked(procs, ring)
  BY RunningLinked DEF Fine, Books
<1>2. ASSUME NEW h \in held
      PROVE  /\ h \in Procs \X Kinds /\ block(h) \in used
             /\ block(h)[1] = h[1] /\ block(h)[2] = h[2]
  <2>1. h[1] \in Procs /\ h[2] \in Kinds /\ block(h) # Nothing
    OBVIOUS
  <2>2. block(h) \in Named(h[1], h[2])
    BY <1>1, <2>1 DEF Owns
  <2> QED BY <1>1, <2>1, <2>2, BlockFacts
<1>3. ASSUME NEW b \in used
      PROVE  \E h \in held : b = block(h)
  <2>1. b \in Blocks /\ b[1] \in Procs /\ b[2] \in Kinds /\ b # Nothing
    BY <1>1, BlockFacts
  <2>2. procs[b[1]].own[b[2]] = b
    BY <1>1, <2>1
  <2>3. <<b[1], b[2]>> \in held /\ b = block(<<b[1], b[2]>>)
    BY <2>1, <2>2
  <2> QED BY <2>3
<1>4. used = {block(h) : h \in held}
  BY <1>2, <1>3
<1>5. IsFiniteSet(held)
  <2>1. IsFiniteSet(Kinds)
    <3>1. IsFiniteSet({"user_stack"})
      BY FS_Singleton
    <3>2. IsFiniteSet({"user_stack"} \cup {"signal_stack"})
      BY <3>1, FS_AddElement
    <3>3. IsFiniteSet(({"user_stack"} \cup {"signal_stack"}) \cup {"struct"})
      BY <3>2, FS_AddElement
    <3>4. IsFiniteSet((({"user_stack"} \cup {"signal_stack"}) \cup {"struct"}) \cup {"kernel_stack"})
      BY <3>3, FS_AddElement
    <3>5. Kinds = (({"user_stack"} \cup {"signal_stack"}) \cup {"struct"}) \cup {"kernel_stack"}
      BY DEF Kinds, Stacks
    <3> QED BY <3>4, <3>5
  <2>2. IsFiniteSet(Procs \X Kinds)
    BY <2>1, StackProcessesAssumption, FS_Product
  <2>3. held \in SUBSET (Procs \X Kinds)
    OBVIOUS
  <2> QED BY <2>2, <2>3, FS_Subset
<1>6. ExistsBijection(held, used)
  <2> HIDE DEF held
  <2>1. f \in [held -> used]
    BY <1>2
  <2>2. ASSUME NEW g \in held, NEW h \in held, f[g] = f[h]
        PROVE  g = h
    <3>1. block(g) = block(h)
      BY <2>2
    <3>2. g[1] = h[1] /\ g[2] = h[2] /\ g \in Procs \X Kinds /\ h \in Procs \X Kinds
      BY <1>2, <3>1
    <3> QED BY <3>2
  <2>3. \A b \in used : \E h \in held : f[h] = b
    BY <1>3
  <2> HIDE DEF f
  <2>4. f \in Bijection(held, used)
    BY <2>1, <2>2, <2>3 DEF Bijection, Injection, Surjection, IsInjective
  <2> QED BY <2>4 DEF ExistsBijection
<1>7. Cardinality(used) = Cardinality(held)
  BY <1>5, <1>6, FS_Bijection
<1>8. ToSet(ring) = {t \in Procs : procs[t].own["struct"] # Nothing} \cup {Shell, Idle}
  <2>1. ToSet(ring) \subseteq Everyone
    BY <1>1 DEF Linked, ToSet
  <2>2. \A t \in Procs : procs[t].status # "none" <=> procs[t].own["struct"] # Nothing
    BY <1>1, BlockFacts DEF Owns
  <2> QED BY <1>1, <2>1, <2>2, StackProcessesAssumption DEF Linked, Everyone
<1>9. IsInjective(ring)
  BY <1>1 DEF Linked
<1> QED BY <1>4, <1>7, <1>8, <1>9 DEF BlocksOwned

LEMMA InvSound == StacksInv => StacksSound
<1> SUFFICES ASSUME StacksInv PROVE StacksSound
  OBVIOUS
<1>1. /\ procs \in [Procs -> Structs] /\ used \subseteq Blocks
      /\ \A t \in Procs : Owns(t, procs[t]) /\ Points(procs[t], frames)
  BY RunningLinked DEF Fine
<1>2. StackTypes
  <2>1. \A t \in Procs : BlocksOf(procs[t].own) \subseteq Blocks
    BY <1>1, BlockFacts DEF BlocksOf, Owns
  <2> QED BY <1>1, <2>1 DEF StackTypes, StacksInv, Everyone
<1>3. OwnStacks
  <2> SUFFICES ASSUME NEW t \in Procs, Alive(t)
               PROVE  /\ {procs[t].regs.sp, procs[t].regs.s0, procs[t].saved.sp, procs[t].saved.s0}
                            \subseteq {procs[t].own[k] : k \in Stacks} \cup {Nothing}
                      /\ procs[t].active <=> procs[t].own["signal_stack"] # Nothing
                      /\ procs[t].regs.sp # Nothing
    BY DEF OwnStacks
  <2>1. /\ procs[t].status \notin {"none", "TERMINATED"} /\ procs[t] \in Structs
        /\ procs[t].own["user_stack"] # Nothing
    BY <1>1, BlockFacts DEF Alive, Owns
  <2> DEFINE stack == procs[t].own["user_stack"]
             signal == procs[t].own["signal_stack"]
  <2>2. {procs[t].own[k] : k \in Stacks} = {stack, signal}
    BY DEF Stacks
  <2>3. /\ procs[t].regs.s0 \in {stack, Nothing} /\ procs[t].saved.s0 \in {stack, Nothing}
        /\ procs[t].active => /\ signal # Nothing /\ procs[t].regs.sp = signal
                              /\ procs[t].saved.sp = stack
        /\ ~procs[t].active => /\ signal = Nothing /\ procs[t].regs.sp = stack
                               /\ procs[t].saved = NoRegs
    BY <1>1, <2>1 DEF Points
  <2>4. NoRegs.sp = Nothing
    BY DEF NoRegs
  <2>5. procs[t].active \in BOOLEAN
    BY <2>1 DEF Structs
  <2> HIDE DEF stack, signal
  <2> QED BY <2>1, <2>2, <2>3, <2>4, <2>5 DEF stack, signal
<1> QED BY <1>2, <1>3, OwnedOnce DEF StacksSound

(* lab5's processes: whatever they fork, exec, call and handle, and however  *)
(* they end, every block in use has one owner, what kill_zombies frees is    *)
(* not linked any more, and the registers of a living process point into     *)
(* stacks of its own.                                                        *)
THEOREM StacksStaySound ==
  ASSUME PlainFork = TRUE
  PROVE  StacksSpec => []StacksSound
<1>1. StacksInit => StacksInv
  BY InitSound
<1>2. StacksInv /\ [StacksNext]_stackVars => StacksInv'
  BY StepSound
<1>3. StacksInv => StacksSound
  BY InvSound
<1> QED BY <1>1, <1>2, <1>3, PTL DEF StacksSpec
=============================================================================
