-------------------------------- MODULE Uart --------------------------------
(***************************************************************************)
(* The UART driver (uart.c) and the interrupt controller in front of it    *)
(* (plic.c): a ring of characters to send that the interrupt handler       *)
(* empties, a ring of received characters that it fills, writes that       *)
(* bypass the ring with interrupts off, and prints of the trap handlers,   *)
(* which go through the ring while nothing can empty it.  The text that a  *)
(* process has written lies in its memory, which may have to be brought in *)
(* at every character: the page fault prints, too.                         *)
(* There is one processor: whoever has interrupts off runs alone, next to  *)
(* the hardware.                                                           *)
(***************************************************************************)
EXTENDS Integers, Sequences, FiniteSets, SequencesExt

CONSTANTS
  Size,      \* characters in a ring: sizeof(rb->buf)
  Fifo,      \* characters the hardware keeps before it loses one
  Budget,    \* rounds of the handler's loop
  Burst,     \* the longest print through the ring with interrupts off
  Text,      \* characters of the longest text in a process's memory
  Threads,   \* contexts that print with interrupts on
  Traps,     \* contexts that print with interrupts off
  NoWriter,
  Input,     \* characters that arrive
  NoChar     \* what is in a slot of a ring that holds none

ASSUME UartAssumption ==
  /\ {Size, Fifo, Budget, Burst, Text} \subseteq Nat \ {0}
  /\ Burst <= Size            \* 20 digits and an end of line against 1024
  /\ Threads \cap Traps = {} /\ NoWriter \notin Threads \cup Traps

Writers == Threads \cup Traps

VARIABLES
  irqMode,  \* uart_irq_mode
  tx, rx,   \* g_tx_rb, g_rx_rb
  txInt,    \* IER_TX_INT in the interrupt enable register
  hold,     \* the transmit holding register: LSR_TDRQ iff it is empty
  thre,     \* the hardware wants to report that it became empty
  fifo,     \* the receive FIFO: LSR_DR iff it is not empty
  pc,       \* of each writer: "idle", "return" (before it queues \r), "put"
            \* (before it queues its last character), "burst"; "user" (it
            \* writes a text in user memory), "fault" (of which the next
            \* character is not there), "there" (it has been brought in)
  off,      \* the writer that prints with interrupts off
  rounds,   \* left in the loop of uart_irq_handler; 0 outside the handler
  left,     \* characters the printing with interrupts off still has to queue
  todo,     \* characters of the text in user memory still to be written
  said,     \* the characters the last step accepted to send,
  carried,  \* those it put on the line,
  got       \* and what it returned from uart_getc_nonblock
tvars == <<tx, txInt, hold, thre>>
rvars == <<rx, fifo>>
wvars == <<pc, off, left, todo>>
vars == <<irqMode, rounds, tvars, rvars, wvars, said, carried, got>>

-----------------------------------------------------------------------------
(* The rings.                                                                *)
EmptyRing == [buf |-> [i \in 0..(Size - 1) |-> NoChar], head |-> 0, tail |-> 0,
              count |-> 0]
Full(rb) == rb.count = Size
Wrap(i) == i % Size
(* rb_push and rb_pop.  Faulty variant: an insertion at the other end.       *)
PushHead(rb, c) ==
  [rb EXCEPT !.buf[rb.head] = c, !.tail = Wrap(rb.tail + 1), !.count = @ + 1]
Push(rb, c) ==
  [buf |-> [rb.buf EXCEPT ![rb.tail] = c], head |-> rb.head,
   tail |-> Wrap(rb.tail + 1), count |-> rb.count + 1]
(* (What is popped stays in the buffer, where nobody looks.)                 *)
Pop(rb) ==
  [buf |-> [rb.buf EXCEPT ![rb.head] = NoChar], head |-> Wrap(rb.head + 1),
   tail |-> rb.tail, count |-> rb.count - 1]

(* What a ring holds, oldest first.                                          *)
Contents(rb) == [i \in 1..rb.count |-> rb.buf[Wrap(rb.head + i - 1)]]

(* rb_push of every character of s, and n times rb_pop.  After(k, from) is   *)
(* how far slot k is behind slot from.                                       *)
After(k, from) == Wrap(k + Size - from)
PushAll(rb, s) ==
  [buf |-> [k \in 0..(Size - 1) |->
              IF After(k, rb.tail) < Len(s) THEN s[After(k, rb.tail) + 1]
              ELSE rb.buf[k]],
   head |-> rb.head, tail |-> Wrap(rb.tail + Len(s)), count |-> rb.count + Len(s)]
PopN(rb, n) ==
  [buf |-> [k \in 0..(Size - 1) |->
              IF After(k, rb.head) < n THEN NoChar ELSE rb.buf[k]],
   head |-> Wrap(rb.head + n), tail |-> rb.tail, count |-> rb.count - n]

Init ==
  /\ irqMode = FALSE
  /\ tx = EmptyRing /\ rx = EmptyRing
  /\ txInt = FALSE /\ hold = <<>> /\ thre = FALSE /\ fifo = <<>>
  /\ pc = [w \in Writers |-> "idle"]
  /\ off = NoWriter /\ rounds = 0 /\ left = 0 /\ todo = 0
  /\ said = <<>> /\ carried = <<>> /\ got = <<>>

InHandler == rounds > 0
CanRun(w) == ~InHandler /\ off \in {NoWriter, w}

Says(s) == said' = s
Carries(s) == carried' = s
Reads(s) == got' = s
Quiet == Says(<<>>) /\ Carries(<<>>) /\ Reads(<<>>)

-----------------------------------------------------------------------------
(* The hardware.                                                             *)
(* A character leaves for the line.                                          *)
Transmit ==
  /\ hold # <<>>
  /\ Carries(hold) /\ hold' = <<>> /\ thre' = TRUE
  /\ Says(<<>>) /\ Reads(<<>>)
  /\ UNCHANGED <<irqMode, rounds, tx, txInt, rvars, wvars>>

(* A character comes in, and is lost when the FIFO is full.                  *)
Arrive ==
  /\ Len(fifo) < Fifo
  /\ \E c \in Input : fifo' = Append(fifo, c)
  /\ Quiet
  /\ UNCHANGED <<irqMode, rounds, rx, tvars, wvars>>

(* The bytes s are written to the data register, each when it has room: all  *)
(* but the last have left for the line by then.                              *)
Feed(s) ==
  LET all == hold \o s IN
  IF s = <<>> THEN Carries(<<>>) /\ UNCHANGED <<hold, thre>>
  ELSE /\ Carries(Front(all))
       /\ hold' = <<Last(all)>>
       /\ thre' = FALSE

(* The interrupt enable register: when reports of an empty transmitter are   *)
(* switched on, an empty transmitter is reported again.                      *)
EnableTx == /\ txInt' = TRUE
            /\ thre' = (thre \/ (~txInt /\ hold = <<>>))

(* IIR & 0x0F.                                                               *)
IirReceived == fifo # <<>>
IirEmptied == ~IirReceived /\ txInt /\ thre
NoInt == ~IirReceived /\ ~IirEmptied

-----------------------------------------------------------------------------
(* Printing.  The k-th character of a writer's print, and of the print of a  *)
(* page fault that it has while it writes a text in user memory.             *)
Char(w, k) == <<w, k>>
FaultChar(w, k) == Char(w, 0 - k)
FaultChars(w) == {FaultChar(w, k) : k \in 1..(Burst + 1)}

(* uart_putc_poll of every character of s.                                   *)
PutPoll(s) ==
  /\ Feed(s) /\ Says(s) /\ Reads(<<>>)
  /\ UNCHANGED <<tx, txInt>>

(* uart_tx_enqueue: it tries again, with interrupts on in between if they    *)
(* were on, while the ring is full.                                          *)
(* Faulty variant: transmit interrupts are left as they are.                 *)
EnqueueQuietly(c) ==
  /\ ~Full(tx)
  /\ tx' = Push(tx, c)
  /\ Says(<<c>>) /\ Carries(<<>>) /\ Reads(<<>>)
  /\ UNCHANGED <<txInt, thre, hold>>
Enqueue(c) ==
  /\ ~Full(tx)
  /\ tx' = Push(tx, c)
  /\ EnableTx
  /\ Says(<<c>>) /\ Carries(<<>>) /\ Reads(<<>>)
  /\ UNCHANGED hold

(* uart_putc, uart_putc_poll.                                                *)
Putc(w, newline) ==
  /\ CanRun(w) /\ pc[w] = "idle"
  /\ IF irqMode
     THEN /\ pc' = [pc EXCEPT ![w] = IF newline THEN "return" ELSE "put"]
          /\ Quiet
          /\ UNCHANGED tvars
     ELSE LET s == (IF newline THEN <<Char(w, 1)>> ELSE <<>>) \o <<Char(w, 2)>>
          IN PutPoll(s) /\ UNCHANGED pc
  /\ UNCHANGED <<irqMode, rounds, off, left, todo, rvars>>

PutReturn(w) ==
  /\ CanRun(w) /\ pc[w] = "return"
  /\ Enqueue(Char(w, 1))
  /\ pc' = [pc EXCEPT ![w] = "put"]
  /\ UNCHANGED <<irqMode, rounds, off, left, todo, rvars>>
PutLast(w) ==
  /\ CanRun(w) /\ pc[w] = "put"
  /\ Enqueue(Char(w, 2))
  /\ pc' = [pc EXCEPT ![w] = "idle"]
  /\ UNCHANGED <<irqMode, rounds, off, left, todo, rvars>>

(* uart_write_atomic: what the ring holds is sent first, then the text, all  *)
(* with interrupts off.  Faulty variant: the ring is left alone.             *)
WriteAtomicPast(s) == PutPoll(s)
WriteAtomic(s) ==
  /\ Feed((IF irqMode THEN Contents(tx) ELSE <<>>) \o s)
  /\ Says(s) /\ Reads(<<>>)
  /\ IF irqMode THEN tx' = PopN(tx, tx.count) /\ txInt' = FALSE
     ELSE UNCHANGED <<tx, txInt>>

(* uart_puts and the writes of a text in the kernel's memory.                *)
Puts(w) ==
  /\ CanRun(w) /\ pc[w] = "idle"
  /\ WriteAtomic(<<Char(w, 1), Char(w, 2)>>)
  /\ UNCHANGED <<irqMode, rounds, wvars, rvars>>

(* A trap handler, or a system call before it switches interrupts on, prints *)
(* a text by uart_puts and then a number by uart_dec or uart_hex; it may have *)
(* interrupted a writer, whose own print then waits.                         *)
PrintOff(w) ==
  /\ irqMode /\ ~InHandler /\ off = NoWriter /\ pc[w] = "idle"
  /\ pc' = [pc EXCEPT ![w] = "burst"]
  /\ off' = w /\ left' \in 1..Burst
  /\ WriteAtomic(<<Char(w, 1)>>)
  /\ UNCHANGED <<irqMode, rounds, todo, rvars>>
PrintDigit(w) ==
  /\ left > 0
  /\ LET k == Burst + 2 - left IN
     \/ pc[w] = "burst" /\ Enqueue(Char(w, k))
     \/ pc[w] = "fault" /\ Enqueue(FaultChar(w, k))
  /\ left' = left - 1
  /\ UNCHANGED <<irqMode, rounds, pc, off, todo, rvars>>
PrintDone(w) ==
  /\ pc[w] = "burst" /\ left = 0
  /\ pc' = [pc EXCEPT ![w] = "idle"] /\ off' = NoWriter
  /\ Quiet
  /\ UNCHANGED <<irqMode, rounds, left, todo, tvars, rvars>>

-----------------------------------------------------------------------------
(* The writes of processes (syscall_uart_write, devfs_write):                *)
(* uart_write_atomic of a text in user memory.  The ring is sent first, then *)
(* one character after the other is read and sent.                           *)
WriteUser(w) ==
  /\ irqMode /\ CanRun(w) /\ pc[w] = "idle"
  /\ pc' = [pc EXCEPT ![w] = "user"]
  /\ off' = w /\ todo' \in 0..Text
  /\ WriteAtomic(<<>>)
  /\ UNCHANGED <<irqMode, rounds, left, rvars>>
SendUser(w) ==
  /\ pc[w] \in {"user", "there"} /\ todo > 0
  /\ PutPoll(<<Char(w, todo)>>)
  /\ pc' = [pc EXCEPT ![w] = "user"] /\ todo' = todo - 1
  /\ UNCHANGED <<irqMode, rounds, off, left, rvars>>
WriteDone(w) ==
  /\ pc[w] = "user" /\ todo = 0
  /\ pc' = [pc EXCEPT ![w] = "idle"] /\ off' = NoWriter
  /\ Quiet
  /\ UNCHANGED <<irqMode, rounds, left, todo, tvars, rvars>>

(* A character is not there.  The page is brought in, which prints as the    *)
(* other handlers do (log_translation_fault), or the process is ended.       *)
Fault(w) ==
  /\ pc[w] = "user" /\ todo > 0
  /\ WriteAtomic(<<FaultChar(w, 1)>>)
  /\ \/ /\ pc' = [pc EXCEPT ![w] = "fault"]
        /\ left' \in 1..Burst
        /\ UNCHANGED <<off, todo>>
     \/ /\ pc' = [pc EXCEPT ![w] = "idle"]
        /\ off' = NoWriter /\ todo' = 0
        /\ UNCHANGED left
  /\ UNCHANGED <<irqMode, rounds, rvars>>
FaultDone(w) ==
  /\ pc[w] = "fault" /\ left = 0
  /\ pc' = [pc EXCEPT ![w] = "there"]
  /\ Quiet
  /\ UNCHANGED <<irqMode, rounds, off, left, todo, tvars, rvars>>

-----------------------------------------------------------------------------
(* uart_irq_init: the FIFOs of the hardware are cleared, whatever they still *)
(* hold.                                                                     *)
IrqInit ==
  /\ ~irqMode /\ off = NoWriter
  /\ irqMode' = TRUE
  /\ tx' = EmptyRing /\ rx' = EmptyRing /\ txInt' = FALSE
  /\ hold' = <<>> /\ thre' = TRUE /\ fifo' = <<>>
  /\ Quiet
  /\ UNCHANGED <<rounds, wvars>>

(* The trap handler claims the interrupt of the UART from the PLIC.          *)
Claim ==
  /\ irqMode /\ ~InHandler /\ off = NoWriter /\ ~NoInt
  /\ rounds' = Budget
  /\ Quiet
  /\ UNCHANGED <<irqMode, tvars, rvars, wvars>>

(* A round of the handler in which characters have come: it moves what the   *)
(* ring has room for, and when it has no more takes one from the FIFO that   *)
(* is lost.  Faulty variant: a ring is full one character early.             *)
RoomShort == Size - 1 - rx.count
Room == Size - rx.count
HandleReceived ==
  /\ InHandler /\ IirReceived
  /\ LET n == IF Len(fifo) <= Room THEN Len(fifo) ELSE Room IN
     /\ rx' = PushAll(rx, SubSeq(fifo, 1, n))
     /\ fifo' = SubSeq(fifo, n + 2, Len(fifo))  \* n + 1 is taken in vain
  /\ rounds' = rounds - 1
  /\ Quiet
  /\ UNCHANGED <<irqMode, tvars, wvars>>

(* uart_tx_kick_locked: characters follow each other to the holding register *)
(* for as long as the hardware keeps up.                                     *)
(* Faulty variant: interrupts go off before the ring is known to be empty.   *)
KickOff(n) == FALSE
Kick(n) == n < tx.count
HandleEmptied ==
  /\ InHandler /\ IirEmptied
  /\ \E n \in IF tx.count = 0 THEN {0} ELSE 1..tx.count :
       /\ IF n = 0 THEN thre' = FALSE /\ Carries(<<>>) /\ UNCHANGED hold
          ELSE Feed(SubSeq(Contents(tx), 1, n))
       /\ tx' = PopN(tx, n)
       /\ txInt' = Kick(n)
  /\ rounds' = rounds - 1
  /\ Says(<<>>) /\ Reads(<<>>)
  /\ UNCHANGED <<irqMode, rvars, wvars>>

(* No interrupt is left, or the loop has run often enough, which returns by  *)
(* itself: plic_complete.                                                    *)
Complete ==
  /\ InHandler /\ NoInt
  /\ rounds' = 0
  /\ Quiet
  /\ UNCHANGED <<irqMode, tvars, rvars, wvars>>

(* uart_getc_nonblock.                                                       *)
Getc ==
  /\ ~InHandler /\ off = NoWriter
  /\ IF irqMode
     THEN /\ rx.count > 0
          /\ Reads(<<rx.buf[rx.head]>>) /\ rx' = Pop(rx)
          /\ UNCHANGED fifo
     ELSE /\ fifo # <<>>
          /\ Reads(<<Head(fifo)>>) /\ fifo' = Tail(fifo)
          /\ UNCHANGED rx
  /\ Says(<<>>) /\ Carries(<<>>)
  /\ UNCHANGED <<irqMode, rounds, tvars, wvars>>

-----------------------------------------------------------------------------
Goes(w) ==
  \/ PutReturn(w) \/ PutLast(w) \/ PrintDigit(w) \/ PrintDone(w)
  \/ SendUser(w) \/ WriteDone(w) \/ FaultDone(w)
Handle == Claim \/ HandleReceived \/ HandleEmptied \/ Complete
Next ==
  \/ Transmit \/ Arrive \/ IrqInit \/ Getc \/ Handle
  \/ \E w \in Threads : \/ Puts(w) \/ WriteUser(w) \/ Fault(w)
                       \/ \E newline \in BOOLEAN : Putc(w, newline)
  \/ \E w \in Traps : PrintOff(w)
  \/ \E w \in Writers : Goes(w)

Spec == Init /\ [][Next]_vars

(* The line carries what it is given; a requested interrupt is taken as soon *)
(* as interrupts are on, and characters do not come faster than the handler  *)
(* goes round; the scheduler gives every writer its turns, some of which     *)
(* find room when there is some again and again.                             *)
FairSpec ==
  /\ Spec
  /\ WF_vars(Transmit) /\ SF_vars(Handle) /\ SF_vars(HandleEmptied)
  /\ \A w \in Writers : SF_vars(Goes(w))

-----------------------------------------------------------------------------
(* What is on its way out, and what is on its way in.                        *)
Due == hold \o Contents(tx)
Unread == Contents(rx) \o fifo

(* The line carries what was printed, in the order in which it was accepted: *)
(* a text written past the ring comes after all that was queued before it,   *)
(* and nothing is lost or sent twice (uart_flush_tx_poll_locked,             *)
(* uart_tx_kick_locked), except when the driver starts, which clears the     *)
(* hardware.  A text in user memory overtakes one thing only: what the page  *)
(* faults of its own writing have printed through the ring.                  *)
OutputInOrder ==
  [][irqMode' = irqMode =>
       \/ carried' \o Due' = Due \o said'
       \/ \E i \in 0..Len(Due) :
            /\ carried' \o Due' = SubSeq(Due, 1, i) \o said' \o SubSeq(Due, i + 1, Len(Due))
            /\ \A j \in (i + 1)..Len(Due) : Due[j] \in FaultChars(off)
    ]_vars

(* Characters are read in the order in which they come and none twice, and   *)
(* one is lost only when more are waiting than a ring holds, and then not    *)
(* the older ones (uart_irq_handler, uart_getc_nonblock).                    *)
InputInOrder ==
  [][irqMode' = irqMode =>
       \/ got' \o Unread' = Unread
       \/ got' = <<>> /\ \E c \in Input : Unread' = Append(Unread, c)
       \/ got' = <<>> /\ \E i \in (Size + 1)..Len(Unread) : Unread' = RemoveAt(Unread, i)
    ]_vars

(* What is written leaves in that order, and what arrives is read in that    *)
(* order, through both rings and the device's own buffers.                   *)
CharsInOrder == OutputInOrder /\ InputInOrder

(* Nobody waits in uart_tx_enqueue for room in the ring with interrupts off, *)
(* when nothing would ever make any.                                         *)
NoSpinOff ==
  \A w \in Writers : pc[w] \in {"burst", "fault"} /\ left > 0 => ~Full(tx)

(* As long as something is due the line goes on carrying, and every writer   *)
(* gets on unless traps print numbers for ever, each before the one slot the *)
(* line frees is seen: transmit interrupts are on whenever something is      *)
(* queued that nobody else sends.                                            *)
EverythingSent ==
  /\ []<>(carried # <<>> \/ Due = <<>>)
  /\ <>[](left = 0) => \A w \in Threads : []<>(pc[w] = "idle")
=============================================================================
