----------------------------- MODULE Bootloader -----------------------------
(***************************************************************************)
(* The UART bootloader (bootloader/main.c) and the script that feeds it    *)
(* (send_kernel.py): a command line, a relocation, and a stream of header  *)
(* and payload over a line that has no acknowledgements and may alter or   *)
(* lose bytes.  What is left of a refused stream is read as commands.      *)
(* cmd_load returns through the copied stack to the copy that called it,   *)
(* the linked one, at the address the kernel is loaded to.                 *)
(* A word of the header is one symbol on the line, as a byte is.           *)
(***************************************************************************)
EXTENDS Integers, SequencesExt

CONSTANTS
  Base,        \* bytes are 0 .. Base - 1
  Newline,     \* of them, "\n"
  Magic,       \* of them, LOAD_MAGIC
  MaxSize,     \* LOAD_MAX_SIZE
  LineLength,  \* what readline takes at most
  Images,      \* what may be sent: sequences of bytes
  Commands, Streams, Faults   \* bounds: how often each happens

Bytes == 0 .. Base - 1
BootloaderAssumption ==
  /\ Newline \in Bytes /\ Magic \in Bytes /\ LineLength \in Nat \ {0}
  /\ Images \subseteq Seq(Bytes) /\ MaxSize \in Nat
  /\ {Commands, Streams, Faults} \subseteq Nat

VARIABLES
  line,      \* the bytes under way; Load stands for "load" and a newline
  where,     \* the copy of the bootloader that runs: linked or relocated
  roomTaken, \* do the device tree or the initrd lie where it would move to?
  stack,     \* in the image that was linked, its copy, or gone: behind the
             \* copy, with nothing of the callers' frames in it
  at,        \* prompt, header, payload, kernel, or lost: it runs into code or
             \* a frame that is not there any more, and nothing is promised
  typed,     \* characters on the command line that is being read
  words,     \* the header as far as it has been read
  loaded,    \* the bytes stored from KERNEL_LOAD_ADDR on
  sent,      \* history: the streams sent
  commands, altered, lost   \* history: how often
vars == <<line, where, stack, roomTaken, at, typed, words, loaded, sent, commands, altered, lost>>

Load == -1
Init ==
  /\ line = <<>> /\ where = "linked" /\ stack = "linked" /\ roomTaken \in BOOLEAN
  /\ at = "prompt" /\ typed = 0 /\ words = <<>> /\ loaded = <<>>
  /\ sent = <<>> /\ commands = 0 /\ altered = 0 /\ lost = 0

(* MaxSize bytes do not add up to 2^32.                                      *)
Sum(bytes) == FoldLeft(LAMBDA n, b : n + b, 0, bytes)
AnySymbol == 0 .. Base * MaxSize

-----------------------------------------------------------------------------
(* The user types the command at a prompt, and starts the script when the    *)
(* bootloader waits for a stream, again if nothing comes of it.              *)
TypeLoad ==
  /\ at = "prompt" /\ line = <<>> /\ commands < Commands
  /\ line' = <<Load>> /\ commands' = commands + 1
  /\ UNCHANGED <<where, stack, roomTaken, at, typed, words, loaded, sent, altered, lost>>

(* send_kernel.py.  Faulty variant: the checksum leaves out a byte.          *)
StreamShort(k) == <<Magic, Len(k), Sum(Tail(k))>> \o k
Stream(k) == <<Magic, Len(k), Sum(k)>> \o k
Send(k) ==
  /\ at \in {"header", "payload"} /\ line = <<>> /\ Len(sent) < Streams
  /\ line' = Stream(k) /\ sent' = Append(sent, k)
  /\ UNCHANGED <<where, stack, roomTaken, at, typed, words, loaded, commands, altered, lost>>

Alter(i, b) ==
  /\ line[i] \notin {Load, b} /\ altered + lost < Faults
  /\ line' = [line EXCEPT ![i] = b] /\ altered' = altered + 1
  /\ UNCHANGED <<where, stack, roomTaken, at, typed, words, loaded, sent, commands, lost>>
Lose(i) ==
  /\ line[i] # Load /\ altered + lost < Faults
  /\ line' = RemoveAt(line, i) /\ lost' = lost + 1
  /\ UNCHANGED <<where, stack, roomTaken, at, typed, words, loaded, sent, commands, altered>>

-----------------------------------------------------------------------------
(* readline and the commands: a line ends with a newline or when it is full. *)
(* ensure_self_relocated_for_load moves the bootloader, unless that would    *)
(* overwrite boot data.  Back in the linked copy after a refused stream it   *)
(* moves again, over the stack it is using, and its stack pointer lies in    *)
(* no image then.                                                            *)
Moves ==
  /\ where' = "relocated" /\ words' = <<>> /\ loaded' = <<>>
  /\ stack' = IF stack = "linked" THEN "copied" ELSE "gone"
  /\ at' \in IF stack = "linked" THEN {"header"} ELSE {"header", "lost"}
ReadCommand ==
  /\ at = "prompt" /\ line # <<>> /\ line' = Tail(line)
  /\ IF Head(line) = Load
     THEN /\ typed' = 0
          /\ IF typed = 0 /\ ~roomTaken THEN Moves
             ELSE UNCHANGED <<at, where, stack, words, loaded>>
     ELSE /\ typed' = IF Head(line) = Newline \/ typed + 1 >= LineLength THEN 0
                      ELSE typed + 1
          /\ UNCHANGED <<at, where, stack, words, loaded>>
  /\ UNCHANGED <<roomTaken, sent, commands, altered, lost>>

(* cmd_load: three words, of which magic and size must be right; else it     *)
(* returns, to the copy whose address is in the frame ...                    *)
Accepted(h) == h[1] = Magic /\ h[2] \in 1 .. MaxSize
Returns ==
  IF stack = "copied" THEN at' = "prompt" /\ where' = "linked"
  ELSE at' = "lost" /\ where' = where
ReadHeader ==
  /\ at = "header" /\ line # <<>> /\ line' = Tail(line)
  /\ words' = Append(words, Head(line))
  /\ IF Len(words) = 2 /\ ~Accepted(words') THEN Returns
     ELSE at' = (IF Len(words) = 2 THEN "payload" ELSE "header") /\ where' = where
  /\ UNCHANGED <<stack, roomTaken, typed, loaded, sent, commands, altered, lost>>

(* ... and as many bytes as it says, which must add up to the checksum: else *)
(* it returns to code that they have overwritten.                            *)
(* Faulty variant: the sum is not compared.                                  *)
VerifiedAny(bytes) == TRUE
Verified(bytes) == Sum(bytes) = words[3]
ReadPayload ==
  /\ at = "payload" /\ line # <<>> /\ line' = Tail(line)
  /\ loaded' = Append(loaded, Head(line))
  /\ at' = IF Len(loaded') < words[2] THEN "payload"
           ELSE IF Verified(loaded') THEN "kernel" ELSE "lost"
  /\ UNCHANGED <<where, stack, roomTaken, typed, words, sent, commands, altered, lost>>

Next ==
  \/ TypeLoad \/ ReadCommand \/ ReadHeader \/ ReadPayload
  \/ \E k \in Images : Send(k)
  \/ \E i \in DOMAIN line : Lose(i) \/ \E b \in AnySymbol : Alter(i, b)
Spec == Init /\ [][Next]_vars
-----------------------------------------------------------------------------
(* lab2.rst: "a simple protocol for data transmission to ensure              *)
(* reliability".  The bootloader jumps only to an image that was sent, when  *)
(* nothing was lost and at most one symbol altered, whichever that was: in   *)
(* the magic, the size, the sum or the payload, of the first stream or of    *)
(* one that follows a refused header.  What the sum cannot see is a size     *)
(* that leaves out zeros at the end.  And as long as the bootloader goes on  *)
(* in the linked copy, to prompt or to move, nothing was stored over it.     *)
Same(bytes, k) ==
  /\ Len(bytes) <= Len(k)
  /\ \A n \in DOMAIN k : k[n] = IF n \in DOMAIN bytes THEN bytes[n] ELSE 0
JumpsToWhatWasSent ==
  /\ at = "kernel" /\ lost = 0 /\ altered <= 1 =>
       \E i \in DOMAIN sent : Same(loaded, sent[i])
  /\ loaded # <<>> => where = "relocated"
=============================================================================
