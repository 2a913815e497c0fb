-------------------------------- MODULE Shell --------------------------------
(***************************************************************************)
(* The kernel's shell (kernel/main.c): the line that is edited, what the   *)
(* terminal shows of it, who gets what is typed while a program is in the  *)
(* foreground, and the memory of the timeouts.  A character, a line that   *)
(* asks for a timeout and one that runs a program are constants; what      *)
(* commands and others print is left out.                                  *)
(***************************************************************************)
EXTENDS Integers, FiniteSets, SequencesExt

CONSTANTS
  Letters,      \* the characters that are put on the line
  Newline, Backspace, Blank,
  MaxLen,       \* the size of the line's buffer
  Exec, Timeout, \* the lines that are those commands, sequences of letters
  MaxTimers,    \* MAX_TIMERS
  Blocks,       \* the memory that alloc() has for timeouts
  NoBlock,
  Typed         \* bound: characters typed

(* What the line is made of is not what edits it.                            *)
ASSUME ShellAssumption ==
  /\ MaxTimers \in Nat /\ NoBlock \notin Blocks
  /\ Backspace \notin Letters \cup {Blank, Newline} /\ Newline \notin Letters

VARIABLES
  ring,        \* what is typed and not read
  text,        \* line_buf[0 .. line_len - 1]
  prompt,      \* need_prompt
  row, column, \* what the terminal shows behind the prompt, and the cursor in it
  foreground,  \* scheduler_foreground_active()
  ran,         \* the line that was executed last
  step,        \* of cmd_set_timeout: "message", "request", "timer"; "no" outside
  message, request, \* what it has allocated
  blocks,      \* the blocks that alloc() has given out for timeouts
  pending,     \* the timers: <<message, request>> of each
  printing,    \* those that gave up their slot and whose callback has not returned
  typed        \* history: how much was typed
lineEdit == <<ring, text, prompt, row, column, foreground, ran, typed>>
timeoutVars == <<step, message, request, blocks, pending, printing>>
shellVars == <<lineEdit, timeoutVars>>

ShellInit ==
  /\ ring = <<>> /\ text = <<>> /\ prompt = TRUE /\ row = <<>> /\ column = 0
  /\ foreground = FALSE /\ ran = <<>> /\ typed = 0
  /\ step = "no" /\ message = NoBlock /\ request = NoBlock
  /\ blocks = {} /\ pending = {} /\ printing = {}

Type(c) ==
  /\ typed < Typed /\ typed' = typed + 1 /\ ring' = Append(ring, c)
  /\ UNCHANGED <<text, prompt, row, column, foreground, ran, timeoutVars>>

-----------------------------------------------------------------------------
(* The terminal: "\b" moves the cursor back, also over the prompt; any other *)
(* character replaces what is under the cursor.                              *)
Screen == [row |-> row, column |-> column]
Show(screen, c) ==
  IF c = Backspace THEN [screen EXCEPT !.column = @ - 1]
  ELSE [row |-> [i \in 1 .. Len(screen.row) + 1 |->
                   IF i = screen.column + 1 THEN c
                   ELSE IF i <= Len(screen.row) THEN screen.row[i] ELSE Blank],
        column |-> screen.column + 1]
Shows(screen) == row' = screen.row /\ column' = screen.column

(* shell_poll_once writes the prompt and reads what there is, up to a        *)
(* newline.                                                                  *)
ShowPrompt ==
  /\ ~foreground /\ prompt /\ step = "no"
  /\ prompt' = FALSE /\ row' = <<>> /\ column' = 0
  /\ UNCHANGED <<ring, text, foreground, ran, timeoutVars, typed>>

ReadsKey(c) ==
  /\ ~foreground /\ ~prompt /\ step = "no"
  /\ ring # <<>> /\ Head(ring) = c /\ ring' = Tail(ring)
(* Faulty variant: what does not fit is shown and not kept.                  *)
EchoedAlways(c) == TRUE
Echoed(c) == Len(text) < MaxLen - 1
Letter(c) ==
  /\ ReadsKey(c)
  /\ text' = IF Len(text) < MaxLen - 1 THEN Append(text, c) ELSE text
  /\ IF Echoed(c) THEN Shows(Show(Screen, c)) ELSE UNCHANGED <<row, column>>
  /\ UNCHANGED <<prompt, foreground, ran, timeoutVars, typed>>
Erase ==
  /\ ReadsKey(Backspace)
  /\ IF text = <<>> THEN UNCHANGED <<text, row, column>>
     ELSE text' = Front(text) /\ Shows(Show(Show(Show(Screen, Backspace), Blank), Backspace))
  /\ UNCHANGED <<prompt, foreground, ran, timeoutVars, typed>>

(* A newline: shell_execute_command.  A program may not be found, and the    *)
(* arguments of a timeout may be wrong.                                      *)
Execute ==
  /\ ReadsKey(Newline)
  /\ ran' = text /\ text' = <<>> /\ prompt' = TRUE
  /\ step' \in {"no"} \cup IF text = Timeout THEN {"message"} ELSE {}
  /\ foreground' \in {FALSE, text = Exec}
  /\ UNCHANGED <<row, column, typed, message, request, blocks, pending, printing>>

(* cmd_set_timeout, with interrupts on: other timeouts end between its steps.*)
(* alloc() gives a block nobody has, or nothing, each time.                  *)
Alloc(b) ==
  LET free == Blocks \ blocks
  IN  \/ free # {} /\ b = (CHOOSE f \in free : TRUE) /\ blocks' = blocks \cup {b}
      \/ b = NoBlock /\ UNCHANGED blocks
AllocMessage ==
  /\ step = "message" /\ step' = "request"
  /\ \E b \in Blocks \cup {NoBlock} : Alloc(b) /\ message' = b
  /\ UNCHANGED <<lineEdit, request, pending, printing>>
AllocRequest ==
  /\ step = "request" /\ step' = "timer"
  /\ \E b \in Blocks \cup {NoBlock} : Alloc(b) /\ request' = b
  /\ UNCHANGED <<lineEdit, message, pending, printing>>

(* Without either of them, or without a timer, what was had is given back.   *)
(* Faulty variant: not when only one of them was had.                        *)
FreesBoth == IF NoBlock \in {message, request} THEN {} ELSE {message, request}
Frees == {message, request} \ {NoBlock}
AddTimer ==
  /\ step = "timer" /\ step' = "no" /\ message' = NoBlock /\ request' = NoBlock
  /\ IF NoBlock \notin {message, request} /\ Cardinality(pending) < MaxTimers
     THEN pending' = pending \cup {<<message, request>>} /\ UNCHANGED blocks
     ELSE blocks' = blocks \ Frees /\ UNCHANGED pending
  /\ UNCHANGED <<lineEdit, printing>>

(* timer_task_trampoline gives the slot up, and timeout_print_cb frees.      *)
TimeoutFires(t) ==
  /\ t \in pending /\ pending' = pending \ {t} /\ printing' = printing \cup {t}
  /\ UNCHANGED <<lineEdit, step, message, request, blocks>>
TimeoutPrint(t) ==
  /\ t \in printing /\ printing' = printing \ {t} /\ blocks' = blocks \ {t[1], t[2]}
  /\ UNCHANGED <<lineEdit, step, message, request, pending>>

(* The shell's turn while a program is in the foreground.                    *)
IdleTurn ==
  /\ foreground /\ text' = <<>> /\ prompt' = TRUE
  /\ UNCHANGED <<ring, row, column, foreground, ran, timeoutVars, typed>>

-----------------------------------------------------------------------------
(* The program in the foreground reads, and ends.                            *)
ProgramReads ==
  /\ foreground /\ ring # <<>> /\ ring' = Tail(ring)
  /\ UNCHANGED <<text, prompt, row, column, foreground, ran, timeoutVars, typed>>
ProgramEnds ==
  /\ foreground /\ foreground' = FALSE
  /\ UNCHANGED <<ring, text, prompt, row, column, ran, timeoutVars, typed>>

ShellNext ==
  \/ \E c \in Letters \cup {Newline, Backspace} : Type(c)
  \/ ShowPrompt \/ Erase \/ Execute \/ IdleTurn
  \/ \E c \in Letters : Letter(c)
  \/ ProgramReads \/ ProgramEnds
  \/ AllocMessage \/ AllocRequest \/ AddTimer
  \/ \E t \in pending : TimeoutFires(t)
  \/ \E t \in printing : TimeoutPrint(t)
ShellSpec == ShellInit /\ [][ShellNext]_shellVars

-----------------------------------------------------------------------------
(* What is run is what the terminal shows behind the prompt, whatever was    *)
(* typed: more than fits, more backspaces than there are characters, and     *)
(* lines typed ahead of a program that reads some of them.                   *)
LineAsShown ==
  /\ ~prompt =>
       /\ column = Len(text) /\ Len(text) <= Len(row)
       /\ \A i \in DOMAIN row : row[i] = IF i <= Len(text) THEN text[i] ELSE Blank
  /\ prompt => text = <<>>

(* The memory of a timeout is given back, whichever step of asking for it    *)
(* fails and whatever ends meanwhile: it belongs to a timeout that is        *)
(* pending or being printed, or the command that asks for one has it in its  *)
(* hands; and never to two of them (cmd_set_timeout, timeout_print_cb).      *)
Timeouts == pending \cup printing
InHands == {message, request} \ {NoBlock}
TimeoutMemory ==
  /\ blocks = InHands \cup UNION {{t[1], t[2]} : t \in Timeouts}
  /\ \A t \in Timeouts : t[1] # t[2] /\ InHands \cap {t[1], t[2]} = {}
  /\ \A t, u \in Timeouts : t # u => {t[1], t[2]} \cap {u[1], u[2]} = {}
  /\ pending \cap printing = {}
  /\ message = request => InHands = {}

ShellKeepsBooks == LineAsShown /\ TimeoutMemory
=============================================================================
