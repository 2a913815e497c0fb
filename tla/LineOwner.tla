------------------------------ MODULE LineOwner ------------------------------
(***************************************************************************)
(* The ownership of the console line (syscall.c, g_uart_line_owner): a     *)
(* process that has written the beginning of a line keeps the others from  *)
(* writing until it ends the line, reads, or is gone.  A process that      *)
(* waits for the line polls: it lets the others run, with interrupts on,   *)
(* and looks again.  What a process writes to its standard output, the     *)
(* file /dev/uart (devfs.c), asks for no line.                             *)
(***************************************************************************)
EXTENDS Naturals

CONSTANTS
  Procs,
  NoProc,
  Parent     \* who forks each process; NoProc for those the shell starts

ASSUME LineOwnerAssumption ==
  /\ NoProc \notin Procs
  /\ Parent \in [Procs -> Procs \cup {NoProc}]

VARIABLES
  state,  \* of each process: "unused", "running", "asking" for the line,
          \* "printing" on it, "waiting" for a child, "dead"
  child,  \* the child a waiting process waits for
  owner,  \* g_uart_line_owner
  line,   \* history: the process that has begun a line by uart_write which it
          \* has not ended by uart_write, nor has it read since
  tail    \* history: what the console shows on its last line, which has no
          \* end: the processes whose text of uart_write it is, but for those
          \* that have read since, and but for what stands behind an end of
          \* line in one write; NoProc for text written to /dev/uart
lineVars == <<state, child, owner, line, tail>>

Alive(p) == p # NoProc /\ state[p] \notin {"unused", "dead"}

LineInit ==
  /\ state = [p \in Procs |-> IF Parent[p] = NoProc THEN "running" ELSE "unused"]
  /\ child = [p \in Procs |-> NoProc]
  /\ owner = NoProc /\ line = NoProc /\ tail = {}

-----------------------------------------------------------------------------
(* uart_release_owner.                                                       *)
(* Faulty variant: whoever owns the line loses it.                           *)
ReleaseAny(p) == NoProc
Release(p) == IF owner = p THEN NoProc ELSE owner

(* When uart_wait_for_line_owner lets p take the line.                       *)
(* Faulty variant: never from a process that is gone.                        *)
TakesNoDead(p) == owner \in {NoProc, p}
Takes(p) == owner \in {NoProc, p} \/ ~Alive(owner)

(* What the owner is after p has written.                                    *)
(* Faulty variant: a whole line does not give it up.                         *)
OwnerAfterKeep(p, whole) == owner
OwnerAfter(p, whole) == IF whole THEN Release(p) ELSE owner

-----------------------------------------------------------------------------
Fork(p, q) ==
  /\ state[p] = "running" /\ state[q] = "unused" /\ Parent[q] = p
  /\ state' = [state EXCEPT ![q] = "running"]
  /\ UNCHANGED <<child, owner, line, tail>>

(* syscall_uart_write: take the line, then write all of it with interrupts   *)
(* off.  In between, and after, interrupts may be on.                        *)
Ask(p) ==
  /\ state[p] = "running"
  /\ state' = [state EXCEPT ![p] = "asking"]
  /\ UNCHANGED <<child, owner, line, tail>>
Take(p) ==
  /\ state[p] = "asking" /\ Takes(p)
  /\ state' = [state EXCEPT ![p] = "printing"]
  /\ owner' = p
  /\ UNCHANGED <<child, line, tail>>

(* uart_write_completes_line: text with an end of line anywhere in it, or    *)
(* the prompt of the user's shell, counts as a whole line.                   *)
WriteText(p, whole) ==
  /\ state[p] = "printing"
  /\ state' = [state EXCEPT ![p] = "running"]
  /\ owner' = OwnerAfter(p, whole)
  /\ line' = IF whole THEN NoProc ELSE p
  /\ tail' = IF whole THEN {} ELSE tail \cup {p}
  /\ UNCHANGED child

(* devfs_write on /dev/uart: the text goes out with interrupts off, without  *)
(* asking for the line and without giving it up, a whole line or not.  (What *)
(* devfs_read on it does is seen by none of these variables.)                *)
WriteDevice(p, whole) ==
  /\ state[p] = "running"
  /\ tail' = IF whole THEN {} ELSE tail \cup {NoProc}
  /\ UNCHANGED <<state, child, owner, line>>

(* syscall_uart_read gives the line up before it waits for characters.       *)
ReadConsole(p) ==
  /\ state[p] = "running"
  /\ owner' = Release(p)
  /\ line' = IF line = p THEN NoProc ELSE line
  /\ tail' = tail \ {p}
  /\ UNCHANGED <<state, child>>

(* syscall_waitpid.                                                          *)
WaitFor(p, q) ==
  /\ state[p] = "running" /\ Parent[q] = p /\ Alive(q)
  /\ state' = [state EXCEPT ![p] = "waiting"]
  /\ child' = [child EXCEPT ![p] = q]
  /\ UNCHANGED <<owner, line, tail>>
(* It returns when the child has ended, or for a signal.                     *)
Awake(p) ==
  /\ state[p] = "waiting"
  /\ state' = [state EXCEPT ![p] = "running"]
  /\ child' = [child EXCEPT ![p] = NoProc]
  /\ UNCHANGED <<owner, line, tail>>

(* syscall_exit, syscall_stop and terminate_thread_for_signal give the line  *)
(* up.                                                                       *)
Exit(p) ==
  /\ state[p] = "running"
  /\ state' = [state EXCEPT ![p] = "dead"]
  /\ owner' = Release(p)
  /\ UNCHANGED <<child, line, tail>>
Stop(p, q) ==
  /\ state[p] = "running" /\ Alive(q)
  /\ state' = [state EXCEPT ![q] = "dead"]
  /\ owner' = Release(q)
  /\ UNCHANGED <<child, line, tail>>
(* A process that a trap ends does not, be it in its own code or because the *)
(* text it writes, by uart_write or to /dev/uart, leaves its memory, when    *)
(* some of it may have been written.                                         *)
Trap(p) ==
  /\ state[p] \in {"running", "printing"}
  /\ state' = [state EXCEPT ![p] = "dead"]
  /\ LET by == IF state[p] = "printing" THEN p ELSE NoProc
     IN  /\ line' \in {line} \cup ({by} \ {NoProc})
         /\ tail' \in {tail, {}, tail \cup {by}}
  /\ UNCHANGED <<child, owner>>

-----------------------------------------------------------------------------
LineNext ==
  \E p \in Procs :
    \/ Ask(p) \/ Take(p) \/ ReadConsole(p) \/ Awake(p) \/ Exit(p) \/ Trap(p)
    \/ \E whole \in BOOLEAN : WriteText(p, whole) \/ WriteDevice(p, whole)
    \/ \E q \in Procs : Fork(p, q) \/ WaitFor(p, q) \/ Stop(p, q)

LineSpec == LineInit /\ [][LineNext]_lineVars

(* The scheduler gives every process that polls for the line its turns.      *)
LineFairSpec == LineSpec /\ \A p \in Procs : WF_lineVars(Take(p))

-----------------------------------------------------------------------------
(* A process that has been given the line still has it when it writes,       *)
(* whatever the others did in between.                                       *)
TypeOK ==
  /\ state \in [Procs -> {"unused", "running", "asking", "printing", "waiting",
                          "dead"}]
  /\ child \in [Procs -> Procs \cup {NoProc}]
  /\ owner \in Procs \cup {NoProc} /\ line \in Procs \cup {NoProc}
  /\ \A p \in Procs : state[p] = "printing" => owner = p

(* The beginning of a line a process has written by uart_write is continued  *)
(* by no other process's uart_write while it lives, until it ends the line   *)
(* or reads: the last line of the console holds such text of one of them     *)
(* only (syscall_uart_write, syscall_uart_read).  What is written to         *)
(* /dev/uart comes between all the same.                                     *)
LineWhole == \A p, q \in tail : Alive(p) /\ Alive(q) => p = q

(* A process that wants to write is never left waiting for a line that       *)
(* nobody else who lives has: not when the owner was stopped, killed, or     *)
(* ended by a trap without giving it up (uart_wait_for_line_owner).          *)
FreeLineTaken ==
  \A p \in Procs :
    []<>(state[p] = "asking" => owner # p /\ Alive(owner))

(* Who waits for the line waits for a process that is about to write, or has *)
(* begun a line by uart_write and neither ended it so nor read since: nobody *)
(* keeps the line for nothing and, waiting for its child with it, "starves   *)
(* child process output" (the comment in syscall_uart_read).  A parent that  *)
(* waits in the middle of such a line does (syscall_waitpid), also one that  *)
(* ends the line through /dev/uart.                                          *)
HeldForItsLine ==
  \A p \in Procs : owner = p /\ Alive(p) => state[p] = "printing" \/ line = p
=============================================================================
