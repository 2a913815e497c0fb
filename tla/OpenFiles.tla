------------------------------ MODULE OpenFiles ------------------------------
(***************************************************************************)
(* The file descriptor tables of the processes and the open files they     *)
(* share after a fork (syscall.c, vfs.c).  System calls run with           *)
(* interrupts off and are one step each, except a read that waits for the  *)
(* UART.  A process killed by a trap, or by a signal after a task has run, *)
(* cleans up with interrupts on: other processes run between its steps.    *)
(***************************************************************************)
EXTENDS Integers, FiniteSets

CONSTANTS
  Procs,
  Files,      \* the addresses alloc() can return for a struct file
  NoFile,
  MaxFd,      \* VFS_MAX_FD
  Stdio,      \* how many descriptors vfs_thread_init_stdio opens
  Forking, Stopping, Trapping, \* the processes that fork, stop others, trap
  Races       \* may others meet a dying process in the middle of a vfs_close?

ASSUME OpenFilesAssumption ==
  /\ IsFiniteSet(Procs) /\ IsFiniteSet(Files) /\ NoFile \notin Files
  /\ MaxFd \in Nat /\ Stdio \in 0 .. MaxFd
  /\ Forking \subseteq Procs /\ Stopping \subseteq Procs
  /\ Trapping \subseteq Procs /\ Races \in BOOLEAN

VARIABLES
  status,   \* "unused", "alive", "reading", "dying" (interrupts on), "dead"
  table,    \* fd_table of every process
  live,     \* the open files that are allocated
  ref,      \* ref_count; 1 in memory that has been freed
  step,     \* how far a dying process is with its first open descriptor
  held,     \* the file pointer a reading or dying process has in hand
  count     \* the ref_count a dying process has read
vars == <<status, table, live, ref, step, held, count>>

Fds == 0 .. MaxFd - 1
Closed == [fd \in Fds |-> NoFile]

(* The descriptors of p that are open, and those of them that refer to f.    *)
Open(p) == {fd \in Fds : table[p][fd] # NoFile}
Uses(p, f) == Cardinality({fd \in Fds : table[p][fd] = f})
First(S) == CHOOSE fd \in S : \A other \in S : fd <= other

Init ==
  /\ status = [p \in Procs |-> "unused"]
  /\ table = [p \in Procs |-> Closed]
  /\ live = {} /\ ref = [f \in Files |-> 1]
  /\ step = [p \in Procs |-> "scan"] /\ held = [p \in Procs |-> NoFile]
  /\ count = [p \in Procs |-> 0]

(* n calls of vfs_close for f: all but the last reference are subtracted,    *)
(* the last one frees the file.                                              *)
(* Faulty variant: it is freed at any reference.                             *)
FreesAny(f, n) == n > 0
Frees(f, n) == n > 0 /\ ref[f] <= n
Left(f, n) == IF ref[f] > n THEN ref[f] - n ELSE 1

(* No other process is between reading and storing the count of a file of S. *)
Undisturbed(p, S) ==
  Races \/ \A q \in Procs \ {p} : step[q] = "store" => held[q] \notin S
FilesOf(p) == {table[p][fd] : fd \in Open(p)}

-----------------------------------------------------------------------------
(* The shell starts a process with /dev/uart open on its first descriptors.  *)
Create(p) ==
  /\ status[p] = "unused"
  /\ \E opened \in [0 .. Stdio - 1 -> Files \ live] :
       /\ \A i, j \in 0 .. Stdio - 1 : i # j => opened[i] # opened[j]
       /\ table' = [table EXCEPT ![p] = [fd \in Fds |->
                      IF fd < Stdio THEN opened[fd] ELSE NoFile]]
       /\ live' = live \cup {opened[i] : i \in 0 .. Stdio - 1}
       /\ ref' = [f \in Files |-> IF f \in live THEN ref[f] ELSE 1]
  /\ status' = [status EXCEPT ![p] = "alive"]
  /\ UNCHANGED <<step, held, count>>

(* When there is no memory for all of them, those opened are closed again    *)
(* and no process is made.                                                   *)
NoMemory(p) ==
  /\ status[p] = "unused" /\ Cardinality(Files \ live) < Stdio
  /\ UNCHANGED vars

(* syscall_fork: the child's table is a copy, vfs_thread_clone counts it.    *)
(* Faulty variant: only the standard descriptors are counted.                *)
CloneStdio(p, f) == Cardinality({fd \in 0 .. Stdio - 1 : table[p][fd] = f})
Clone(p, f) == Uses(p, f)
Fork(p, q) ==
  /\ p \in Forking /\ status[p] = "alive" /\ status[q] = "unused"
  /\ Undisturbed(p, FilesOf(p))
  /\ table' = [table EXCEPT ![q] = table[p]]
  /\ ref' = [f \in Files |-> ref[f] + Clone(p, f)]
  /\ status' = [status EXCEPT ![q] = "alive"]
  /\ UNCHANGED <<live, step, held, count>>

(* syscall_open: the file takes the lowest free descriptor; when there is    *)
(* none it is closed again.                                                  *)
OpenFile(p, f) ==
  /\ status[p] = "alive" /\ f \notin live
  /\ ref' = [ref EXCEPT ![f] = 1]
  /\ \/ /\ Open(p) # Fds
        /\ table' = [table EXCEPT ![p][First(Fds \ Open(p))] = f]
        /\ live' = live \cup {f}
     \/ /\ Open(p) = Fds
        /\ UNCHANGED <<table, live>>
  /\ UNCHANGED <<status, step, held, count>>

(* syscall_close_fd.                                                         *)
CloseFile(p, fd) ==
  LET f == table[p][fd]
  IN  /\ status[p] = "alive" /\ f # NoFile /\ Undisturbed(p, {f})
      /\ table' = [table EXCEPT ![p][fd] = NoFile]
      /\ live' = {g \in live : g # f \/ ~Frees(f, 1)}
      /\ ref' = [ref EXCEPT ![f] = Left(f, 1)]
      /\ UNCHANGED <<status, step, held, count>>

(* read on /dev/uart: devfs_uart_read lets the others run until a character  *)
(* is there, with the pointer from fd_get in hand.                           *)
ReadWaits(p, fd) ==
  /\ status[p] = "alive" /\ table[p][fd] # NoFile
  /\ status' = [status EXCEPT ![p] = "reading"]
  /\ held' = [held EXCEPT ![p] = table[p][fd]]
  /\ UNCHANGED <<table, live, ref, step, count>>
ReadReturns(p) ==
  /\ status[p] = "reading"
  /\ status' = [status EXCEPT ![p] = "alive"]
  /\ held' = [held EXCEPT ![p] = NoFile]
  /\ UNCHANGED <<table, live, ref, step, count>>

-----------------------------------------------------------------------------
(* vfs_thread_cleanup with interrupts off, and the end of the process.       *)
Cleanup(p) ==
  /\ Undisturbed(p, FilesOf(p))
  /\ live' = {f \in live : ~Frees(f, Uses(p, f))}
  /\ ref' = [f \in Files |-> Left(f, Uses(p, f))]
  /\ table' = [table EXCEPT ![p] = Closed]
  /\ status' = [status EXCEPT ![p] = "dead"]
  /\ step' = [step EXCEPT ![p] = "scan"]
  /\ held' = [held EXCEPT ![p] = NoFile]
  /\ count' = [count EXCEPT ![p] = 0]

(* exit, a page fault that cannot be served, a signal without a handler.     *)
Exit(p) == status[p] = "alive" /\ Cleanup(p)

(* syscall_stop ends a process wherever it is.                               *)
Stop(p, q) ==
  /\ p \in Stopping /\ status[p] = "alive"
  /\ status[q] \in {"alive", "reading"} \/ (Races /\ status[q] = "dying")
  /\ Cleanup(q)

(* kill_zombies frees the thread; its table is empty by then.                *)
Reap(p) ==
  /\ status[p] = "dead"
  /\ status' = [status EXCEPT ![p] = "unused"]
  /\ UNCHANGED <<table, live, ref, step, held, count>>

-----------------------------------------------------------------------------
(* A trap other than a page fault, or a deadly signal after a task has run:  *)
(* vfs_thread_cleanup runs with interrupts on.  vfs_close reads the count    *)
(* once and stores it, less one, or frees the file; then the loop clears the *)
(* descriptor.                                                               *)
Trap(p) ==
  /\ p \in Trapping /\ status[p] = "alive"
  /\ status' = [status EXCEPT ![p] = "dying"]
  /\ UNCHANGED <<table, live, ref, step, held, count>>

Dying(p, s) == status[p] = "dying" /\ step[p] = s /\ Open(p) # {}

ReadCount(p) ==
  LET f == table[p][First(Open(p))]
  IN  /\ Dying(p, "scan") /\ Undisturbed(p, {f})
      /\ held' = [held EXCEPT ![p] = f]
      /\ \/ /\ ~Frees(f, 1)
            /\ count' = [count EXCEPT ![p] = ref[f]]
            /\ step' = [step EXCEPT ![p] = "store"] /\ UNCHANGED live
         \/ /\ Frees(f, 1)
            /\ live' = live \ {f}
            /\ step' = [step EXCEPT ![p] = "clear"] /\ UNCHANGED count
      /\ UNCHANGED <<status, table, ref>>

StoreCount(p) ==
  /\ Dying(p, "store")
  /\ ref' = [ref EXCEPT ![held[p]] = count[p] - 1]
  /\ count' = [count EXCEPT ![p] = 0]
  /\ step' = [step EXCEPT ![p] = "clear"]
  /\ UNCHANGED <<status, table, live, held>>

Clear(p) ==
  /\ Dying(p, "clear")
  /\ table' = [table EXCEPT ![p][First(Open(p))] = NoFile]
  /\ step' = [step EXCEPT ![p] = "scan"]
  /\ held' = [held EXCEPT ![p] = NoFile]
  /\ UNCHANGED <<status, live, ref, count>>

(* Nothing is open any more: thread_exit goes on with interrupts off.        *)
Gone(p) == status[p] = "dying" /\ Open(p) = {} /\ Cleanup(p)

-----------------------------------------------------------------------------
Next ==
  \E p \in Procs :
    \/ Create(p) \/ NoMemory(p) \/ Exit(p) \/ Reap(p) \/ Trap(p)
    \/ ReadCount(p) \/ StoreCount(p) \/ Clear(p) \/ Gone(p) \/ ReadReturns(p)
    \/ \E q \in Procs : Fork(p, q) \/ Stop(p, q)
    \/ \E f \in Files : OpenFile(p, f)
    \/ \E fd \in Fds : CloseFile(p, fd) \/ ReadWaits(p, fd)

Spec == Init /\ [][Next]_vars

-----------------------------------------------------------------------------
(* A process that has no use for a descriptor has it empty (fork and the     *)
(* loops over the table rely on it), and one that is doing nothing has no    *)
(* file pointer in hand.                                                     *)
TypeOK ==
  /\ status \in [Procs -> {"unused", "alive", "reading", "dying", "dead"}]
  /\ table \in [Procs -> [Fds -> Files \cup {NoFile}]]
  /\ live \subseteq Files
  /\ ref \in [Files -> Nat \ {0}]
  /\ step \in [Procs -> {"scan", "store", "clear"}]
  /\ held \in [Procs -> Files \cup {NoFile}]
  /\ count \in [Procs -> Nat]
  /\ \A p \in Procs : status[p] \in {"unused", "dead"} => Open(p) = {}
  /\ \A p \in Procs : status[p] # "dying" => step[p] = "scan"

(* The references to f: the descriptors that show it, except the one a dying *)
(* process has closed and not yet cleared.                                   *)
Counted(f) ==
  {slot \in Procs \X Fds :
     /\ table[slot[1]][slot[2]] = f
     /\ ~(Dying(slot[1], "clear") /\ slot[2] = First(Open(slot[1])))}

(* Through fork, open, close, exit, stop and death, every allocated open     *)
(* file has as many references as its ref_count says, and at least one: none *)
(* is freed while a descriptor shows it, none is lost (vfs_close,            *)
(* vfs_thread_clone, vfs_thread_cleanup).                                    *)
CountsExact ==
  \A f \in Files :
    Cardinality(Counted(f)) = IF f \in live THEN ref[f] ELSE 0

(* A read that gave up the hart finds its file still open when it goes on    *)
(* (devfs_uart_read keeps no reference of its own).                          *)
ReaderKeepsFile == \A p \in Procs : status[p] = "reading" => held[p] \in live
=============================================================================
