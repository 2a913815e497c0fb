# Verification of the OSC 2026 kernel

TLA+ models of the RISC-V kernel in `src/lab7`, model-checked with TLC and, in part,
proved with TLAPS.  The repository holds eight snapshots of one kernel, `lab0` to
`lab7`; each adds parts and keeps most of those before it, so `src/lab7` is the one modelled
part by part, and of the others what they do differently: lab3's allocator with its frame
array, lab4's single control stack, lab5's processes without virtual memory, and lab6's
processes with all the memory they hold.
The lab documents (`src/spec/lab*.rst`) are quoted where they promise something, never
as the source of a definition.

Contents: 1 the system, 2 modules and code, 3 runs, 4 fairness, 5 proofs, 6 where code
and documents disagree, 7 what is not modelled, 8 plan.

## 1. The system

One hart.  Traps enter with interrupts off (`sstatus.SIE = 0`) and system calls run so,
except where they say `irq_enable`: a read of the UART, the wait for the console line,
`display`.  Callbacks of the task queue and kernel threads run with interrupts on.
Concurrency is thus: timer and UART interrupts preempt user code, kernel threads and
callbacks; `schedule()` then moves the hart to another thread; a system call is a step
of its own up to the point where it sleeps or turns interrupts on.

| Component | State | Operations | Meets the others by | What is hard | What makes it correct |
|---|---|---|---|---|---|
| Scheduler, threads, process system calls, signals (`sched.c`, `syscall.c`, `kernel/main.c`) | run queue, `current`, pid, status, parent, `waiting_pid`, `wake_time`, pending signals and handlers, foreground pid | create, `schedule`, exit, fork, exec, waitpid, stop, kill, signal, sigreturn, usleep, display; `kill_zombies`; the shell's and the idle thread's loops | called by traps and by the shell; frees address spaces and files | lost wakeups; pids and structs that are reused; signals against sleeping calls; the shell is preemptible | one thread runs; nobody who ended runs again; parents and sleepers come back; zombies are freed; the console returns to the shell |
| Frame allocator (`mm.c`) | frame array, free lists, reference counts | allocate, split, free, merge, share | everything allocates | long mixes of splits and merges; callers with interrupts on | blocks apart, no frame lost, fully merged |
| Boot-time memory (`mm.c`) | reserved ranges, bump pointer | record, allocate, build the lists | feeds the frame allocator | ranges that overlap, wrap, or begin in mid-page | nothing reserved is given out, everything else is |
| Chunk pools (`mm.c`) | pool lists, the frames' pool ids | `alloc`, `free` | pages from the frame allocator | sizes at boundaries; `free` recognises pointers | grants apart, chunks on one list once |
| User memory (`user_vm.c`, `mmap.c`, `vm.c`) | regions, page tables, frames and their counts, signal stack | four page-fault handlers, fork, exec, mmap, teardown | traps, system calls, allocator | copy-on-write through forks, deaths, failures and lack of memory | a process' memory is its own |
| Placement of mmap regions (`mmap.c`) | regions of a process | search from a hint | user memory | wrap-around, no room | regions apart |
| Task queue (`task.c`) | ready list, task slots, priority stack | `add_task`, `task_run_ready` | interrupt handlers fill it, every trap's return runs it | callbacks preempted by better ones and by the scheduler; threads killed inside | best first, every task runs |
| Timers (`timer.c`) | timer list, slots, hardware deadline | `add_timer`, the interrupt, the trampoline | tick for the scheduler, tasks for expired timers | several deadlines on one device; slots reused; no task slot left | not early, in order, none forgotten |
| Trap entry and return (`trap_entry.S`, `trap.c`) | stack frames, `sscratch` | save, dispatch, restore | everything | nesting | what is restored is what was saved |
| Files (`vfs.c`, `syscall.c`) | descriptor tables, open files with counts | open, close, read, fork, cleanup | scheduler (fork, end) | sharing after fork; a read that sleeps with a pointer; cleanup with interrupts on | counts exact |
| Names and mounts (`vfs.c`, `tmpfs.c`, `ramfs.c`, `devfs.c`) | vnodes, mounts, working directories | lookup, mkdir, create, mount, chdir | files | mount crossings both ways | one consistent tree |
| tmpfs files (`tmpfs.c`) | buffer, size, positions | read, write, lseek64 | files | unsigned differences, holes | a bounded sequence of bytes |
| Console line (`syscall.c`) | `g_uart_line_owner` | take, write, release | write and read calls, every end of a process | owners that sleep or die | lines whole, a free line is taken |
| UART, PLIC (`uart.c`, `plic.c`) | receive and transmit ring | interrupt handler, put, get | tasks, console | full rings, writes past them, prints with interrupts off | order kept, everything sent, nobody spins for ever |
| Page tables (`vm.c`, `start.S`) | trees of three levels in frames, the kernel's static tables | set-up and the jump to the upper half, map, unmap, walk, teardown, switch | user memory, `schedule()` | shared upper half; tables left by failed mappings | a walk finds what was mapped; no table lost or freed in use |
| cpio archive, ramfs (`cpio.c`, `ramfs.c`) | the archive, a handle's position | walk, find, ls, read | files | archives cut short, padded, without trailer | what is found is what was packed |
| Device tree (`fdt.c`) | none | paths, properties, `reg`, reserved ranges | boot | depths and paths kept up by hand | what is found is there, and is found |
| Framebuffer (`video.c`, `devfs.c`) | position, cache, screen | write, lseek, display | files | whole cache lines, edges | the screen shows what was written |
| Bootloader (`bootloader/`) | command line, load address | receive, check, relocate, jump | serial line | lost and altered bytes, no acknowledgement | only a whole image is started |
| Kernel shell (`kernel/main.c`) | command line, blocks of timeouts | editing, commands | all of the above | typed ahead of a program, full lines, failed timeouts | what runs is what the terminal shows; no block lost |
| lab4's loop (`lab4/`) | one control stack | traps, tasks, timers, a shell and a user program on it | -- | tasks preempt tasks on the same stack | priorities nest, no timeout forgotten |
| lab5's processes (`lab5/`) | stacks at different addresses | fork, exec, signals, waitpid | -- | copied stacks point into the original | what a process uses is its own |
| lab6's processes (`lab6/`) | structs, kernel stacks, tables, pages | all system calls, faults, zombies | -- | failure half way; blocks shared, inherited, freed | every block counted; the hart never runs on freed memory |

`PROJECT.json` lists the same components with their modules, and the hazards: the places
of this code where an order of steps, a limit, a failure or a stale value could do harm
and a test would hardly reach, with the properties that watch each.

## 2. Modules and the code

Names of actions and variables follow the code.  A handler is one action, with everything
it does, unless other code can run in the middle; then it is split exactly there.
Comments "Faulty variant" mark definitions that are not part of a model: each is a
plausible bug in the definition that follows it and shows that a property notices it.

### Threads

**Sched** -- threads.  `queued` with `stamp` is the ring `g_run_queue`: the stamp is the
order of insertion, `IsNext` the search of `schedule()`.  `at` and `arg` say where a thread
is in the kernel (asleep in `usleep` or `waitpid`, on its return to user mode, at a point
of the shell's or the idle loop).  User code is any sequence of system calls.  Slots are
struct addresses: a freed one is used again, dangling `parent` pointers then point to the
new thread, as in C.  `ShellAlloc`, `ShellStorePid`, `EnqueueProcess`, `ShellForeground`
are one function of the code that the timer may interrupt at each of these points.
`AtomicPid = TRUE` leaves out an interrupt between load and store of `g_next_pid++` there.
The shell reads the new thread's pid after it has enqueued it (`PidRead`): from a struct that
was freed meanwhile it reads the pid that was there, or what the memory is used for since.

**TrapFrame** -- the entry and return of a trap, register by register: `sp`, the two
temporaries the code works with, `sscratch`, `sepc`, `sstatus`.  The control registers
belong to the hart and are shared by all threads; each thread has its stack of frames.
`Onward` bounds a behaviour after the interrupt that does the damage (section 6).

**TaskQueue** -- `running[t]` is the stack of callbacks begun on thread `t`; `levels` is
the one `g_priority_stack` of them all.  **Timers** takes from it that trampolines run one
after the other, in the order they were added, with interrupts on: their three stores to
the slot are three steps.

### Memory

**Buddy**, **FrameAlloc**, **Startup** -- frames.  `Buddy` has one step for the choice of a
block, its unlinking, each split and each merge, so that a preemptible caller can be
interrupted there.  Free lists are sets.  `FrameAlloc` is the promise: a set of blocks,
apart, each with a number of holders.  `Startup` is `build_initial_free_lists` as a
function; `MCBuddy` starts `Buddy` from it.

**BootMemory** -- `mm_init`, one step per call: record (clipped and rounded, with addresses
below `2^Width` that wrap), place the frame array, reserve it, mark, build the lists.

**KernelMap** -- `start.S` with `setup_vm` and `drop_identity_map`: one step per change of what
the next instruction needs to be mapped.  It shows the upper half that `PageTable` takes as
given.  That the devices need no more early tables than there are is an assumption (33 of 40
for this board): `setup_vm` does not look at the result.

**Heap** -- `alloc` and `free` on top of any free block.  Addresses are bytes.  The sum in the
page count wraps at `Word`; `NoWrap` says that no caller asks for so much, which is so in the
code: sizes come from constants and file headers.  `Span` is `1 << order`, given by doubling.
A grant has, beside pointer and size, a mark that tells two of one pointer and size apart, so that
a chunk that were given out twice would be seen.

**FrameLists** -- `mm.c` of lab3, lab4 and lab5 in one: from the ranges to the chunks, with
the frame array as the code has it and the lists in their order.  A call is one action.

**UserVm**, **PrivateMemory** -- address spaces.  An instruction is tried, faults, is served
and is tried again (`access`), and other processes run in between.  A page table is a
function from pages to entries (frame, accesses allowed, `PTE_COW`); **PageTable** has it as
the tree of three levels in frames, with the tables of the kernel in the upper half, and
says why it may be taken as a function.  `PrivateMemory` is the promise: each process has a
memory of its own that fork copies.  **MmapArea** is the search for a place, on byte
addresses that wrap at `Word`.  The loop of `user_mmap_find_base` is the set of the values that
its variable takes, the least one with the first of them and, with each, the one it goes on
with: so it can be proved about, and a search that did not end would still be one.  That there is
memory for the region itself is `UserVm`'s concern.

### Files and devices

**OpenFiles** -- descriptor tables, `ref_count`, and the three steps of a cleanup that runs
with interrupts on.  **Mounts** -- vnodes and paths; a path is a sequence of names.
**TmpFile**, **ByteFile** -- one tmpfs file and the sequence of bytes it implements.
**Archive** -- the walk over a cpio archive and the files of ramfs in it.  `ramfs_lookup`
allocates a node and a vnode each time, which nothing ever frees: that is not counted.
**Framebuffer** -- `/dev/fb` and `video_display` over a cache whose lines reach the screen
when they are flushed, or by chance before.  `devfs_write` runs with interrupts off and is one
step, which ends the process if its copy comes to a page the process may not read.
`syscall_display` switches interrupts on: every byte it copies, every line it flushes and every
row is a step, between which others write to the same bytes or end it.

**LineOwner** -- who may write to the console.  Text is either the beginning of a line or
ends it.  A write to the standard output, the file `/dev/uart`, asks for no line (`WriteDevice`).
`line` and `tail` are the history that the properties speak of: who is in the middle of a line,
and whose text is on the console's last one.

**Uart** -- both rings, the device's buffers, and the ways to print: through the ring, past it
with interrupts off (`uart_puts`, one step, as the text is the kernel's), and through it with
interrupts off from a trap.  A process's text lies in its memory: `uart_write_atomic` reads it
character by character, and at any of them the page may be missing; the handler of that fault
prints one text past the ring and a number through it, and then the write goes on or the
process ends.

**Shell** -- the edited line against what the terminal shows of it, typing ahead of a
foreground program, and `setTimeout`: two allocations and a timer, each a step that may fail
while timeouts end in between.

**DeviceTree** -- the walks over tokens, with the depths and paths the code keeps, against a
definition by nesting.  **Bootloader** -- the protocol with `send_kernel.py` at the other end.
`cmd_load` runs in the relocated copy, on a copy of the stack, and returns to the caller whose
address that stack holds: in the linked image.  After a refused header that image is intact, it
prompts, and another `load` moves again; the code then copies the image over the stack it uses,
its stack pointer lies behind the copies, and it may or may not get on (`Moves`).  After a wrong
checksum the payload lies over the code it returns to (`lost`).

### Earlier kernels

**EventLoop** (lab4) -- the one control stack as a sequence: the shell's loop or the user
program at the bottom, traps, runs of `task_run_ready` and callbacks above it.
**StackProcesses** (lab5) -- an address is the block it lies in; of the registers `sp` and
`s0`, of a stack its saved frame pointers.  **ProcessMemory** (lab6) -- every block that
`alloc` gives out, with its count and owners; `left` is how many blocks a call finds free,
so that it fails at every point where it can.  An `exec` keeps the handlers of the old
image (lab6 and lab7 alike); the models do too.

### How they fit together

Each component stands alone and takes from the others what the code there guarantees:
`UserVm`, `OpenFiles`, `LineOwner` take from `Sched` that system calls are single steps and
that a process can end at any step of another; `Heap` from `Buddy` that a granted block is
free; `Buddy` from `BootMemory` the initial lists; `Timers` from `TaskQueue` the order of
tasks of one priority; `UserVm` from `FrameAlloc` that a frame with no holder is nobody's
and from `PageTable` that a table is a function; `TaskQueue` and `Sched` from `TrapFrame`
that a thread goes on where it was interrupted.  `EventLoop` and `ProcessMemory` put
together what lab7's modules take apart: traps, tasks and timers on one stack, and memory,
signals, waiting and reaping.

The MC modules put several modules that share no state into one run.  A variable (`stage`,
`part`, `side`, `timed`) chooses which of them a behaviour is of; the others' variables do
not change, or, where their initial values are many, are 0.  A property of one part is
claimed of the behaviours of that part.  An MC module extends the modules whose properties are
proved, so that run and theorem speak of one definition; names that would meet carry a prefix
(`LineNext`, `TimersNext`, `ShellNext`).  The product of the parts is never explored and
nothing is claimed of it.

## 3. Runs

| Run | Shows | Bounds and why they are enough |
|---|---|---|
| `sched` | one RUNNING thread, no lost wakeup, calls end for their reason, nobody is revived | the shell's struct and two slots, three creations, one signal: a parent and a child under a shell, and one reuse of a freed struct, are enough for every stale pointer and for the races of wait, stop and kill; slots are symmetric. A process may fail to get its standard files |
| `sched_live` | ready threads run, sleepers, parents and `threadtest` return, zombies are freed and the shell takes over | as above without signals and without that failure, which doubles the states and leads back to the prompt, with the `test` command's two threads, one of which or both may not be created |
| `buddy_race` | finding: a frame is handed out twice | the shell is preemptible |
| `memory` | six stages of a boot, and lab3's allocator. *load*: only what was sent is started. *paging*: the kernel always finds its code and stack, and in the end exactly the memory and the devices are mapped. *tree*: lookups agree with the nesting. *boot*: what is reserved, and only that, is kept from the lists. *frames*: blocks apart, none lost, all merged when all is freed, refinement of `FrameAlloc`. *heap*: grants apart, every page and every chunk is held or free. *lists*: frame array, lists and pools are exact | *load*: images of up to three symbols, one of them the newline or the magic, two streams, two faults. *paging*: tables of eight entries; two devices, at the ends of giants and blocks and across them, in one early table or several. *tree*: every well-formed block of six tokens, and every one that goes on for six behind a `/reserved-memory` whose first child has a range: two children with ranges, and one of size zero, which is refused. *boot*: ten pages, ranges that start in, at, below and above a page's edge and the region's, are empty or wrap, up to five recorded. *frames*: seven frames (no power of two), one reserved, orders 0 to 2, two callers: each kind of buddy occurs (past the end, reserved, allocated, other order, tail); an assumption of `MCBuddy` compares the initial lists with the maximal blocks for every number of frames up to seven and every reserved set. *heap*: two pages, sizes at and one past each pool's, at and past a page; two grants of one pointer and size could be told apart. *lists*: eight pages, every size class, three grants at a time |
| `user_vm` | counts follow the owners and permitted accesses are served; refinement of `PrivateMemory`; regions are apart, aligned and inside user space | two process slots, an image page and an mmap page, three frames: fewer than both processes need, so every allocation also fails; slots are symmetric. Addresses that wrap at 64: hints and lengths that wrap, overlap, are unaligned, or leave exactly no room |
| `processes` | the registers and stacks of processes are their own: `StacksSound` (lab5); `LoopSound` (lab4), `TablesExact`, `Resumes` | two processes, a signal, room for some or for all of what a call allocates; one call in progress on a stack; three nested levels, two timers, three time units; seven frames for two address spaces; two nested traps on each of three threads |
| `deferred` | best first, every task runs; messages in order and not early, every timeout fires | two threads, three priorities, three slots, five arrivals: three nested callbacks over two threads. Three timeouts over three slots and two task slots, delays 0, 1 and 3, a tick of 2: equal deadlines, two due at once, and one turned away |
| `timer_lost` | finding: a timer set during the trampoline's stores never fires | two slots, two timeouts, `Overlap = TRUE` |
| `open_files` | counts exact, a sleeping reader keeps its file | three processes, five files, three descriptors; two of them may stop others and may trap |
| `files` | `..` undoes a name and paths compose; archive members are found as packed; the screen is current; refinement of `ByteFile`; what lab6's processes hold is counted, and the hart runs on it: `MemorySound` | two processes, two names and `/dev`, ten vnodes, paths of three components; archives of three members, complete, cut or padded; a 3 x 2 screen, cache lines of two pixels, images larger and smaller, two displays at once and a writer; a buffer of three bytes, seeks beyond it, writes of zero to two bytes, two handles. Two of lab6's processes, in behaviours with a signal and in behaviours with a region of mmap, and every number of free blocks with which a call fails: parent and child are enough for a block that is shared, inherited or freed by another |
| `console` | lines whole, a free line is taken, nobody keeps it for nothing; characters in order, everything sent, no spin with interrupts off; the shell's books | a parent, two children, a stranger; rings of two, one writer and one trap, texts of up to two characters with a page fault at any, numbers of up to two digits that fill the ring; lines of three, five characters typed, four blocks for two timeouts at a time |
| `trap_late` | finding: a frame being restored is overwritten | one user thread, one kernel thread, two nested traps |

Types are checked where they carry something: those of `Sched`, `Buddy`, `Heap`, `TmpFile`,
`OpenFiles`, `LineOwner`, `UserVm`, `Uart`, `TrapFrame`, `TaskQueue`, `Timers`, `Shell`, `StackProcesses` and `ProcessMemory` are proved, those of the other
modules are there for the reader.
Some properties are conjunctions of several named ones, so that a run asks one question:
`FramesExact` (the lists after boot and when all is freed, lab3's frame array), `KernelStarts`
(load and paging), `HeapExact`, `PagesSound`, `LoopSound`, `PathsAsOneTree`, `CharsInOrder`,
`MemorySound` (`MemoryTypes`, `MemoryExact` and `ContextSound`), `StacksSound`
(`BlocksOwned` and `OwnStacks`).

Deadlock is checked in `sched`, `sched_live`, `open_files`, `user_vm`, `files`, `buddy_race`
and `trap_late`.  In the others the system may stop: time, requests, typing and streams are
bounded, all processes may have ended, or all memory may have become chunk pages, which are
never given back.

Bounds on counters are constants and appear in guards: `MaxCreate` and `NIter` (Sched),
`MaxRefs` (Buddy), `Sizes` and `MaxLive` (FrameLists), `Commands`, `Streams`, `Faults`
(Bootloader), `Length`, `Starts` (DeviceTree), `Handles` (Heap), `Arrivals` (TaskQueue), `Late`, `Timeouts`, `AddBy`,
`MaxTime` (Timers), `MaxTime`, `MaxRequests`, `MaxStack` (EventLoop), `Room`
(ProcessMemory), `Calls` (StackProcesses), `Depth` (TrapFrame), `MaxNodes`, `MaxMounts`, `MaxEntries`,
`PathLength` (Mounts), `MaxMembers`, `Padding` (Archive), `Writes`, `Seeks` (Framebuffer),
`MaxSeek` and `Lengths` (TmpFile), `Burst`, `Text` (Uart), `Typed`, `Blocks` (Shell).  Others are sizes of the
code made small: `MaxOrder`, `PoolSizes`, `MaxTasks`, `MaxNested`, `MaxFd`, `MaxSize`,
`MaxRegions`, `Size`, `MaxLen`.  `MaxRegions` is never reached in the runs: with all 64 ranges
recorded the frame array itself would not be.

## 4. Fairness

* `Sched`: strong fairness of the timer interrupt and of the shell's, the idle thread's and
  a kernel path's next step; weak fairness of the passing of time.  A pending timer
  interrupt stays pending until `SIE` is set, and a kernel path is far shorter than a tick,
  so a thread that gets the hart again and again gets on.  User code is never fair: it may
  loop for ever.
* `TaskQueue`: interrupts keep coming and are handled (weak), a thread that gets the hart
  again and again leaves its trap and finishes its callback (strong, since it loses the
  hart in between).  `EveryTaskRuns` excepts the tasks of a level that a killed thread left
  behind (`Abandoned`, section 6).
* `Timers`: weak fairness of time, the interrupt and the trampoline's steps.
* `Uart`: the line carries what it is given (weak).  A requested interrupt is level-triggered
  and stays pending while interrupts are off, so the handler is strong; that it also gets to
  the transmit side is strong because characters come slower than it goes round.  The
  scheduler gives every writer its turns (strong: the ring may be full at some of them).
* `LineOwner`: weak fairness of `Take`, the poll of `uart_wait_for_line_owner`, which the
  scheduler lets go round (`ReadyRuns`).

In the compositions the conditions are those of the parts, on the part's behaviours.

## 5. Proofs

| Theorem | Says | Assumes of the constants |
|---|---|---|
| `SchedProofs!TypeCorrect`, `HartRunsOne`, `TerminatedForEver` | types; one thread RUNNING, in the queue and not freed; no terminated thread comes back | nothing beyond the module's assumptions |
| `SchedProofs!ParentsAreWoken`, `BlockedWakeRightly` | no lost wakeup; a blocked thread runs again only for what it waits for or a signal | `AtomicPid` |
| `BuddyProofs!BuddyInvariant`, `BlocksApart`, `FramesConserved`, `ImplementsFrameAlloc` | the invariant below; no overlap; no frame lost; the allocator implements `FrameAlloc` | `Preemptible = {}` |
| `BuddyProofs!GrantsExact` | what callers of `alloc` hold is apart, also two grants of one pointer and size, and in pages in use; every page in use and every chunk is held or on its list | `NoWrap`, `HeapAssumption` |
| `OpenFilesProofs!FileCounts`, `ReadersKeepFiles` | counts exact, also between the steps of a cleanup with interrupts on; a sleeping reader keeps its file | `Races = FALSE` |
| `TmpFileProofs!FileSizeBounded`, `TmpFileIsByteFile` | the size passes the buffer only by a write of nothing behind it; implements `ByteFile` | nothing beyond the module's assumptions |
| `DeferredProofs!TypeCorrect`, `BestIsFirst`, `SlotsAccounted` | types; the best waiting task is started first; slots are those of the tasks that wait or run | nothing beyond the module's assumptions |
| `DeferredProofs!LevelsFit` | levels rise strictly and there is room for the next | at most `MaxNested` priorities (16 in the code, which adds tasks of at most seven different ones) |
| `ConsoleProofs!LineHeld`, `LinesStayWhole` | the owner keeps the line while it writes; an unfinished line holds text of one living process's `uart_write` | `LineOwnerAssumption` |
| `ConsoleProofs!NoIdleOwner` | a living owner of the line is writing or in the middle of its line | the same |
| `UserVmProofs!TypeCorrect`, `PagesStaySound` | types; every frame's count is the number of entries that hold it, and permitted accesses are served | nothing beyond the module's assumptions |
| `UserVmProofs!WritableStaysPrivate`, `MemoryIsPrivate` | what one process may write no other has mapped; address spaces implement `PrivateMemory` | the same |
| `UserVmProofs!PlacesBest`, `RegionsStayApart` | mmap takes the hint if the request fits there, otherwise the lowest place, and fails only when there is none; regions are whole pages, apart from each other, the image and both stacks | `MmapAreaAssumption` |
| `TmpFileProofs!ScreenShowsAll` | the screen shows what was written last at each byte, except what a display has still to flush or was ended before it flushed; a display that gets through its rows has shown all of its image | `FramebufferAssumption` |
| `ConsoleProofs!OrderKept`, `NoSpin` | characters are received and sent in order, each once, but that a process's text overtakes what page faults of its own writing print; nobody waits for room with interrupts off | `UartAssumption` |
| `TrapFrameProofs!TrapsResume` | a thread goes on with the registers it was interrupted with | `TrapFrameAssumption` |
| `TrapFrameProofs!StacksStaySound` | lab5: every block in use has one owner, what `kill_zombies` frees is not linked any more, registers of a living process point into stacks of its own | `StackProcessesAssumption`, `PlainFork` |
| `TmpFileProofs!MemoryStaysSound` | lab6: the count of every block is the number of its owners, wherever memory runs out; a writable page has one; the hart translates by the tables of the thread it runs; a handler runs on its own stack | `ProcessMemoryAssumption`, `~ForkInHandler` |
| `TmpFileProofs!PathsStayOneTree` | `..` takes a name back, into a mount and out of it; a path may be walked in parts | `MountsAssumption`, `Over \subseteq {"empty"}`, `"devfs" \notin Filesystems` |
| `DeferredProofs!PrintedWhenDue` | messages of timeouts are not early and in the order they are due | `~Overlap`, `TimersAssumption` |
| `ConsoleProofs!BooksKept` | what the shell runs is what the terminal shows; the blocks given out are those of timeouts and of the command in progress, whichever allocation fails | `ShellAssumption` |

They hold for every number of threads, processes, frames, pages, files, bytes, for rings of
every size and traps nested to every depth.  `UartAssumption` says that no buffer is of size
zero and that a number printed with interrupts off fits into a ring (20 digits, 1024 bytes);
`TrapFrameAssumption` that there is the boot thread, and that no thread is both a user and a
kernel thread; `StackProcessesAssumption` and `ProcessMemoryAssumption` that processes are
finitely many and apart from the shell and idle.  `TimersAssumption` says that slots are positive and finitely many, that times
are numbers and that the bound on time lies behind every deadline; `ShellAssumption` that
backspace and newline are not what lines are made of; `HeapAssumption` that the chunk sizes divide
the page and rise, and that a block is twice as long as that of the order below;
`MountsAssumption` that `.` and `..` are not among the names of `PathNames` (`..` is a component of its
own; neither is ever made, `resolve_parent_path`);
`MmapAreaAssumption` that the image, the mmap area, the signal stack and the stack follow each
other below the end of the address space, and that the image's size, both bases and the
address space are whole pages; `FramebufferAssumption` that no dimension, of the screen, of a
pixel, of a cache line or of an image, is zero.

The arguments:

* *Sched.*  `OneRunning` is not inductive: it needs that `current` is in the queue, that
  idle is always ready to run, that a thread in the shell's creation path has not been
  published, and that a freed struct is in nobody's hands.  For
  `NoLostWakeup` and `WokenRightly` a pid must name one thread of the queue (`PidOK`, which is why
  they assume `AtomicPid`): two threads with one pid would let the wrong child's end count.
  So does `WokenRightly`: a thread in `waitpid` is made ready by the end of a child with the
  pid it waits for, and that must be the child it meant.
* *Buddy.*  The invariant describes memory as a set of blocks (free, allocated, in the hands
  of a caller between two steps of split or merge), aligned to their order, apart, and
  covering the unreserved frames; and says that the frame array marks exactly their heads.
  `can_merge` looks only at the marks, so marks and lists must agree.  Alignment is what
  makes the buddy of a head the head of a block of the same order.
* *Heap.*  A pointer that a caller holds is a chunk of its page's pool or the first byte of a
  block, and there is room for the size asked for; no two callers have the same pointer, and no
  pointer is on a list (`Held`, `OneEach`); every chunk of a page is one or the other.  A chunk begins at a multiple of a size that divides
  the page, so it ends before the next one and inside its page (`MultiplesApart`); where a block
  ends the frame array says (`Blocks`), and blocks are runs of pages that do not meet
  (`RunsApart`).  `Lists` is what makes it inductive: what is taken from a list was on it once.
* *OpenFiles.*  The references to a file are counted over all tables, without the descriptor a
  dying process has closed but not cleared (`Standing`); every action changes one row, `Row`
  gives the change in the count, and `ref_count` changes by as much.  Between reading a count
  and storing it a dying process has the present one in hand (`InHand`), which is exactly what
  a race breaks.
* *TmpFile.*  The mapping shows the first `size` bytes of the buffer, or all of it, and the size
  on its own; it needs that the buffer beyond `size` is zero, which is why holes read as zeros.
  A size behind the buffer is reached by writes of nothing only, and what a read returns from
  there is anything.
* *LineOwner.*  Whoever writes owns the line, and so does whoever has begun one and lives
  (`Owned`); the last line holds text of the one who has begun it and of processes that are gone
  (`Begun`); who never started has written nothing (`NotYet`).  A process loses the line only by
  ending it, reading, or its own end, and these clear `line` or its life.
* *UserVm.*  The page table says what the list of regions says (`Recorded`): an entry holds the
  recorded frame, with all rights of the region, or without the right to write and marked
  `PTE_COW`.  No frame is two pages of one process (`Apart`), a slot without a process owns
  nothing (`Bare`), and `refs[f]` is the number of processes that own `f` (`Exact`, by the
  cardinality of that set).  A frame that an entry may write has one owner: fork takes the right
  from both sides, and the copy-on-write fault gives it back only at a count of one.  The
  mapping to `PrivateMemory` reads a page from its frame or, if it has none yet, from the image;
  a store then changes one process' memory since nobody else has the frame.
* *Uart.*  A ring is a queue, its contents the `count` characters from `head` on; push and pop
  are proved to append to it and to take from its front.  What leaves the device, followed by
  what waits in it and in the ring, is what waited before followed by what was put; on the
  receiving side the same but for characters dropped from behind a full ring.  The rings are
  empty until `uart_irq_init` (`Bypassed`).  `NoSpinOff` needs that who prints with interrupts off
  begins with an empty ring and has room for what is left of the number (`HasRoom`); a page fault in
  the middle of a write does too, since its own text goes past the ring first.  While a process
  writes, the ring holds only what its faults have printed (`OwnRing`), and that is all its text can
  overtake (`Overtaken`).
* *MmapArea.*  Regions are whole pages apart from each other and from the image (`AreaInv`); so a
  request fits where its pages do (`RoomIsFit`), the check of the end rules out what wraps
  (`RoomAt`), and the stacks are never in the way (`NothingAbove`).  Nothing before a value of the
  search's variable takes the request: what is skipped overlaps the region that is jumped over
  (`Skips`), and the least set lies inside every set with that property (`CandidatesReached`).  The
  largest value of the variable settles the case that nothing is found.
* *Framebuffer.*  The cache holds what was written last (`wanted`), and where the screen differs
  the byte is one that a display has copied and not flushed, or did not live to flush; that is
  inductive.  A display's row lies in the lines it flushes one by one (`FlushCovers`), also where the
  first byte is in the middle of a line, so nothing of it is pending when the next row begins.  A
  byte is in a row of an image just if the byte's pixel is, so rows do not meet (`RowOver`), and with
  the last one no byte of the image is missing.  `Fitting` shows that the two margins put the middle
  of the image on that of the screen.
* *Mounts.*  An entry leads to a vnode of that directory which is not the root of a mount, a
  mount and its mountpoint name each other, and what is covered is empty and no root (`TreeInv`).
  So following the mounts takes one step at most (`FollowTop`), a parent is never covered
  (`ParentTop`), and a path comes only to what is on top (`WalkPlaces`), where `..` and a second
  start of the walk can be compared with what was there.  Mounting on a directory in use, on a
  root, or devfs again breaks just these (section 6), hence the two assumptions on what users mount.
* *TrapFrame.*  The frames of a thread lie one above the other, every frame but those being
  saved or restored holds what the thread was interrupted with, and `sscratch` says which
  mode the trap came from.  All of it ends with the first timer interrupt in the window of
  `trap_late` (`spoilt`); `Resumes` speaks of steps before it.

* *StackProcesses.*  A block is named after the process it was granted to, so owners are apart;
  `Owns` says that a process' fields name its own blocks, `Books` that a block is in use just
  while a field names it.  `Points` ties the registers to what a process is doing: outside a handler `sp` names
  the user stack and nothing is saved; in a handler `sp` names the signal stack and the saved one
  the user stack; `s0` and the frame pointers saved in a stack name the user stack or nothing, so a
  return stays inside; fork copies a stack only if its
  words name nothing (`PlainFork`).  `Linked`: the ring holds each thread with a struct once, idle
  among them, so `schedule()` always finds one.
* *ProcessMemory.*  `MemoryInv` says that counts are exact (`Exact`), that a page with a writable
  entry has one owner (`Alone`), that entries map what is recorded (`Space`), what a living
  thread's handler owns (`Handled`), and that the hart is on a RUNNING process' tables or on the
  kernel's (`OnHart`).  A call allocates and gives back along the way, so between two steps of it
  the counts are not those of the structs: a job is counted against what everybody else owns
  (`RestOf`, `Counted`), each helper keeps that, and says which fields it has given back or newly
  granted (`Turned`), and when a job is done its owner may have the result (`GoodFor`).  A new block
  always has a name, as there is one more than there are processes and each owns one block of a
  use (`FreeName`).  Fork changes two threads: `Cloned` says that what the child got is new or shared, and
  that a shared page is writable on neither side.  `kill_zombies` buries any number of threads in
  one step; a block's count falls by how many of them owned it.  In a handler that forks the child
  has the handler's registers and no signal stack, hence `~ForkInHandler`.
* *TaskQueue.*  Each waiting task outranks those behind it (`Sorted`); `PlaceIn` shows that the
  loop of `add_task` has a place to stop, and `Numbered` that a new task has the largest number,
  so that what comes after it there has a lower priority.  `LevelsFit` is a pigeonhole: the
  levels and the priority of the task to be started are all different.  It says nothing of
  the tasks unfinished on other threads, whose levels may be above (section 6).
* *Timers.*  A timeout is in one of three places: taken by the trampoline, among the tasks, on the
  list; what was taken came before the tasks, and these before the list, in the order of deadlines
  and of asking (`InTurn`, `TakenFirst`).  `Accounted`: whatever was asked for and not printed is in
  one of them, so nothing that is due earlier can be missing when a message comes.  A slot holds a
  message of one place only (`Holding`); that is what `Overlap` breaks.  `TasksFit` bounds the
  tasks, so that only a full queue lets the interrupt print a message itself.  That the search of
  `add_timer` keeps the list sorted is a lemma about `InsertAt` (`Insertion`).
* *Shell.*  The row is the text followed by blanks and the cursor is behind the text, also in the
  three characters of an erasure.  Two timeouts have no block in common, and none has what the
  command holds between its steps; a step that is not taken holds nothing.

Only model-checked: all liveness, as fairness and `ENABLED` are beyond the prover; the
modules without a proof: `PageTable`, `EventLoop`, `FrameLists`; and what walks over data
(`Startup`, `BootMemory`, `Archive`, `DeviceTree`, `Bootloader`), whose
correctness is an induction over it.  The assumption `InitialAssumption` of `Buddy` about the
lists that startup leaves is evaluated for the instance.

## 6. Where code and documents disagree

Findings, each with its run:

* `buddy_race`: `buddy_alloc_order` is not protected against the timer; the shell calls it with
  interrupts on (`Preemptible`).
* `timer_lost`: `timer_task_trampoline` frees its slot before it is done with it (`Overlap`).
* `trap_late`: `task_run_ready` returns with interrupts on, so that a timer interrupt may come
  between the restoring of `sscratch` and `sret`.

The others below were seen while modelling; each is the reason for a constant that keeps it
out of the passing runs, so that these show what holds without it.

* `g_next_pid++` in the shell is not atomic (`AtomicPid`): with an interrupt and a fork in between
  two threads have one pid.  That pids are unique is therefore not claimed anywhere.
* `user_process_create_from_file` and `scheduler_thread_test` read the pid of a thread that is
  already in the queue and may have been freed: the shell then waits for whoever has the pid it read
  (`PidRead`; `ThreadTestReturns` excepts such a pid).
* `waitpid` on a thread that is not a child is never woken; a signal makes `waitpid` return the
  pid of a process that still runs; processes the shell started stay zombies for ever.
* A signal handler that forks: the child has no signal stack (`ForkInHandler`; with TRUE
  `MemorySound` is violated).
* lab5's fork moves only `sp` and `s0` to the copied stack; frame pointers saved in it, or
  addresses of locals, still point into the parent's (`PlainFork`; with FALSE `StacksSound` is
  violated).
* lab4 restores `sepc` before `sstatus` with interrupts possibly on (`LateTraps`; with TRUE
  `LoopSound` is violated).
* The priority stack is shared by all threads: a task may start that does not outrank one
  unfinished on another thread; a thread killed in a callback blocks its level for ever
  (`Abandoned` in `EveryTaskRuns`).
* A process that dies of a trap closes its files with interrupts on; another that closes or
  forks one of them in the middle of a `vfs_close` makes the count wrong (`Races`).
* A write of length zero past the end of a tmpfs buffer raises the size beyond it, so that a read
  from there returns what lies behind the buffer.  It is in the model; `SizeBounded` says that
  nothing else does so.
* Mounting on a directory that is in use, on a root, or devfs a second time breaks `..`, and
  the last makes `follow_mount` loop (`Over`, `Filesystems`).
* A process that begins a line by `uart_write` and then waits keeps the line from its child, also
  when it has ended the line by a write to `/dev/uart`, which gives nothing up (`HeldForItsLine`
  allows it).  What is written to `/dev/uart` comes between the begun line of another process.
* A process's text overtakes the numbers that page faults in the middle of writing it have put into
  the ring (`OutputInOrder` allows just that).
* A display that is ended between the copying and the flushing of a row leaves bytes in the cache
  that the screen does not show until the line is evicted (`unflushed`).
* A second `load` after a refused header moves the bootloader over the stack it is using, and a wrong
  checksum returns into code that the payload has overwritten (`Moves`, `lost`).

## 7. Not modelled, and why

* Logging, `vmcheck`, `help`, `ls`, `cat`, the messages of unhandled traps: they only print.
* Linker scripts, and of the start-up assembly the loop that clears .bss: `KernelMap` starts
  after it.
* Priorities, thresholds and addresses of the PLIC: written once; the claim and completion are
  in `Uart`.
* The `ioctl` of `/dev/fb`, the once-a-second message, the timer's frequency: one value is
  returned, printed or read.
* lab0 to lab2, and of lab3 to lab6 the drivers, archive and device tree readers and the shell's
  commands: what lab7 has, with fewer features.
* Makefiles, scripts but `send_kernel.py`, user programs (binaries).

## 8. Plan

1. Done: every component of lab7 that keeps state, and what the earlier kernels do differently.
2. Next theorems: `TablesExact` of `PageTable`, with tables counted as `ProcessMemory` counts
   blocks; then `FrameLists`.
3. Further compositions: `LineOwner` and `OpenFiles` under the steps of `Sched`.
