SPECIFICATION MCSpec
CONSTANTS
  Procs = {p1, p2}
  Shell = Shell
  Idle = Idle
  NoThread = NoThread
  Signals = {1}
  PlainFork = TRUE
  Calls = 1
  NoFrame = NoFrame
  KernelRoot = KernelRoot
  KernelPmd = KernelPmd
  MaxTasks = 3
  MaxTimers = 2
  MaxNested = 3
  Period = 1
  Seconds = {0, 2}
  MaxTime = 3
  MaxRequests = 2
  MaxStack = 9
  UserThreads = {user, next}
  KernelThreads = {kernel}
  Boot = kernel
  NoStack = NoStack
  Depth = 2
  Onward = FALSE
SYMMETRY ProcSymmetry
INVARIANTS
  StacksSound
  LoopSound
  TablesExact
PROPERTIES
  Resumes
CHECK_DEADLOCK FALSE
