SPECIFICATION MCSpec
CONSTANTS
  parent = parent
  first = first
  second = second
  other = other
  NoProc = NoProc
  Procs <- MCProcs
  Parent <- MCParent
  Size = 2
  Fifo = 1
  Budget = 2
  Burst = 2
  Text = 2
  Threads = {1}
  Traps = {2}
  NoWriter = NoWriter
  NoChar = NoChar
  Input = {1, 2}
  Letters = {"x", "t", " "}
  Newline = "n"
  Backspace = "b"
  Blank = " "
  Exec <- MCExec
  Timeout <- MCTimeout
  MaxLen = 3
  MaxTimers = 1
  Blocks = {1, 2, 3, 4}
  NoBlock = NoBlock
  Typed = 5
CHECK_DEADLOCK FALSE
INVARIANTS
  LineWhole
  HeldForItsLine
  NoSpinOff
  ShellKeepsBooks
PROPERTIES
  FreeLineTaken
  CharsInOrder
  EverythingSent
