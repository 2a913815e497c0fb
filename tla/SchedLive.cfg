CONSTANTS
  a = a
  b = b
  sh = sh
  Slots <- MCSlots3
  Idle = idle
  Shell = sh
  NULL = NULL
  Sigs = {}
  Commands = {"exec", "test"}
  MaxCreate = 3
  NTest = 2
  NIter = 1
  StdioFails = FALSE
  AtomicPid = TRUE
SPECIFICATION FairSpec
PROPERTIES
  ReadyRuns
  BlockedReturns
  EndIsNoticed
