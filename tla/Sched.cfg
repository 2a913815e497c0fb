CONSTANTS
  a = a
  b = b
  sh = sh
  Slots <- MCSlots3
  Idle = idle
  Shell = sh
  NULL = NULL
  Sigs = {15}
  Commands = {"exec"}
  MaxCreate = 3
  NTest = 2
  NIter = 1
  StdioFails = TRUE
  AtomicPid = TRUE
SPECIFICATION Spec
SYMMETRY Symmetry3
INVARIANTS
  OneRunning
  NoLostWakeup
  WokenRightly
PROPERTIES
  NoRevival
