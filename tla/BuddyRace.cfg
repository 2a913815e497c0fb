SPECIFICATION Spec
CONSTANTS
  NumPages = 7
  MaxOrder = 2
  Size <- MCSize
  Reserved <- MCReserved
  InitialFree <- MCInitialFree
  Callers = {shell, process}
  Preemptible = {shell}
  MaxRefs = 1
INVARIANTS
  NotAllocatedTwice
