SPECIFICATION MCSpec
CONSTANTS
  NumPages = 7
  MaxOrder = 2
  Size <- MCSize
  Reserved <- MCReserved
  InitialFree <- MCInitialFree
  Callers = {shell, process}
  Preemptible = {}
  MaxRefs = 2
  PageSize = 12
  HeapPages = 2
  HeapOrder = 1
  Span <- MCSpan
  PoolSizes <- MCPoolSizes
  Word = 128
  Sizes = {4, 6, 7, 13}
  Handles = {1, 2}
  BootPageSize = 4
  BootPages = 10
  BootOrder = 2
  BootWidth = 6
  MaxRegions = 5
  Base = 16
  ArrayBytes = 8
  ListPages = 8
  Grants = 3
  Names = {"memory", "reserved-memory"}
  ReservedNode = "reserved-memory"
  Props = {"reg", "size"}
  Reg = "reg"
  CellSize = 2
  MaxDepth = 4
  Length = 6
  Symbols = 4
  Newline = 0
  Magic = 2
  MaxSize = 3
  LineLength = 3
  Commands = 3
  Streams = 2
  Faults = 2
INVARIANTS
  NoOverlap
  NothingLost
  HeapExact
  FramesExact
  LookupsAgree
  KernelStarts
PROPERTIES
  KeepsPromise
CHECK_DEADLOCK FALSE
