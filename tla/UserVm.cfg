SPECIFICATION MCSpec
CONSTANTS
  Procs = {p1, p2}
  Programs = {osctest}
  Image <- MCImage
  StackPages = {}
  MmapPages = {2}
  Prots <- MCProts
  Frames = {1, 2, 3}
  Values = {0, 1}
  Zero = 0
  NoFrame = NoFrame
  NoMemory = NoMemory
  Idle = Idle
  PageSize = 2
  Word = 64
  MmapBase = 10
  SigBase = 22
  StackBase = 26
  StackTop = 30
  ImageEnds = {2, 6}
  Hints = {0, 4, 9, 14, 60}
  Lengths = {0, 1, 8, 63}
SYMMETRY SlotSymmetry
INVARIANTS
  PagesSound
PROPERTIES
  KeepsPrivate
  PlacedWell
