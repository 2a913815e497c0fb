SPECIFICATION Spec
CONSTANTS
  Procs = {p1, p2, p3}
  Files = {f1, f2, f3, f4, f5}
  NoFile = NoFile
  MaxFd = 3
  Stdio = 1
  Forking = {p1, p2, p3}
  Stopping = {p1, p2}
  Trapping = {p1, p2}
  Races = FALSE
SYMMETRY FileSymmetry
INVARIANTS
  CountsExact
  ReaderKeepsFile
