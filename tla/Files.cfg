SPECIFICATION MCSpec
CONSTANTS
  Handles = {h1, h2}
  Bytes = {0, 1}
  Zero = 0
  MaxSize = 3
  Lengths = {0, 1, 2}
  MaxSeek = 4
  Users = {t1, t2}
  PathNames = {"a", "b"}
  Known = {"dev"}
  PathLength = 3
  MaxNodes = 10
  MaxMounts = 4
  MaxEntries = 3
  Filesystems = {"tmpfs"}
  Over = {"empty"}
  Align = 4
  Header = 2
  Members = {"file", "TRAILER!!!"}
  Trailers = {"TRAILER!!!"}
  Sizes = {0, 3}
  MaxMembers = 3
  Padding = 2
  Width = 3
  Height = 2
  Bpp = 2
  Line = 4
  FbFiles = {fb}
  Viewers = {v1, v2}
  Buffers <- MCBuffers
  Images <- MCImages
  Seeks = {3, 11}
  Writes = 2
  Procs = {p1, p2}
  Shell = Shell
  Idle = Idle
  NoThread = NoThread
  Sigs = {1}
  Room = 11
  Areas = {"mmap"}
  ForkInHandler = FALSE
SYMMETRY MCSymmetry
INVARIANTS
  PathsAsOneTree
  FilesAsArchived
  ScreenCurrent
  MemorySound
PROPERTIES
  IsByteFile
