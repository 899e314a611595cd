SPECIFICATION Spec
CONSTANTS
  Parts = {"cpus", "late", "signals", "fork", "pids", "memblock"}
  NrCpus = 3
  Trees <- AllTrees
  BootHw = 10
  Invalid = 99
  NoMethod = {13}
  Late = FALSE
  Stoppers = 2
  StopFrom = {"panic", "done"}
  Nil = Nil
  Task = {1, 2, 3, 4, 5}
  Root = 1
  Forkers = {1, 2}
  Sleepers = {}
  Exiters = {4}
  Disp <- DispAll
  Chld = 17
  Codes = {0}
  Fatal = {}
  Short = TRUE
  MaxSend = 0
  MaxPid = 4
  None = None
  AddrMax = 4
  PageSize = 1
  Sizes = {1, 2}
  Aligns = {1, 2}
  MaxRegions = 4
  Flags = {"NOMAP"}
  Bounds = {0, 2}
  NoMem = NoMem
INVARIANTS
  SecondariesSound
  PidsSound
PROPERTIES
  BootCompletes
  TablesMean
CHECK_DEADLOCK FALSE
