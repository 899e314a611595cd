SPECIFICATION Spec
CONSTANTS
  Parts = {"edit", "open", "sw", "overlay", "lookup", "graph", "address", "irq", "live", "map", "intc"}
  BaseOf <- NameBases
  NameLen <- NameLengths
  PHANDLE <- Ph
  LINUX_PHANDLE <- LxPh
  COMPATIBLE <- Compat
  ADDRESS_CELLS <- AddrCells
  SIZE_CELLS <- SzCells
  ALIASES = "aliases"
  MaxU32 = 4095
  MaxPhandle = 9
  U32Mod = 64
  AliasOf <- AliasTable
  InitialBlobs <- EditBlobs
  NodeNames = {"a", "bus00"}
  PropNames <- EditNames
  Values <- EditValues
  RsvEntries <- EditRsv
  BufSizes = {124}
  MaxNodes = 3
  MaxRsv = 1
  MaxValue = 7
  MaxCalls = 0
  Blobs <- LookupBlobs
  FDT_MAX_DEPTH = 6
  SizeofNode = 16
  SizeofProp = 8
  WordAlign = 8
  Detached = FALSE
  Lists <- TheLists
  CellsName <- ClockCells
  Compats = {"a", "b", "c"}
  Tables <- MatchTables
  Stems = {"serial", "other"}
  Cpus = {0, 1, 2, 3}
  AliasPaths <- PathsByAlias
  IntProps <- IntSizes
  StrProps <- TheTexts
  Asked = {"r", "s", "t"}
  Indices = {0, 1, 2, 3, 4, 5}
  LiveProps <- FiveProps
  NameOf <- TwoNames
INVARIANTS
  BlobsSound
  QueriesAnswered
  BootScansRight
CHECK_DEADLOCK FALSE
