SPECIFICATION Spec
CONSTANTS
  Parts = {"buddy", "zones", "slab", "single", "one", "caches", "mmap", "copy", "access", "asid"}
  Pages <- Block4
  MaxOrder = 3
  Cpu = {0, 1}
  Zone = {"NORMAL"}
  InitialZone <- Block4Zone
  Ranges <- Block4Ranges
  Reserved = {7}
  Batchsize <- Block4Batchsize
  HighFactor = 1
  MaxRefs = 2
  NoPage = NoPage
  CPUs = {"c1", "c2"}
  SlabPages = {1, 2}
  Objects = 2
  MinPartial = 1
  SlubNone = None
  CacheCPUs <- TwoCPUs
  NrCpuStructs = 7
  Requests <- SampleRequests
  MaxCaches = 2
  PointerSize = 8
  PageShift = 12
  CacheLine = 64
  MinAlign = 8
  KmallocMinSize = 128
  MinObjects = 4
  MaxSlabOrder = 1
  CachesMaxOrder = 11
  Page = 2
  Fan = 2
  NPages = 16
  StackSize = 2
  Initrd = 2
  Images <- TheImages
  Brks = {9, 12, 15, 18}
  Incs = {3}
  Prots <- TheProts
  MaxLost = 4
  NoVma = NoVma
  UserPage = 4
  Layouts <- TheLayouts
  Addrs = {3, 4, 5, 7, 8, 10, 11, 12, 15, 16, 19}
  Sizes = {1, 2, 3, 4, 5, 6, 7, 8, 9, 11, 12, 13, 16}
  Nuls <- TheNuls
  W = 4
  UserDS = 7
  AccessSizes = {1, 2, 4, 8}
  MappedSets <- TheMapped
  NumCpus = 2
  NumAsids = 4
  Mm = {"m1", "m2"}
  Kernel = "init_mm"
  Gone = "gone"
  MaxGeneration = 3
CHECK_DEADLOCK FALSE
INVARIANTS
  PagesSound
  SlabsSound
  UserMemorySound
  AsidsSound
