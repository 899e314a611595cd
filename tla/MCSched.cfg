SPECIFICATION MCSpec
CONSTANTS
  Parts = {"balance", "affinity", "masks", "exec"}
  t1 = t1
  t2 = t2
  m0 = m0
  m1 = m1
  i0 = i0
  i1 = i1
  CPU <- TwoCpus
  Thread <- AllThreads
  migrator <- TheMigrators
  idle <- TheIdlers
  prio <- Prios
  MAX_RT_PRIO = 100
  Boot = 0
  MigCpu <- Home
  Execs = {}
  Masks = {}
  Setters = {}
  Targets = {}
  Pushers = {1}
  Sleeps = {"U"}
  NoCpu = NoCpu
  NoThread = NoThread
INVARIANTS
  OneCpu
  QueuedWhereItSays
  HandshakesSound
PROPERTIES
  ExecComesBack
CHECK_DEADLOCK FALSE
