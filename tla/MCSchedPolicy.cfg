SPECIFICATION Spec
CONSTANTS
  Parts = {"class", "clock", "boot", "rebuild", "place", "averages", "pull", "time", "latch", "source"}
  t1 = t1  t2 = t2  t3 = t3  u1 = u1  u2 = u2
  Task = {t1, t2, t3}
  Idle = Idle  None = None
  MAX_RT_PRIO = 3  NICE_0_PRIO = 4
  prio_to_weight <- TwoWeights
  WEIGHT_IDLEPRIO = 1  WeightBeyond = 1
  WMULT_SHIFT = 4
  TICK_NSEC = 2  RR_TIMESLICE = 2
  sysctl_sched_latency = 2  sysctl_sched_min_granularity = 1  sched_nr_latency = 2
  sysctl_sched_wakeup_granularity = 1
  Wrap = 64  MinStart = 3
  Deltas = {1}
  MaxClock = 6
  MaxOps = 2
  Services = {}
  Targets = {t1, t2, t3}
  Policies = {"NORMAL", "BATCH", "FIFO", "RR"}
  RtPriorities = {1, 2}
  Lags <- TwoLags
  NCpus = 3
  Late = {2}
  Repartition = FALSE
  Walkers = {0, 1, 2}
  Span = {0, 1, 2}
  PlaceWeights = {0, 1, 2}
  Chooses = TRUE
  NTasks = 3
  NrMigrate = 1
  Amounts = {4}
  BestPrios = {3, 5}
  TimeReaders = {"reader"}
  NsecPerSec = 3
  Modulus = 3  Mult = 3  Shift = 1
  FirstCycle = 3
  MaxCycles = 3
  TimesOfDay = {7}
  MaxUpdates = 2
  Width = 5
  CounterMasks = {7, 15, 31, 63, 127, 255, 511, 1023}
  Freqs = {1, 2, 3, 4, 5, 6, 7, 8, 9, 10, 11, 13, 17, 23, 31}
  LongSleep = 6
  Sources = {"a", "b", "c"}
  HresOnes = {"a", "b"}
  Ratings = {1, 2}
  NoSource = "none"
SYMMETRY TaskSymmetry
INVARIANTS
  RunqueueExact
  DomainsRight
PROPERTIES
  BalancesRight
  TurnsAreFair
  ClocksSound
CHECK_DEADLOCK FALSE
