SPECIFICATION Spec
CONSTANTS
  Parts = {"irq"}
  CPU <- TwoCpus
  PhysOf <- Crossed
  NrSgi = 2
  NrPpi = 1
  NrSpi = 1
  Specs <- TwoSpecs
  SchedSoftirq = 2
  NoneMax = 1
  MaxRestart = 2
  MaxEvents = 3
  NohzCpu <- TwoCpus
  MaxTasks = 2
  Ticking = {0}
  Wakeable <- TwoCpus
  Cpus = {1, 2}
  Timers = {"tick1", "tick2", "t"}
  TickOf <- TickTimers
  Period = 2
  Offset = 1
  MaxDelta = 3
  HangMax = 2
  MaxTime = 3
  Requests <- TwoRequests
  Restarts = {TRUE, FALSE}
  NULL = "none"
  Tasks = {"a"}
  SleeperOf <- StackTimer
  Lengths = {1}
  Slack = 1
  Kinds = {"msleep", "usleep_range"}
  MaxWakes = 1
  MaxRuns = 3
INVARIANT
  RaisedSoftirqRuns
CHECK_DEADLOCK FALSE
