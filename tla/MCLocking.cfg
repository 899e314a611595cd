SPECIFICATION Spec
CONSTANTS
  Parts = {"mutex", "spin", "call", "cross"}
  t1 = t1
  t2 = t2
  t3 = t3
  Thread = {t1, t2, t3}
  Interruptible = {t3}
  NoThread = NoThread
  c1 = c1
  c2 = c2
  c3 = c3
  CPU = {c1, c2, c3}
  None = None
  NumCpus = 3
  Callers = {0, 1}
  Masks = {{1, 2}}
  Nil = Nil
INVARIANTS
  MutualExclusion
  NoStrandedWaiter
  SpinExclusion
  SuccessorExists
  CallsRunOnce
PROPERTIES
  WaitsEnd
