SPECIFICATION Spec
CONSTANTS
  Main = Main
  t1 = t1
  t2 = t2
  s1 = s1
  l1 = l1
  c1 = c1
  None = None
  Thread <- MCThread
  maxThreadsCount = 3
  SCHED_PRIORITY = FALSE
  Pri = {6}
  Garbage = {0}
  Semaphore = {s1}
  Lock = {l1}
  Condition = {c1}
  initialValue <- MCInitialValue
  MaxValue = 2
INVARIANT WokenFindsValue
