SPECIFICATION ThreadsSpec
CONSTANTS
  Main = Main
  None = None
  Thread = {Main, t1, t2, t3}
  maxThreadsCount = 4
  SCHED_PRIORITY = FALSE
  Pri = {1, 20}
  Garbage = {0, 42}
INVARIANT PriorityInRange
