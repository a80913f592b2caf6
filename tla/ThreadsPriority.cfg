SPECIFICATION ThreadsSpec
CONSTANTS
  Main = Main
  None = None
  Thread = {Main, t1, t2, t3}
  maxThreadsCount = 4
  SCHED_PRIORITY = TRUE
  Pri = {1, 6, 20}
  Garbage = {0, 6, 42}
INVARIANT ReadyListSorted
PROPERTY NoPriorityInversionAtSwitch
