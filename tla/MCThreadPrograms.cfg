SPECIFICATION MCSpec
CONSTANTS
  Producers = {"p1", "p2"}
  Customers = {"c1", "c2"}
  Thread = {"p1", "p2", "c1", "c2"}
  None = None
  empty = "empty"
  mutex = "mutex"
  full = "full"
  Semaphore = {"empty", "mutex", "full"}
  Lock = {}
  Condition = {}
  N = 2
  initialValue <- MCInitialValue
  BarrierThread = {"t1", "t2", "t3", "t4", "t5"}
  Readers = {"r1", "r2", "r3"}
  Writers = {"w1", "w2"}
  Appenders = {"a1", "a2"}
  Removers = {"r1", "r2"}
  Mappers = {"m1"}
  MaxItems = 4
INVARIANTS BufferCorrect NobodyStranded MeetingsAreSafe SwitchIsTransparent
PROPERTIES EveryoneProgresses ImplementsBlockingQueue ImplementsListSpec
