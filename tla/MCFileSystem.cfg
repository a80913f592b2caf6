SPECIFICATION MCSpec
CONSTANTS
  None = None
  lock = "lock"
  semaphore = "semaphore"
  Thread = {"t1", "t2"}
  Semaphore = {"semaphore"}
  Lock = {"lock"}
  Condition = {}
  NumTracks = 2
  SectorsPerTrack = 1
  SeekTime = 2
  RotationTime = 1
  Data = {0, 1}
  Zero = 0
  MaxTicks = 5
  MaxDelay = 1
  initialValue <- MCInitialValue
INVARIANTS DriverCorrect DiskIsPhysical SectorsAccounted 
PROPERTIES RequestsReturn ImplementsByteFile
CHECK_DEADLOCK FALSE
