SPECIFICATION MCSpec
CONSTANTS
  ByteBits = 2
  NumGPRegs = 6
  MemorySize = 16
  numBits = 7
  TLBSize = 2
  numPages = 3
  imagePages = 1
  MaxHits = 1
INVARIANTS InstructionsExact TrapsAreInvisible ListingAgrees  FramesExact RunsWithOwnState LoadsWhatWasLinked
CHECK_DEADLOCK FALSE
