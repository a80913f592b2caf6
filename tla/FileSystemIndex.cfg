SPECIFICATION Spec
CONSTANTS
  numBits = 14
  SectorSize = 1
  NumDirect = 2
  IndexEntries = 2
  CharBits = 8
  tableSize = 3
  NoName = NoName
  Names = {a, b}
  Data = {1, 2}
  Sizes = {4}
  Straddle = 1
  MaxOpen = 1
  MaxCrashes = 0
INVARIANT ReadsBack
