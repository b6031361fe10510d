SPECIFICATION Spec
CONSTANTS
  Datasets = {d1}
  Ids = {i1}
  Watermarked = {d1}
  ReloadName <- OwnReload
  StampOf <- EachItsOwnStamp
  ChunkRows = 1
  NoTable = NoTable
  MaxClock = 2
  MaxStray = 1
INVARIANT RerunIsSafe
