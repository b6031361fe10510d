SPECIFICATION FairSpec
CONSTANTS
  Datasets = {d1}
  Ids = {i1, i2}
  Watermarked = {d1}
  ReloadName <- OwnReload
  StampOf <- TwoPerStamp
  ChunkRows = 2
  NoTable = NoTable
  MaxClock = 2
  MaxStray = 0
PROPERTY RunEnds
