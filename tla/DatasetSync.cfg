SPECIFICATION Spec
CONSTANTS
  Datasets = {d1}
  Ids = {i1, i2}
  Watermarked = {d1}
  ReloadName <- OwnReload
  StampOf <- TwoPerStamp
  ChunkRows = 1
  NoTable = NoTable
  MaxClock = 3
  MaxStray = 1
INVARIANTS TypeOK Covered OkMeansComplete AllSound
PROPERTIES TruncateIsAtomic NoRegression KeepsContract
CONSTRAINT NoStrayYet
VIEW ReadBack
SYMMETRY AnyId
