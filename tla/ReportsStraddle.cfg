SPECIFICATION Spec
CONSTANTS
  FieldType <- MCFieldType
  Dimensions <- MCDimensions
  Fields <- MCFields
  Toggled = {"note"}
  Indexed = {"note"}
  Start <- MCStart
  Versions <- MCVersions
  Views <- MCTopThree
  Edits <- MCEdits
  Queries <- MCQueries
  MaxConditions = 5
  CountCap = 3
  EstimateAbove = 4
  Drift = 1
  ChunkSize = 2
  PdfRowLimit = 3
  MaxWrites = 1
  MaxCached = 1
INVARIANTS PagesTile
CHECK_DEADLOCK FALSE
