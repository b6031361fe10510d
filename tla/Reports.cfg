SPECIFICATION Spec
CONSTANTS
  FieldType <- MCFieldType
  Dimensions <- MCDimensions
  Fields <- MCFields
  Toggled = {"note"}
  Indexed = {"note"}
  Start <- MCStart
  Versions <- MCVersions
  Views <- MCViews
  Edits <- MCEdits
  Queries <- MCQueries
  MaxConditions = 5
  CountCap = 3
  EstimateAbove = 4
  Drift = 1
  ChunkSize = 2
  PdfRowLimit = 3
  MaxWrites = 2
  MaxCached = 1
INVARIANTS OnlyNarrows PagesTile ExportOnce CacheCoherent
CHECK_DEADLOCK FALSE
