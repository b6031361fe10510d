SPECIFICATION Spec
CONSTANTS
  FieldType <- MCFieldType
  Dimensions <- MCDimensions
  Measures <- MCMeasures
  Tables <- MCTables
  Questions <- MCQuestions
  MaxConditions = 5
  ChartTopGroups = 2
  MaxExportRecords = 3
  DefaultLimit = 3
  MaxLimit = 3
  MaxGroupLevels = 3
  MaxSeriesLevels = 1
  MaxDrillLevels = 2
  SampleFrom = 4
  Scale = 2
INVARIANTS ScopeHonoured LevelsAgree PreviewHonest
PROPERTIES BarsPartition RecordsBehindBar
CHECK_DEADLOCK FALSE
