SPECIFICATION Spec
CONSTANTS
  Keys = {"findings", "cmdb"}
  Protected = {"findings"}
  Admins = {ann, bob}
  Charts = {1}
  NormalizeKey <- MCNormalizeKey
  BuiltIn <- MCBuiltIn
  Existing <- MCExisting
  Creates <- MCCreates
  Updates <- MCUpdates
  Files <- MCFiles
  Mappings <- MCMappings
  Names = {"risks"}
  Charted <- MCCharted
  Watched = {"cmdb"}
  BatchSize = 1
  MaxOps = 2
  MaxFailures = 1
SYMMETRY MCSymmetry
INVARIANTS FieldsMatchColumns CatalogCoherent
PROPERTIES CleanRemoval OthersSpared ImportComplete
CHECK_DEADLOCK FALSE
