SPECIFICATION FairSpec
CONSTANTS
  Views = {"v1", "v2"}
  Datasets = {"s1", "s2"}
  Columns = {"a", "b"}
  FirstSort = "a"
  LastPage = 2
  Widgets = {"w1"}
  Drilled = "w1"
  Bars = {"p", "q"}
  Levels = 2
  Dimensions = {"x", "y"}
  FieldsOf <- Own
  Users = {"admin"}
  Boards <- TwoBoards
  MaxActs = 4
  MaxEdits = 2
  MaxCalls = 2
INVARIANTS LatestWins CrumbsDescribeChart
PROPERTY ScreensSettle
CHECK_DEADLOCK FALSE
