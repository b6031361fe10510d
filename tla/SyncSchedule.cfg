SPECIFICATION ScheduleSpec
CONSTANTS
  Keys <- MCKeys
  Stuck <- MCStuck
  Loops = {"timer", "next"}
  MaxFaults = 1
  MaxChanges = 1
INVARIANTS OneRunPerDataset StatusTrue
PROPERTIES PipesServed CancelEnds
CHECK_DEADLOCK FALSE
