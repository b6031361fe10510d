SPECIFICATION FairSpec
CONSTANTS
  Charts = {c1}
  Specs = {s1, s2}
  Records = {}
  Drilling = {s1}
  PerViewer = {s1}
  Layout <- OneLayout
  Overflows <- Grows
  Calls = {k1}
  Builds = {b1}
  MaxData = 1
  NotYet = NotYet
  Gone = Gone
  None = None
PROPERTIES BuildEnds RequestEnds
