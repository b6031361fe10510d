SPECIFICATION Spec
CONSTANTS
  Charts = {c1}
  Specs = {s1, s2}
  Records = {}
  Drilling = {s1}
  PerViewer = {s1, s2}
  Layout <- OneLayout
  Overflows <- Fits
  Calls = {k1, k2}
  Builds = {b1, b2}
  MaxData = 1
  NotYet = NotYet
  Gone = Gone
  None = None
INVARIANTS TypeOK ScratchIsOwn
PROPERTIES SwapsOwnBuild StaysReadable
VIEW Deciding
SYMMETRY AnyCall
