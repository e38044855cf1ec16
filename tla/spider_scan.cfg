SPECIFICATION Spec
CONSTANTS
  Page = {p0, p1, p2, p3, p4}
  Seed = p0
  MaxDepth = 2
  MaxScan = 4
  MaxIndex = 2
INVARIANTS
  DepthIsDistance
  InlinksCountPages
  ScanIsComplete
  BestAreIndexed
PROPERTIES
  EveryTurnCounts
SYMMETRY OtherPages
CHECK_DEADLOCK FALSE
