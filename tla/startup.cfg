SPECIFICATION FairSpec
CONSTANTS
  p1 = p1
  p2 = p2
  p3 = p3
  Process = {p1, p2, p3}
  LastTable = 3
  MaxStarts = 4
  MaxLost = 1
INVARIANTS
  NoTableLeftBehind
  DeadMeansCreated
PROPERTIES
  TablesAppear
CHECK_DEADLOCK FALSE
