SPECIFICATION StageSpec
CONSTANTS
  u1 = u1
  u2 = u2
  i1 = i1
  m1 = m1
  m2 = m2
  Url = {u1, u2}
  Retries = 2
  Item = {i1}
  Microsecond = {m1, m2}
INVARIANTS
  PagesMatchTrail
  TrailIsPath
  RowTellsOutcome
PROPERTIES
  StageEnds
CHECK_DEADLOCK FALSE
