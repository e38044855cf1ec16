SPECIFICATION Spec
CONSTANTS
  t1 = t1
  t2 = t2
  h1 = h1
  h2 = h2
  Thread = {t1, t2}
  Host = {h1, h2}
  Delay = 2
  MaxTime = 6
  MaxStarts = 2
SYMMETRY Symmetry
INVARIANTS
  SequentialCallsAreSpaced
CHECK_DEADLOCK FALSE
