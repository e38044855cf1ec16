SPECIFICATION MetricsSpec
CONSTANTS
  None = None
  r1 = r1
  w1 = w1
  w2 = w2
  a1 = a1
  u1 = u1
  u2 = u2
  s1 = s1
  s2 = s2
  Run = {r1}
  Worker = {w1, w2}
  ApiThread = {a1}
  Url = {u1, u2}
  HashSeed = {s1, s2}
  SeedOf <- SeparateSeeds
  Canonical <- RawAndCanonical
  MaxExec = 3
  Limit <- Faults
INVARIANTS
  TypeOK
  IInv
  AtMostOneExecution
  CompletedRecordWhole
  OneRowPerUrl
  
  
  
  SuccessesAddUp
CHECK_DEADLOCK FALSE
