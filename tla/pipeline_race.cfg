SPECIFICATION Spec
CONSTANTS
  None = None
  r1 = r1
  w1 = w1
  w2 = w2
  a1 = a1
  u1 = u1
  u2 = u2
  s1 = s1
  s2 = s2
  Run = {r1}
  Worker = {w1}
  ApiThread = {a1}
  Url = {u1}
  HashSeed = {s1, s2}
  SeedOf <- ForkedSeeds
  Canonical <- RawAndCanonical
  MaxExec = 2
  Limit <- OverlapAndDb
INVARIANTS
  CompletedHasArtifact
  ArtifactPathResolves
  CompletedByOneExecution
  StageOrder
  EventsMatchItems
PROPERTIES
  RefinesLifecycle
CHECK_DEADLOCK FALSE
