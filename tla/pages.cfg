SPECIFICATION Spec
CONSTANTS
  Sites <- FormsAndSections
  PageHead <- Heads
  MaxExec = 2
  Copies = {1, 40, 400, 700, 1600, 3200}
INVARIANTS
  
  ScoreMatchesDocument
  EveryLossShows

  
CHECK_DEADLOCK FALSE
