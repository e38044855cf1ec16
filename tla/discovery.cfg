SPECIFICATION Spec
CONSTANTS
  Url = {u1, u2}
  Retries = 2
  MaxLines = 2
  MaxChildren = 2
  MaxNesting = 3
INVARIANTS
  ReturnsWhatWasOffered
  SpiderStandsAlone
  LlmsProvenanceStays
PROPERTIES
  RefinesCall
  Terminates
CHECK_DEADLOCK FALSE
