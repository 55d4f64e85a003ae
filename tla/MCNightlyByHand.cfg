SPECIFICATION Spec
CONSTANTS
  Papers = {1, 2}
  OnTopic = {1, 2}
  Cost <- MCUnitCost
  Kind <- MCPandocArxiv
  MaxPapers = 1
  MaxCost = 2
  Throttled = {}
  Illustrated = {1}
  MaxBatches = 2
  Automated = FALSE
  Publishing = TRUE
  Stray = FALSE
  Careless = FALSE
  MaxMishaps = 3
INVARIANTS CommittedStays DirtyOnlyAfterDeath
