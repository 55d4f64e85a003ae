SPECIFICATION Spec
CONSTANTS
  Papers = {1, 2}
  OnTopic = {1, 2}
  Cost <- MCUnitCost
  Kind <- MCPandocArxiv
  MaxPapers = 1
  MaxCost = 2
  Throttled = {}
  Illustrated = {}
  MaxBatches = 2
  Automated = FALSE
  Publishing = TRUE
  Stray = TRUE
  Careless = FALSE
  MaxMishaps = 2
INVARIANT CommittedStays
