SPECIFICATION Spec
CONSTANTS
  Papers = {1, 2, 3}
  OnTopic = {1, 2, 3}
  Cost <- MCUnitCost
  Kind <- MCThreeKinds
  MaxPapers = 1
  MaxCost = 2
  Throttled = {1}
  Illustrated = {}
  MaxBatches = 1
  Automated = TRUE
  Publishing = TRUE
  Stray = FALSE
  Careless = TRUE
  MaxMishaps = 1
PROPERTIES RunEnds ChainEnds NoPaperStarves IndexCatchesUp
