SPECIFICATION Spec
CONSTANTS
  Papers = {1, 2, 3}
  OnTopic = {1, 2}
  Cost <- MCUnitCost
  Kind <- MCThreeKinds
  MaxPapers = 2
  MaxCost = 2
  Throttled = {}
  Illustrated = {1}
  MaxBatches = 2
  Automated = TRUE
  Publishing = TRUE
  Stray = FALSE
  Careless = FALSE
  MaxMishaps = 2
INVARIANTS TypeOK CommitsConsistent FailedRunIsClean OneStrikePerRun MarkerIsEarned IndexDescribesBatch
PROPERTIES ImplementsCorpus DispatchFollowsProgress
