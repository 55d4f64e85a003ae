SPECIFICATION Spec
CONSTANTS
  Catalogue <- MCCatalogue
  ServerPage <- MCServerPage
  HalfDaysPerYear = 4
  Deadline = 6
  Timeout = 3
  Retries = 1
  Backoff = 1
  Overrun = 1
  Configs <- MCConfigs
  MaxSources = 2
  FirstRun = 5
  Horizon = 6
  MaxMishaps = 2
INVARIANTS TypeOK NoHoleInHistory BudgetKept DeadlineKept
PROPERTIES ImplementsCoverage RunEnds WindowsFinish BackfillCompletes
