SPECIFICATION Spec
CONSTANTS
  Catalogue <- MCCatalogue
  ServerPage <- MCServerPage
  HalfDaysPerYear = 4
  Deadline = 6
  Timeout = 3
  Retries = 1
  Backoff = 1
  Overrun = 1
  Configs <- MCShrinkingPages
  MaxSources = 2
  FirstRun = 5
  Horizon = 6
  MaxMishaps = 2
INVARIANT NothingSkipped
