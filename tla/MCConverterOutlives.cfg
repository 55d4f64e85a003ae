SPECIFICATION Spec
CONSTANTS
  Papers = {1, 2}
  Format <- MCAllPdf
  Kind <- MCArxivPdf
  ArxivIds = {1}
  Fast = FALSE
  Refusing = {}
  Throttled = {}
  Hosts <- MCHosts
  Renderings <- MCRenderings
  InputHost <- MCInputHost
  Hops <- MCHops
  Attempts <- MCAttempts
  Paced <- MCPaced
  Slots <- MCSlots
  MaxFigures = 1
CHECK_DEADLOCK FALSE
INVARIANTS NoConverterOutlivesBatch
