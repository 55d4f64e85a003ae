SPECIFICATION Spec
CONSTANTS
  Papers = {1, 2, 3}
  Format <- MCAllPdf
  Kind <- MCArxivPdf
  ArxivIds = {1}
  Fast = FALSE
  Refusing = {}
  Throttled = {}
  Hosts <- MCDoiHosts
  Renderings <- MCRenderings
  InputHost <- MCDoiInputHost
  Hops <- MCHops
  Attempts <- MCAttempts
  Paced <- MCPaced
  Slots <- MCSlots
  MaxFigures = 1
CHECK_DEADLOCK FALSE
INVARIANTS TypeOK EachReportedOnce NothingRunsOn ConvertersBounded
