SPECIFICATION Spec
CONSTANTS
  Papers = {1, 2, 3, 4}
  Format <- MCFastFormats
  Kind <- MCFastKinds
  ArxivIds = {1}
  Fast = TRUE
  Refusing = {"press"}
  Throttled = {2, 3, 4}
  Hosts <- MCHosts
  Renderings <- MCRenderings
  InputHost <- MCInputHost
  Hops <- MCHops
  Attempts <- MCAttempts
  Paced <- MCPaced
  Slots <- MCSlots
  MaxFigures = 1
CHECK_DEADLOCK FALSE
PROPERTIES ImplementsConvertBatch RefusersLeftAlone BatchEnds
