SPECIFICATION Spec
CONSTANTS
  ShortBits = 4
  IntBits = 8
  WideBits = 10
  MantissaBits = 9
  None = None
  Named <- MCNamed
  Functions <- MCFunctions
  FunctionBlocks <- MCFunctionBlocks
  MaxIterations = 8
  MaxDepth = 3
  MaxStatementDepth = 3
  MaxExpressionDepth = 4
  ProgramTypes <- MCProgramTypes
  Locations <- MCLocations
  CycleTime = 1
  Sources <- MCSources
  WriteNames <- MCWriteNames
  WriteValues <- MCWriteValues
  MaxWrites = 2
  MaxCycles = 3
INVARIANTS
  AcceptedConfigurationsRun
  PlacesMatchTheirTypes
  GlobalsStartAlike
PROPERTIES
  WritesReachTheirTarget
CHECK_DEADLOCK FALSE
