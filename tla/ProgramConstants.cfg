SPECIFICATION Spec
CONSTANTS
  ShortBits = 4
  IntBits = 8
  WideBits = 10
  MantissaBits = 9
  None = None
  Named <- MCNamed
  Functions <- MCFunctions
  FunctionBlocks <- MCFunctionBlocks
  MaxIterations = 8
  MaxDepth = 3
  MaxStatementDepth = 3
  MaxExpressionDepth = 4
  Sources <- MCConstantSources
  Inputs <- MCInputs
  InputValues <- MCInputValues
  Fuel = 12
  MaxScans = 2
  MaxRestarts = 1
PROPERTIES ConstantsKeepTheirValues
CHECK_DEADLOCK FALSE
