SPECIFICATION Spec
CONSTANTS
  ShortBits = 4
  IntBits = 8
  WideBits = 10
  MantissaBits = 9
  None = None
  Named <- MCNamed
  Functions <- MCFunctions
  FunctionBlocks <- MCFunctionBlocks
  MaxIterations = 8
  MaxDepth = 3
  MaxStatementDepth = 3
  MaxExpressionDepth = 4
  Sources <- MCSources
  Inputs <- MCInputs
  InputValues <- MCInputValues
  Fuel = 24
  MaxScans = 2
  MaxRestarts = 1
INVARIANTS
  AcceptedProgramsDoNotGoWrong
  ConstantsFoldAsTheyRun
  ProgramsAgree
  EndlessIsReported
  TypesPredictValues
  RangesHold
CHECK_DEADLOCK FALSE
