SPECIFICATION Spec
CONSTANTS
  ByteBits = 2
  None = None
  NoValue = None
  Blocks <- MCBlocks
  Locations <- MCLocations
  Named <- MCNamed
  Area <- MCArea
  Results <- MCResults
  RangeOf <- MCRangeOf
  Lines <- MCLines
  Rival <- MCRival
  Inputs <- MCInputs
  InitialOutputs <- MCOutputs
  HookTables <- MCHookTables
  MaxScans = 2
  MaxWork = 1
INVARIANTS OutputsShowTheScan OtherBytesAreKept AdaptersAgree
PROPERTIES LoadedLikeWarmRestart
CHECK_DEADLOCK FALSE
