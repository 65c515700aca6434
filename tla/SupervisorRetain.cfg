SPECIFICATION Spec
CONSTANTS
  count = count  label = label  twin = twin
  f1 = f1  f2 = f2
  a = a  b = b  aNewline = aNewline  empty = empty
  motor = motor  scratch = scratch
  None = None
  Target <- MCTarget
  File <- MCFile
  FileOf <- MCFileOf
  Text <- MCText
  EmptyText = empty
  Trim <- MCTrim
  RequireOperatorEnable = TRUE
  Features <- StoreOnly
  Timeout = 0
  MaxCycles = 2
  InputSet <- NoInputs
  Retained <- MCTarget
  InitialValue <- RetainInitial
  Symbol <- MCSymbol
  DirectionOf <- MCDirectionOf
  StateAccess <- ClashWritten
  IoAccess <- NoTargets
  StateInput <- RetainInput
  IoInput <- On
INVARIANTS AckedIsDurable
PROPERTIES RestartRecoversLastReport
