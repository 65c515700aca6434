SPECIFICATION FairSpec
CONSTANTS
  count = count  label = label  twin = twin
  f1 = f1  f2 = f2
  a = a  b = b  aNewline = aNewline  empty = empty
  motor = motor  scratch = scratch
  None = None
  Target <- MCTarget
  File <- MCFile
  FileOf <- MCFileOf
  Text <- MCText
  EmptyText = empty
  Trim <- MCTrim
  RequireOperatorEnable = TRUE
  Features <- GateOnly
  Timeout = 1
  MaxCycles = 2
  InputSet <- SafetyInputs
  Retained <- NoTargets
  InitialValue <- Unset
  Symbol <- MCSymbol
  DirectionOf <- MCDirectionOf
  StateAccess <- NoTargets
  IoAccess <- MCSymbol
  StateInput <- On
  IoInput <- OnOff
INVARIANTS ReportedExpiryIsTripped OverrunIsReported
PROPERTIES ImplementsInterlock StopBlocksFromNextBoundary StarvedBoundaryTrips StarvedOutputsStayOff
