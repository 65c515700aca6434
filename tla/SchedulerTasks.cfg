SPECIFICATION Spec
CONSTANTS
  always = always  onEvent = onEvent  mixed = mixed
  lamp = lamp  valve = valve  go = go  level = level
  None = None
  Instance <- MCInstance
  Priority <- MCPriority
  Position <- MCPosition
  Requested <- MCRequested
  Trigger <- MCTrigger
  Direct <- MCDirect
  Binding <- MCBinding
  External <- Nothing
  Located <- Nothing
  Location = {lamp}
  Global = {go}
  Writable = {go, lamp}
  Cycle = 2
  Hyper = 6
INVARIANTS NoPeriodicRunIsMissed
PROPERTIES LocationsAreShared OneRunPerRise PeriodicRunsKeepTheirRate UrgentProgramsRunFirst
CHECK_DEADLOCK FALSE
