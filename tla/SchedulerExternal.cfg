SPECIFICATION Spec
CONSTANTS
  always = always  onEvent = onEvent  mixed = mixed
  lamp = lamp  valve = valve  go = go  level = level
  None = None
  Instance <- MCInstance
  Priority <- MCPriority
  Position <- MCPosition
  Requested <- MCRequested
  Trigger <- MCTrigger
  Direct <- MCDirect
  Binding <- MCBinding
  External <- MCExternal
  Located <- Nothing
  Location = {lamp}
  Global = {go, level}
  Writable = {level}
  Cycle = 2
  Hyper = 6
PROPERTIES GlobalsAreShared
CHECK_DEADLOCK FALSE
