SPECIFICATION Spec
CONSTANTS
  always = always  onEvent = onEvent  mixed = mixed
  lamp = lamp  valve = valve  go = go  level = level
  None = None
  Instance <- MCInstance
  Priority <- MCPriority
  Position <- MCPosition
  Requested <- MCRequested
  Trigger <- MCTrigger
  Direct <- MCDirect
  Binding <- MCBinding
  External <- Nothing
  Located <- MCLocated
  Location = {lamp, valve}
  Global = {go}
  Writable = {}
  Cycle = 2
  Hyper = 6
PROPERTIES LocatedOutputsArePublished
CHECK_DEADLOCK FALSE
