SPECIFICATION Spec
CONSTANTS
  Cycle = 2
  Condition <- MCCondition
  Missing = "never"
  Truth <- MCTruth
  Amounts <- MCAmounts
  Reads <- MCReads
  Value <- MCValue
  Presets = {0, 2, 5}
  Horizon = 8
  Limit = 6
INVARIANTS BlocksAgree DelaysKeepTime CountersCountRises
PROPERTIES PulsesHaveOneLength
