SPECIFICATION Spec
CONSTANTS
  both = both  points = points  fileOnly = fileOnly
  lamp = lamp  level = level  valve = valve  alias = alias
  NoValue = NoValue
  ByteBits = 1
  Mapping <- MCMapping
  Files <- MCFiles
  Points <- MCPoints
  PathOf <- MCPathOf
  Typed <- MCTyped
  Parts <- MCParts
  Simulate = {TRUE, FALSE}
  MaxRequests = 3
INVARIANTS SessionIsWhole DeployIsWhole AcknowledgedWriteIsReadBack DisplayIsTrueOrOutdated
CHECK_DEADLOCK FALSE
