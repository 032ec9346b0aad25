SPECIFICATION MCSpec
CONSTANTS
  Robots = {1, 2, 3}
  MaxBypass = 1
  x = x
  c = c
  noDir = noDir
  notHeld = notHeld
  Zones <- MCZones
  SameDirection <- MCSameDirection
  Directions = {}
  NoDirection = noDir
  NotHeld = notHeld
  Aligned = {}
  Views <- MCViews
  Chains <- MCChains
  Priority <- MCPriority
  Silence = "none"
INVARIANT DocumentedOvertakeBound
CHECK_DEADLOCK FALSE
