SPECIFICATION MCSpec
CONSTANTS
  Robots = {1, 2}
  MaxBypass = 1
  x = x
  c = c
  noDir = noDir
  notHeld = notHeld
  Zones <- MCZones
  SameDirection <- MCSameDirection
  Directions = {}
  NoDirection = noDir
  NotHeld = notHeld
  Aligned = {}
  Views <- MCViews
  Chains <- MCChains
  Priority <- MCPriority
  Silence = "any"
INVARIANT BodiesApart
CHECK_DEADLOCK FALSE
