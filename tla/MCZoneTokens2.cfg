SPECIFICATION Spec
CONSTANTS
  Robots = {1, 2}
  MaxBypass = 1
  x = x
  c = c
  east = east
  west = west
  noDir = noDir
  notHeld = notHeld
  Zones <- MCZones
  SameDirection <- MCSameDirection
  Directions <- MCDirections
  NoDirection = noDir
  NotHeld = notHeld
  Aligned <- MCAligned
  Views <- AllViews
INVARIANTS Exclusive EnteredHeld
