SPECIFICATION FairISpec
CONSTANTS
  Robots = {1, 2}
  p1 = p1
  p2 = p2
  noPocket = noPocket
  Rank <- MCRank
  Pockets = {p1}
  NoPocket = noPocket
  Worlds <- FacingWorlds
  ConfirmAfter = 1
  PassAfter = 2
  IdleBlock = 1
  StallAfter = 1
  EscalateAfter = 1
  YieldTimeout = 2
  ReplanGrace = 1
  AltTimeout = 2
  DeadlockMax = 2
  Cooldown = 2
  MaxAttempts = 1
PROPERTY CyclesHandled
