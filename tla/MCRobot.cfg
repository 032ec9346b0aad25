SPECIFICATION MCSpec
CONSTANTS
  AcceptWhileReturning = TRUE
  c1 = c1
  c2 = c2
  NoCharger = NoCharger
  Robots = {1, 2}
  Chargers = {c1, c2}
  Preference <- MCPreference
  MaxTime = 3
  Sources = {"estop", "fleet_estop"}
  MaxSamples <- MCMaxSamples
  Sights <- MCSights
  ReinitRetry = 2
  SpinRetry = 1
  ConvergeCount = 2
  MaxGoals = 2
INVARIANTS PayloadAtStep DockedToHandle ChargeUndisturbed ReadyWhenIdle OneRobotPerCharger DocksWhereDriven EstopKept StopPublished StandsForLow RecoveryGoesOn
PROPERTIES BegunTaskEnds Available MovesAgain AliasNeedsOutsidePose
