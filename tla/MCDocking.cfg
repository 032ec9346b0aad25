SPECIFICATION MCSpec
CONSTANTS
  DockAttempts = 2
  MaxSends = 3
  MaxHolds = 1
  MaxHalts = 1
  m1 = m1
  m2 = m2
  Markers = {m1, m2}
  NoMarker = NoMarker
  MaxAttempts = 2
  SettleFrames = 2
  FreshSteps = 1
  MarkerTimeout = 2
  SearchTimeout = 2
  BackupSteps = 2
  AttemptTimeout = 5
  IdMaxAge = 0
  SightTimeout = 1
  QueueDepth = 1
INVARIANTS NoOrphan DockedByLast ApproachesBounded BySight OwnMarker
PROPERTIES MCDockAtEnds MCDockingEnds
