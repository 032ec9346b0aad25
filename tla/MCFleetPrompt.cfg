SPECIFICATION FSpec
CONSTANTS
  r1 = r1
  r2 = r2
  t1 = t1
  t2 = t2
  Robots = {r1, r2}
  Tasks = {t1}
  NoRobot = NoRobot
  NoTask = NoTask
  Busy = Busy
  Unseen = Unseen
  NoDispatch = NoDispatch
  Pin <- NoPin
  MaxRetries = 1
  MaxCalls = 2
  MaxMail = 2
  Prompt = TRUE
  Faults = {"loss", "slow", "busy", "crash"}
INVARIANTS SingleExecution
PROPERTY LifecycleSpec
SYMMETRY RobotSymmetry
CHECK_DEADLOCK FALSE
