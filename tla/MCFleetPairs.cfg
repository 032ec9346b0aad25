SPECIFICATION FSpec
CONSTANTS
  r1 = r1
  r2 = r2
  t1 = t1
  t2 = t2
  Robots = {r1, r2}
  Tasks = {t1, t2}
  NoRobot = NoRobot
  NoTask = NoTask
  Busy = Busy
  Unseen = Unseen
  NoDispatch = NoDispatch
  Pin <- OnePin
  MaxRetries = 0
  MaxCalls = 1
  MaxMail = 2
  Prompt = TRUE
  Faults = {"loss", "busy"}
INVARIANTS OneTaskPerRobot
CHECK_DEADLOCK FALSE
