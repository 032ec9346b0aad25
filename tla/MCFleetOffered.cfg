SPECIFICATION FairSpec
CONSTANTS
  r1 = r1
  r2 = r2
  t1 = t1
  t2 = t2
  Robots = {r1}
  Tasks = {t1, t2}
  NoRobot = NoRobot
  NoTask = NoTask
  Busy = Busy
  Unseen = Unseen
  NoDispatch = NoDispatch
  Pin <- NoPin
  MaxRetries = 0
  MaxCalls = 2
  MaxMail = 1
  Prompt = TRUE
  Faults = {}
PROPERTY Offered
CHECK_DEADLOCK FALSE
