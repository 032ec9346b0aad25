SPECIFICATION TimedSpec
CONSTANTS
  r1 = r1
  r2 = r2
  t1 = t1
  t2 = t2
  Robots = {r1, r2}
  Tasks = {t1}
  NoRobot = NoRobot
  NoTask = NoTask
  Busy = Busy
  Unseen = Unseen
  NoDispatch = NoDispatch
  Pin <- NoPin
  MaxRetries = 1
  MaxCalls = 1
  MaxMail = 1
  Prompt = FALSE
  Faults = {"loss", "quiet"}
INVARIANTS QueueExact ReservationsAgree
PROPERTY ReservationEnds
CHECK_DEADLOCK FALSE
