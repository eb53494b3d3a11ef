SPECIFICATION Spec
CONSTANTS
  e1 = e1
  e2 = e2
  Execs = {e1, e2}
  NoExec = NoExec
  Modes = {"cron", "event", "email"}
  Repeats = {"limited"}
  MaxRuns = 2
  HasScript = TRUE
  MaxRetries = 1
  MaxEvents = 2
  MaxQueue = 1
  MaxFireAttempts = 2
  MaxCalls = 2
SYMMETRY ExecSymmetry
INVARIANTS
  TypeOK
  OneRunAtATime
  RunningRowHasARun
  EntriesReachTheRun
  CancelIsHonoured
  CronFollowsStatus
  EventsAreKept
  EventsInOrder
CHECK_DEADLOCK FALSE
