SPECIFICATION FairSpec
CONSTANTS
  ctl = ctl
  app = app
  None = None
  Caller = {ctl}
  Worker = {w1, w2}
  Task = {k1, k2, k3}
  Expiring = {k2, k3}
  Calls <- ServiceCalls
  WorkerCounts = {}
  Timeouts = {"forever", "timed", "try"}
  SimpleWorkerCount = 2
  PendingTaskCountMax = 1
  SizeMax = 7
INVARIANTS NoWorkerSleepsInAdd TotalTaskCountCovers
PROPERTIES TasksServed
CHECK_DEADLOCK FALSE
