SPECIFICATION FairSpec
CONSTANTS
  ctl = ctl
  app = app
  None = None
  Caller = {ctl, app}
  Worker = {w1, w2}
  Task = {k1, k2}
  Expiring = {k2}
  Calls <- LifecycleCalls
  WorkerCounts = {1, 2}
  Timeouts = {"forever", "timed"}
  SimpleWorkerCount = 1
  PendingTaskCountMax = 1
  SizeMax = 7
PROPERTIES ReturnedWhileStarted
CHECK_DEADLOCK FALSE
