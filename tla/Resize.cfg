SPECIFICATION Spec
CONSTANTS
  ctl = ctl
  app = app
  None = None
  Caller = {ctl, app}
  Worker = {w1, w2}
  Task = {k1}
  Expiring = {}
  Calls <- ResizeCalls
  WorkerCounts = {1, 2}
  Timeouts = {"forever"}
  SimpleWorkerCount = 2
  PendingTaskCountMax = 1
  SizeMax = 7
INVARIANTS TypeOK IdleCountExact LiveWorkersRegistered
CHECK_DEADLOCK FALSE
