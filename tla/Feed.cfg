SPECIFICATION FairSpec
CONSTANTS
  ctl = ctl
  app = app
  None = None
  Caller = {ctl, app}
  Worker = {w1}
  Task = {k1, k2, k3, k4}
  Expiring = {k2, k3}
  Calls <- FeedCalls
  WorkerCounts = {}
  Timeouts = {"forever", "timed", "try"}
  SimpleWorkerCount = 1
  PendingTaskCountMax = 2
  SizeMax = 7
INVARIANTS QueueBounded ExpiredCountedOnce
PROPERTIES BlockedAddReturns DueTasksNeverStart ImplementsTaskPool
CHECK_DEADLOCK FALSE
