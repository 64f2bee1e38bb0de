SPECIFICATION LoadSpec
CONSTANTS
  ctl = ctl
  None = None
  Caller = {ctl}
  Worker = {w1, w2, w3}
  Task = {k1, k2, k3, k4}
  Expiring = {}
  Calls <- TestCalls
  WorkerCounts = {}
  Timeouts = {"forever"}
  SimpleWorkerCount = 3
  PendingTaskCountMax = 0
  SizeMax = 7
INVARIANTS LoadTestSeesAll LoadTestRanAll
PROPERTIES LoadTestReturns
CHECK_DEADLOCK FALSE
