SPECIFICATION BlockSpec
CONSTANTS
  ctl = ctl
  None = None
  Caller = {ctl}
  Worker = {w1}
  Task = {k0, k1, x1, x2, x3}
  Group0 = {k0}
  Group1 = {k1}
  extra1 = x1
  extra2 = x2
  extra3 = x3
  Expiring = {}
  Calls <- TestCalls
  WorkerCounts = {}
  Timeouts = {"forever", "timed", "try"}
  SimpleWorkerCount = 1
  PendingTaskCountMax = 1
  SizeMax = 7
PROPERTIES BlockTaskTestReturns
CHECK_DEADLOCK FALSE
