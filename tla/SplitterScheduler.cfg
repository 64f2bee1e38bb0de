SPECIFICATION Spec
CONSTANTS
  Client = {c1}
  Job = {j1, j2, j3}
  Throwing = {j3}
  Unreadable = {j2}
  SectionCount = 2
  NumWorkers = 2
  PendingJobMaxCount = 2
  SizeMax = 7
INVARIANTS TypeOK WaitedJobsDone NoNullObserver
CHECK_DEADLOCK FALSE
