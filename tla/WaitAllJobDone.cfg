SPECIFICATION FairSpec
CONSTANTS
  Client = {c1}
  Job = {j1, j2}
  Throwing = {}
  Unreadable = {}
  SectionCount = 1
  NumWorkers = 2
  PendingJobMaxCount = 2
  SizeMax = 7
PROPERTIES WaitAllReturns
CHECK_DEADLOCK FALSE
