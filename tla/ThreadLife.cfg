SPECIFICATION SyncSpec
CONSTANTS
  starter = starter
  joiner = joiner
  Main = Main
  None = None
  Owner = {starter, joiner, other}
  Calls <- MCCalls
  Policies = {"OTHER", "FIFO", "ROUND_ROBIN"}
  Priorities = {0, 6, 8}
INVARIANTS NativePriorityValid JoinAwaitsRun ReclaimedOnce TaskLeftMonitor
PROPERTIES StartedRuns SyncStartReturns JoinReturns
CHECK_DEADLOCK FALSE
