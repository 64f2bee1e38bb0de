SPECIFICATION Spec
CONSTANTS
  NS_PER_S = 96
  US_PER_S = 24
  MS_PER_S = 4
  IntMax = 7
  MaxClock = 392
  Timeouts = {1, 4, 9}
INVARIANTS DeadlineNearest RoundTrip WaitsMeasured
PROPERTIES TimeMonotone
CHECK_DEADLOCK FALSE
