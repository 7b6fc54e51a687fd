SPECIFICATION FairSpec
CONSTANTS
  Goroutines = {1, 2}
  Scale = 2
  MaxDelay = 3
  InitialCount = 4
  MaxAttempts = 2
  Ages = {0, 1, 2, 10}
  MaxBurst = 2
  MaxThrottles = 2
INVARIANTS
  DelayBounded
  FirstErrorGentle
PROPERTIES
  DelaysEnd
CHECK_DEADLOCK FALSE
