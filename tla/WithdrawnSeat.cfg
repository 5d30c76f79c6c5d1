SPECIFICATION FairSpec
CONSTANTS
  Apps = {1}
  Sessions = {s1, s2}
  Workers = {w1}
  MaxVersions = 2
  Capacities = {1}
  Validities = {1}
  MaxTime = 1
  MaxCapVersion = 2
  MaxAttempts = 2
  MaxFaults = 0
\* requests stop at the bounds: every application decided, time over
CHECK_DEADLOCK FALSE
INVARIANTS
  WithdrawnHoldsNoSeat
