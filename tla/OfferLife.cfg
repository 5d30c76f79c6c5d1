SPECIFICATION FairSpec
CONSTANTS
  Apps = {1}
  Sessions = {s1, s2}
  Workers = {w1}
  MaxVersions = 2
  Capacities = {0, 2}
  Validities = {1}
  MaxTime = 1
  MaxCapVersion = 3
  MaxAttempts = 2
  MaxFaults = 1
INVARIANTS
  NoOverbooking
  OneOutcomePerOffer
  ChecksHoldUntilCommit
PROPERTIES
  OverdueOfferEnds
\* requests stop at the bounds: every application decided, time over
CHECK_DEADLOCK FALSE
