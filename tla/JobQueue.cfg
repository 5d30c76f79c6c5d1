SPECIFICATION FairLoopSpec
CONSTANTS
  m1 = m1
  m2 = m2
  Workers = {w1, w2}
  Messages = {m1, m2}
  Invalid = {m2}
  Lease = 2
  BaseBackoff = 1
  MaxBackoff = 2
  MaxAttempts = 2
  Skews = {0, 1}
  MaxTime = 7
  MaxCrashes = 1
  LastTenant = 2
  TenantOf <- TwoTenants
  SlowUntil = 2
  MaxStops = 1
INVARIANTS
  OwnersAreALeaseApart
  RetriesAreUsed
PROPERTIES
  OnlyTheLastOwnerSettles
  EveryMessageIsSettled
\* the clock stops at its bound
CHECK_DEADLOCK FALSE
