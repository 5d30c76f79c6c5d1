SPECIFICATION Spec
CONSTANTS
  u1 = u1
  u2 = u2
  t1 = t1
  t2 = t2
  Users = {u1, u2}
  Supporters = {u2}
  Tabs = {t1, t2}
  IdleTtl = 2
  AbsoluteTtl = 3
  ChallengeTtl = 2
  Cooldown = 1
  CsrfTtl = 2
  Budgets <- Instances
CHECK_DEADLOCK FALSE
INVARIANT MutationIsOfOneSession
INVARIANT ElevatedWorkEndsOnTime
PROPERTY OnlyTheNewestLinkWorks
PROPERTY RevokedStays
