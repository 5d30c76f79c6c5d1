SPECIFICATION Spec
CONSTANTS
  Admins = {a1, a2}
  Executors = {e1, e2}
  Kind = "DIAGNOSTIC_EVALUATION"
  Limits = {1, 2}
  Scopes = {"tenant", "offering"}
  Budgets <- Instances
  MaxVersions = 2
SYMMETRY PeopleSymmetry
\* the bounds end the run
CHECK_DEADLOCK FALSE
INVARIANTS
  StatusFollowsAppointment
  AttemptsExplainAppointments
  ReschedulesWithinLimit
PROPERTIES
  PublishedIsFrozen
