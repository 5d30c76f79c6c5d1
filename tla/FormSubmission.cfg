SPECIFICATION FlowSpec
CONSTANTS
  Requests = {r1, r2}
  Fields = {k1}
  Values = {a}
  Admins = {a1, a2}
  MaxVersions = 2
  Rules = {"aged", "conditional", "foreign"}
  Asked = a
  ConditionField = k1
  Files = {0}
  MaxAge = 0
  MaxTime = 2
  Loads = {l1}
  MaxAtOnce = 1
SYMMETRY RequestSymmetry
INVARIANTS
  SessionOutlivesSubmission
  NewAnswersWait
  PinnedRuleIsAnswerable
  SubmittedMeetsItsRule
  StaleScreenHasACause
\* a form and its application rest when they are finished
CHECK_DEADLOCK FALSE
