SPECIFICATION Spec
CONSTANTS
  Staff = {s1}
  Workers = {w1, w2}
  Hooks = {h1}
  MaxVersion = 3
  MaxAttempts = 2
  MaxFaults = 1
  MaxCrashes = 1
SYMMETRY WorkerSymmetry
\* a communication rests when it is delivered or its versions are used up
CHECK_DEADLOCK FALSE
INVARIANTS
  EmailsAreAccounted
  ShownStatusHasItsCause
