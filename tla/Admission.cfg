SPECIFICATION Spec
CONSTANTS
  a1 = a1
  a2 = a2
  t1 = t1
  t2 = t2
  s1 = s1
  s2 = s2
  Admins = {a1}
  Tabs = {t1}
  Staff = {s1}
  Years = {y1, y2}
  Processes = {p1}
  Offerings = {o1, o2}
  FormVersions = {f1, f2}
  Birthdays <- Births
  Days <- Dates
  Budgets <- Instances
CHECK_DEADLOCK FALSE
INVARIANT AuthorityHoldsAtCommit
INVARIANT SubmittedDeclarationStands
PROPERTY CommandsOverrideNoWrite
PROPERTY ReviewSeesTheDeclaration
