SPECIFICATION CaseSpec
CONSTANTS
  Recommenders = {ana, berta, carla}
  Deciders = {carla, diego}
  MaxVersions = 3
  MaxEdits = 1
INVARIANTS
  CurrentIsNewestSubmitted
  DecisionsStand
\* a decided or withdrawn case rests
CHECK_DEADLOCK FALSE
