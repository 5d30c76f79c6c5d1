SPECIFICATION FairSpec
CONSTANTS
  Uploaders = {u1, u2}
  Reviewers = {r1}
  Workers = {w1, w2}
  MaxVersions = 2
  MaxAttempts = 2
  MaxFaults = 1
INVARIANTS
  OnlyCleanIsApproved
  ReviewMatchesCurrent
  OnlyFaultsStopAFile
PROPERTIES
  UploadedFileIsSettled
  ImplementsDocumentStatus
\* a submission rests when its uploads are used up
CHECK_DEADLOCK FALSE
