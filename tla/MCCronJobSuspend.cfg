SPECIFICATION FairSpec
CONSTANTS
  nightly = nightly
  report = report
  CronJobs = {nightly, report}
  Policies <- Handover
  MaxTime = 2
  MaxEdits = 1
  MaxFaults = 1
INVARIANTS
  TypeOK
  InterferenceIsMarked
PROPERTIES
  OwnershipIsStable
  OriginalIsTruthful
  SuspendFollowsOwner
\* the model stops at its bounds
CHECK_DEADLOCK FALSE
