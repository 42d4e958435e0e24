SPECIFICATION FairSpec
CONSTANTS
  nightly = nightly
  report = report
  CronJobs = {nightly}
  Policies <- Lone
  MaxTime = 2
  MaxEdits = 1
  MaxFaults = 0
PROPERTY
  DeletionReleases
\* the model stops at its bounds
CHECK_DEADLOCK FALSE
