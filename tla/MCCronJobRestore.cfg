SPECIFICATION Spec
CONSTANTS
  nightly = nightly
  report = report
  CronJobs = {nightly}
  Policies <- Lone
  MaxTime = 2
  MaxEdits = 0
  MaxFaults = 0
PROPERTY
  RestoresOriginal
\* the model stops at its bounds
CHECK_DEADLOCK FALSE
