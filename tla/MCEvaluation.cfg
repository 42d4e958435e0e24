SPECIFICATION Spec
CONSTANTS
  app = app
  prod = prod
  dev = dev
  ops = ops
  oncall = oncall
  Label <- MCLabel
  User <- MCUser
  Group <- MCGroup
  Name <- MCName
  Time <- MCTime
  ChangeFreezePool <- MCChangeFreezePool
  MaintenanceWindowPool <- MCMaintenanceWindowPool
  FreezeExceptionPool <- MCFreezeExceptionPool
  RequestPool <- MCRequestPool
  SearchHorizon = 6
  MaxIterations = 2
  MaxTime = 12
INVARIANTS
  TypeOK
  SelectionIsDeterministic
  DeniedExactlyOutsideWindows
  DeniedUntilNextAllowed
  NamedPolicyReleasesAtNextAllowed
  AllowedDenialsAreExcepted
\* time ends at MaxTime
CHECK_DEADLOCK FALSE
