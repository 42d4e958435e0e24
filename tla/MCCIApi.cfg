SPECIFICATION CISpec
CONSTANTS
  prod = prod
  dev = dev
  nobody = nobody
  operators = operators
  ctl = ctl
  u1 = u1
  Nobody = nobody
  Users = {u1}
  NsController = nsctl
  OperatorGroup = operators
  ControllerUser = ctl
  Label <- MCLabel
  User <- MCUser
  Group <- MCGroup
  Name <- MCName
  Time <- MCTime
  NamespaceLabels <- MCNamespaceLabels
  ChangeFreezePool <- MCFreezes
  MaintenanceWindowPool <- MCWindows
  FreezeExceptionPool <- MCExceptions
  Initial <- MCInitial
  RequestPool <- MCRequests
  SearchHorizon = 5
  MaxIterations = 3
  MaxTime = 3
  MaxWrites = 1
  MaxFaults = 1
INVARIANTS
  CITypeOK
  AdviceJustified
  AdviceEnforced
  AdviceHolds
\* the model stops at its bounds
CHECK_DEADLOCK FALSE
