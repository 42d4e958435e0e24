SPECIFICATION Spec
CONSTANTS
  app = app
  prod = prod
  dev = dev
  ops = ops
  ctl = ctl
  operators = operators
  oncall = oncall
  u1 = u1
  Users = {u1}
  NsController = nsctl
  OperatorGroup = nogroup
  ControllerUser = ctl
  Label <- MCLabel
  User <- MCUser
  Group <- MCGroup
  Name <- MCName
  Time <- MCTime
  NamespaceLabels <- MCNamespaceLabels
  ChangeFreezePool <- SafetyFreezes
  MaintenanceWindowPool <- SafetyWindows
  FreezeExceptionPool <- SafetyExceptions
  Initial <- SafetyInitial
  RequestPool <- SafetyRequests
  SearchHorizon = 5
  MaxIterations = 3
  MaxTime = 3
  MaxWrites = 2
  MaxFaults = 0
INVARIANTS
  TypeOK
  FreezeEnforced
  DenialJustified
  ExceptionHonoured
PROPERTY
  ImplementsGate
\* the model stops at its bounds
CHECK_DEADLOCK FALSE
