SPECIFICATION FairSpec
CONSTANTS
  app = app
  prod = prod
  dev = dev
  ops = ops
  ctl = ctl
  operators = operators
  oncall = oncall
  u1 = u1
  Users = {u1}
  NsController = nsctl
  OperatorGroup = operators
  ControllerUser = ctl
  Label <- MCLabel
  User <- MCUser
  Group <- MCGroup
  Name <- MCName
  Time <- MCTime
  NamespaceLabels <- MCNamespaceLabels
  ChangeFreezePool <- SafetyFreezes
  MaintenanceWindowPool <- SafetyWindows
  FreezeExceptionPool <- SafetyExceptions
  Initial <- FaultInitial
  RequestPool <- FaultRequests
  SearchHorizon = 5
  MaxIterations = 3
  MaxTime = 3
  MaxWrites = 1
  MaxFaults = 1
INVARIANTS
  FreezeEnforced
  DenialJustified
PROPERTIES
  NamespaceDrains
  NewNamespaceServed
  ImplementsGate
\* the model stops at its bounds
CHECK_DEADLOCK FALSE
