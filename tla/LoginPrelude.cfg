SPECIFICATION Spec
CONSTANTS
  Default <- MCDefault
  Supplied = "alice"
  Nobody = Nobody
  None = None
  Sites <- MCSites
  Requests <- MCRequests
  MaxRefresh = 1
  MaxSteps = 2
  MaxDrops = 2
INVARIANTS
  PreludeInv
  ConfirmedIsAuthenticated
  GoodCredentialsLogIn
CHECK_DEADLOCK FALSE
