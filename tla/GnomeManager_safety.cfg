CONSTANTS
  c1 = c1  c2 = c2
  r1 = r1  r2 = r2
  alice = alice  bob = bob
  Client <- MCClient
  Request <- MCRequest
  ClientOf <- MCClientOf
  ShowDialogReq <- MCShowDialogReq
  User <- MCUser
  Self = alice
  NoExit = FALSE
  Faults = {"vanish"}
  NoReq = NoReq
  NoUser = NoUser
  Closed = Closed
SPECIFICATION Spec
CHECK_DEADLOCK FALSE
INVARIANTS
  GainedMeansAuthorized
  IdleAgentHasTimer
PROPERTIES
  CancelledIsDenied
  ImplementsAuthAgent
