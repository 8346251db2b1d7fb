CONSTANTS
  c1 = c1  c2 = c2
  r1 = r1  r2 = r2
  alice = alice  bob = bob
  Client <- MCClient
  Request <- MCRequest
  ClientOf <- MCClientOf
  ShowDialogReq <- MCShowDialogReq
  User <- MCUser
  Self = NoUser
  NoExit = TRUE
  Faults = {"initiate", "vanish", "crash"}
  NoReq = NoReq
  NoUser = NoUser
  Closed = Closed
SPECIFICATION FairSpec
CHECK_DEADLOCK FALSE
INVARIANTS
  DialogIsRight
PROPERTIES
  DeniedForCause
  EndsByTimerOrVanishedCaller
  CallersAreServed
