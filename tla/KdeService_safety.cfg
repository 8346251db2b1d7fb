CONSTANTS
  r1 = r1  r2 = r2
  alice = alice  bob = bob
  Request <- MCRequest
  User <- MCUser
  NoExit = FALSE
  Faults = {"setup", "initiate", "early", "crash"}
  Prompts <- MCPassword
  NoReq = NoReq
  NoUser = NoUser
SPECIFICATION FairSpec
CHECK_DEADLOCK FALSE
INVARIANTS
  GainedMeansAuthorized
  PromptNamesHelperUser
PROPERTIES
  ImplementsAuthAgent
  CallersAreServed
