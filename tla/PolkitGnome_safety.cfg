CONSTANTS
  button = button  lock = lock
  Plain <- MCPlain
  Toggle <- MCToggle
  MaxCalls = 2
  Elsewhere <- MCDatabase
  Faults = {"bus", "revoke"}
  NoObject = NoObject
SPECIFICATION FairSpec
CHECK_DEADLOCK FALSE
INVARIANTS
  ToggleAgrees
PROPERTIES
  ActivatesExactly
  ShowsResult
