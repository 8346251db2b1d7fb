CONSTANTS
  mount = mount  burn = burn
  alice = alice  bob = bob  root = root
  first = first  second = second
  Actions <- MCActions
  Users <- MCUsers
  Self = alice
  Root = root
  SystemUsers <- MCSystem
  Places <- MCPlaces
  Values <- MCValues
  Pending <- MCTwo
  Moves = TRUE
  Faults = {"bus"}
  NoAction = NoAction  NoUser = NoUser  NoValue = NoValue
  NoDialog = NoDialog  NoCall = NoCall  NoWrite = NoWrite
SPECIFICATION Spec
CHECK_DEADLOCK FALSE
INVARIANTS
  OfferedWhenComplete
PROPERTIES
  WritesWhatIsShown
