CONSTANTS
  mount = mount  burn = burn  org = org  disk = disk  cd = cd
  alice = alice  bob = bob  root = root
  factory = factory  strict = strict  first = first
  Actions <- MCActions
  Namespaces <- MCNamespaces
  Above <- MCAbove
  Users <- MCUsers
  Self = alice
  Nobody = Nobody
  Auths <- MCAuths
  Defaults <- MCDefaults
  Factory <- MCFactory
  Pending <- MCOne
  Burst = 1
  Wanders = TRUE
  Faults = {"bus"}
  NotInstalled = NotInstalled  NoRow = NoRow  NoAuth = NoAuth  NoCall = NoCall  NoAct = NoAct
SPECIFICATION Spec
INVARIANTS
  TreeComplete
  ShowsWhatIs
