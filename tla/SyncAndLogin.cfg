SPECIFICATION SteadySpec
CONSTANTS
  boss = boss
  clerk = clerk
  d1 = d1
  d2 = d2
  UserAccount = {clerk}
  ContactAccount = {boss}
  Manager <- MCManager
  NoManager = NoManager
  Domain = {d1, d2}
  DomainOf <- MCDomainOf
  Actor = {s1, l1}
  Portal = {l1}
  Run = {s1}
  MaxManagers = 2
  Replica = TRUE
  Cached <- NothingCached
  MaxRows = 2
  MaxChanges = 0
  MaxFaults = 1
INVARIANTS
  AccessComesFromDirectory
  UserHasProfile
  BlockingIsJustified
  FailsClosed
  ListedHaveAccess
PROPERTIES
  AccessIsJust
CHECK_DEADLOCK FALSE
