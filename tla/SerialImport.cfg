SPECIFICATION NewSpec
CONSTANTS
  boss = boss
  clerk = clerk
  UserAccount = {boss, clerk}
  ContactAccount = {}
  Manager <- CycleManager
  NoManager = NoManager
  Actor = {l1}
  Portal = {l1}
  MaxManagers = 2
  Replica = FALSE
  Cached <- ClerkCached
  MaxRows = 2
  MaxChanges = 0
  MaxFaults = 1
INVARIANTS
  OneProfile
  CreatedIsComplete
PROPERTIES
  ImportEnds
CHECK_DEADLOCK FALSE
