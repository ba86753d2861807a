SPECIFICATION RpcSpec
CONSTANTS
  boss = boss
  clerk = clerk
  d1 = d1
  d2 = d2
  UserAccount = {boss, clerk}
  ContactAccount = {}
  Manager <- MCManager
  NoManager = NoManager
  Domain = {d1, d2}
  DomainOf <- MCDomainOf
  Actor = {s1}
  Portal = {}
  Run = {s1}
  MaxManagers = 2
  Replica = FALSE
  Cached <- NothingCached
  MaxRows = 2
  MaxChanges = 1
  MaxFaults = 1
PROPERTIES
  RunEnds
  MissingLoseAccess
  AskersAnswered
CHECK_DEADLOCK FALSE
