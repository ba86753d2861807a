SPECIFICATION Spec
CONSTANTS
  admins = admins
  staff = staff
  d1 = d1
  d2 = d2
  Person = {ann}
  Group = {admins, staff}
  Admin = admins
  Domain = {d1, d2}
  DomainOf <- MCDomainOf
  Run = {r1}
  Login = {l1}
  All = All
  NoSession = NoSession
  MaxRows = 2
  Replica = FALSE
  MaxChanges = 1
  MaxFaults = 1
INVARIANTS
  RightsComeFromDirectory
  

  
CHECK_DEADLOCK FALSE
