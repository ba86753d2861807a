SPECIFICATION Spec
CONSTANTS
  ann = ann
  bob = bob
  t1 = t1
  t2 = t2
  t3 = t3
  Person = {ann, bob}
  Contact = {}
  Editor = {t1}
  Own <- AllAnn
  OnlyOwn = FALSE
  Field = {phone}
  CommentField = {}
  gender = gender
  middleName = middleName
  Defaulted = {gender, middleName}
  Spaced = {woman}
  Absent = Absent
  Value = {man, woman}
  man = man
  woman = woman
  null = null
  None = None
  Gone = Gone
  Outside = {}
  Failures = FALSE
  MaxChanges = 1
INVARIANTS
  RowIdentity
CHECK_DEADLOCK FALSE
