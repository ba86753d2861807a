SPECIFICATION Spec
CONSTANTS
  ann = ann
  bob = bob
  t1 = t1
  t2 = t2
  t3 = t3
  Person = {ann, bob}
  Contact = {ann}
  Editor = {t1, t2, t3}
  Own <- AnnTwice
  OnlyOwn = FALSE
  Field = {phone, gender}
  CommentField = {gender}
  gender = gender
  middleName = middleName
  Spaced = {}
  Absent = Absent
  Defaulted = {gender}
  Value = {man, woman}
  man = man
  woman = woman
  null = null
  None = None
  Gone = Gone
  Outside = {ann}
  Failures = TRUE
  MaxChanges = 2
INVARIANTS
  OwnRowsKept
PROPERTIES
  CommentsKept
  AttributesKept
  Agreement
CHECK_DEADLOCK FALSE
