SPECIFICATION Spec
CONSTANTS
  Person = {ann}
  Session = {s1}
  Request = {q1}
  Language = {ru, en}
  Russian = ru
  Favorite = {f1}
  MaxFavorites = 1
  MaxChanges = 2
  Failures = TRUE
  None = None
INVARIANTS
  TypeOK
  LanguageKept
PROPERTIES
  BlockedInTheEnd
CHECK_DEADLOCK FALSE
