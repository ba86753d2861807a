SPECIFICATION Spec
CONSTANTS
  User = {ann}
  Request = {r1, r2}
  Source = {soap, ost}
  Content = {c1, c2}
  OwnKey = FALSE
  Collects = TRUE
  Polls = FALSE
  Options <- PlainOptions
  Failures = TRUE
  MaxInbox = 1
  Everyone = Everyone
  NoAnswer = NoAnswer
  Failed = Failed
  Unread = Unread
PROPERTIES
  StoredIsFresh
  RefreshTells
SYMMETRY ListSymmetry
CHECK_DEADLOCK FALSE
