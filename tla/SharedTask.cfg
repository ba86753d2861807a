SPECIFICATION Spec
CONSTANTS
  User = {ann, bob}
  Request = {r1, r2}
  Source = {soap}
  Content = {c1, c2}
  OwnKey = FALSE
  Collects = FALSE
  Polls = TRUE
  Options <- PlainOptions
  Failures = FALSE
  MaxInbox = 1
  Everyone = Everyone
  NoAnswer = NoAnswer
  Failed = Failed
  Unread = Unread
PROPERTIES
  PageConverges
  PollingEnds
CHECK_DEADLOCK FALSE
