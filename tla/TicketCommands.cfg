SPECIFICATION CommandSpec
CONSTANTS
  Order = {o1, o2}
  Kind = {"new", "edit", "file", "comment"}
  File = {f1}
  System = {soap, media, audit}
  Soap = soap
  Configured = {media}
INVARIANTS
  WholeOrders
PROPERTIES
  Promise
  SoapAnswers
CHECK_DEADLOCK FALSE
