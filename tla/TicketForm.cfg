SPECIFICATION Spec
CONSTANTS
  Order = {o1, o2}
  Kind = {"new"}
  File = {f1}
  System = {soap}
  Soap = soap
  Configured = {}
  repair = repair
  install = install
  Service = {repair, install}
  RouteOf <- MCRouteOf
  NoRoute = NoRoute
  NoService = NoService
  NoOrder = NoOrder
INVARIANTS
  TypeOK
  SuccessIsTrue
CHECK_DEADLOCK FALSE
