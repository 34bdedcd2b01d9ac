CONSTANTS
  Clients = {c1, c2}
  Unspecified = Unspecified
  NULL = NULL
  MaxRequests = 3
  UdpNewMayFail = FALSE
SPECIFICATION Spec
PROPERTY EveryRequestAnswered
CHECK_DEADLOCK FALSE
