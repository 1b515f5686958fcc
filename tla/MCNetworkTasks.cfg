CONSTANTS
  Clients = {c1, c2, c3}
  Malformed = {c3}
  None = none
SPECIFICATION FairSpec
INVARIANTS TypeOK HandOver RequestOfClient SocketsHeld
PROPERTIES OneResponse EveryRequestAnswered
CHECK_DEADLOCK FALSE
