CONSTANTS
  Clients = {c1, c2}
  Malformed = {}
  None = none
SPECIFICATION Spec
INVARIANT WholeRequests
CHECK_DEADLOCK FALSE
