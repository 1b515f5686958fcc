CONSTANTS
  Clients = {c1, c2}
  Malformed = {}
  None = none
SPECIFICATION Spec
INVARIANT OwnText
CHECK_DEADLOCK FALSE
