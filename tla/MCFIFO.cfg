CONSTANTS
  DEPTH = 3
  Data = {zero, a, b}
  Zero = zero
SPECIFICATION Spec
INVARIANTS TypeOK PointersAgree
PROPERTY ImplementsQueue
