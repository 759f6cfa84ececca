SPECIFICATION Spec
CONSTANTS
  Ops <- AllOps
  Lengths = {0, 1, 6, 7}
  MaxPayload = 7
  None = None
INVARIANTS TypeOK InSync
PROPERTIES Promise
CHECK_DEADLOCK FALSE
