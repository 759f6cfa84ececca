SPECIFICATION Spec
CONSTANTS
  p1 = p1
  p2 = p2
  a = a
  b = b
  None = None
  Pollers <- TwoPollers
  Tablets = {a}
  MaxTime = 2
SYMMETRY Symmetry
INVARIANTS TypeOK RowsAddUp ZeroDivisionHasCause
PROPERTIES NegativeHasCause OwnInterval
CHECK_DEADLOCK FALSE
