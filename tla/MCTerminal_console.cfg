CONSTANTS
  q = q
  x = x
  Chars <- MCChars
  RequestLines <- MCRequestLines
  r1 = r1
  r2 = r2
  Requests <- MCRequests
  Commands <- MCCommands
  MaxLine = 3
  MaxHistory = 2
SPECIFICATION Spec
INVARIANTS
  TypeOK
  LineAsTyped
  OneOutcome
PROPERTY EveryRequestReported
CHECK_DEADLOCK FALSE
