SPECIFICATION Spec
CONSTANTS
  c1 = c1
  c2 = c2
  c3 = c3
  Server = Server
  None = None
  Faults = {"accept", "exceptional", "stall"}
  Conns <- TwoConns
SYMMETRY Symmetry
INVARIANTS TypeOK TablesMatchSockets LoopDeathHasCause OnePollAfterClose SilentOnlyAfterFailure
CHECK_DEADLOCK FALSE
