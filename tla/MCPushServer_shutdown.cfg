SPECIFICATION FairSpec
CONSTANTS
  c1 = c1
  c2 = c2
  c3 = c3
  Server = Server
  None = None
  Faults = {"interrupt"}
  Conns <- TwoConns
INVARIANTS ClosedAtExit
 
CHECK_DEADLOCK FALSE
