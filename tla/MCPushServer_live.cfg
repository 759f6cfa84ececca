SPECIFICATION FairSpec
CONSTANTS
  c1 = c1
  c2 = c2
  c3 = c3
  Server = Server
  None = None
  Faults = {"accept", "stall"}
  Conns <- TwoConns
PROPERTIES PollingStops HangUpNoticed
CHECK_DEADLOCK FALSE
