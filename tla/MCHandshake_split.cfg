SPECIFICATION Spec
CONSTANTS
  Kinds = {"hixie"}
  HeaderLen = 9
  FirstRead = 10
  MaxHeader = 21
  Frames = 0
  None = None
INVARIANTS EntireKeyRead
CHECK_DEADLOCK FALSE
