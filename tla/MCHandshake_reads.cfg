SPECIFICATION FairSpec
CONSTANTS
  Kinds = {"rfc", "hixie", "bare", "endless"}
  HeaderLen = 9
  FirstRead = 10
  MaxHeader = 18
  Frames = 3
  None = None
INVARIANTS TypeOK KeyIsRight FramesStartRight
PROPERTIES RequestsEnd
CHECK_DEADLOCK FALSE
