SPECIFICATION SpecPOST
CONSTANTS
  Columns = {"a", "b", "c"}
  BadNames = {"c"}
  Formats = {"text", "json"}
  Answers <- MCAnswers
  Datacenters = {"d1", "d2"}
  NodeIds = {"n1", "n2"}
  Gossips <- MCGossips
  Unreachable = Unreachable
INVARIANTS TypeOK  ResponseShowsAnswer
CHECK_DEADLOCK FALSE
