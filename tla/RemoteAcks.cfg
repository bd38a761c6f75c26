CONSTANTS
  Nodes = {n1, n2}
  MaxAcks = 1
  MaxLocal = 1
  Buffer = 1
  Kinds = {"ack", "collect"}
SPECIFICATION FairSpec
CHECK_DEADLOCK FALSE
INVARIANTS HandlerOwned EarlyEndComplete Accounted
PROPERTIES StreamEnds
