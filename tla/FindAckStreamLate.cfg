CONSTANTS
  Nodes = {n1}
  MaxAcks = 1
  MaxLocal = 0
  Buffer = 1
  Kinds = {"ack"}
SPECIFICATION Spec
CHECK_DEADLOCK FALSE
INVARIANT WaitsForSomething
