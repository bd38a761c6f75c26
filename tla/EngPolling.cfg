CONSTANTS
  Polls = {p1, p2}
  Conns = {u1}
  MaxMsg = 2
  Capacity = 2
  Transports = {"polling"}
  Entries = {"upgrade"}
  MayStall = FALSE
  Ping = Ping
  Noop = Noop
  Close = Close
  None = None
SPECIFICATION Spec
SYMMETRY Symmetry
CHECK_DEADLOCK FALSE
INVARIANTS LockOK Fifo Watched
PROPERTIES RefinesLife
