CONSTANTS
  Polls = {}
  Conns = {u1, u2}
  MaxMsg = 2
  Capacity = 2
  Transports = {"polling", "websocket"}
  Entries = {"upgrade", "stream"}
  MayStall = TRUE
  Ping = Ping
  Noop = Noop
  Close = Close
  None = None
SPECIFICATION Spec
SYMMETRY Symmetry
CHECK_DEADLOCK FALSE
PROPERTIES RefinesLife
