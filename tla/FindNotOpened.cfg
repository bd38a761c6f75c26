CONSTANTS
  Polls = {}
  Conns = {u1}
  MaxMsg = 0
  Capacity = 2
  Transports = {"websocket"}
  Entries = {"upgrade"}
  MayStall = FALSE
  Ping = Ping
  Noop = Noop
  Close = Close
  None = None
SPECIFICATION Spec
CHECK_DEADLOCK FALSE
INVARIANTS EndedIsDisconnected
