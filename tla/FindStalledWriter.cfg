CONSTANTS
  Polls = {}
  Conns = {u1}
  MaxMsg = 1
  Capacity = 2
  Transports = {"websocket"}
  Entries = {"upgrade"}
  MayStall = TRUE
  Ping = Ping
  Noop = Noop
  Close = Close
  None = None
SPECIFICATION FairSpec
CHECK_DEADLOCK FALSE
PROPERTIES CancelledReleases
