CONSTANTS
  Clients = {c1}
  Rooms = {general, rust}
  FirstRoom = general
  History = 1
  MaxMsgs = 2
  MaxConns = 2
  MaxChanges = 1
SPECIFICATION Spec
CONSTRAINT FourEvents
CHECK_DEADLOCK FALSE
INVARIANTS RightRoom LostOnlyIfMissed SeenIsKept
