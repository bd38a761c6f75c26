CONSTANTS
  Clients = {c1}
  Rooms = {general, rust}
  FirstRoom = general
  History = 2
  MaxMsgs = 1
  MaxConns = 2
  MaxChanges = 1
SPECIFICATION Spec
CHECK_DEADLOCK FALSE
INVARIANTS ShownOnce
