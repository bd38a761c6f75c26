CONSTANTS
  Clients = {c1, c2, c3}
  MaxIce = 1
  MayLeave = {c3}
SPECIFICATION FairSpec
CHECK_DEADLOCK FALSE
INVARIANTS RoomOfTwo NothingMissing
PROPERTIES CallCompletes
