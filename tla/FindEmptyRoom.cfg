CONSTANTS
  Sids = {s1, s2}
  Rooms = {r1, r2}
  MaxRooms = 2
  None = None
SPECIFICATION Spec
CHECK_DEADLOCK FALSE
INVARIANT EmptyHasNoEntry
