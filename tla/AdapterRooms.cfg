CONSTANTS
  Sids = {s1, s2, s3}
  Rooms = {r1, r2}
  MaxRooms = 2
  None = None
SPECIFICATION Spec
SYMMETRY Symmetry
CHECK_DEADLOCK FALSE
INVARIANTS MapsAgree SelectionMeant
PROPERTIES RefinesRelation
