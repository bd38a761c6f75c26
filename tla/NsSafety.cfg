CONSTANTS
  Sids = {s1}
  Conns = {c1, c2}
  Workers = {w1, w2}
  None = None
  AdminOps = {}
SPECIFICATION Spec
SYMMETRY Symmetry
CHECK_DEADLOCK FALSE
INVARIANTS GuardExclusive NoSocketLeak NoRoomLeak HandlerOnce ConnectedAfterAnswer ClosedLeaves
PROPERTIES RefinesMembership
