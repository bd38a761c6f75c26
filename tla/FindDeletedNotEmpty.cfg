CONSTANTS
  Sids = {s1}
  Conns = {c1}
  Workers = {w1}
  None = None
  AdminOps = {"delete_ns"}
SPECIFICATION Spec

CHECK_DEADLOCK FALSE
INVARIANT DeletedIsEmpty
