CONSTANTS
  Sids = {s1}
  Conns = {c1}
  Workers = {w1}
  None = None
  AdminOps = {"delete_ns", "close"}
SPECIFICATION FairSpec

CHECK_DEADLOCK FALSE
PROPERTIES Drained AdminReturns
