CONSTANTS
  Sids = {s1}
  Conns = {c1, c2}
  Workers = {w1}
  None = None
  AdminOps = {}
SPECIFICATION Spec

CHECK_DEADLOCK FALSE
PROPERTY IgnoredOnlyIfConnected
