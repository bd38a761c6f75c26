CONSTANTS
  Sids = {s1, s2}
  Conns = {c1, c2}
  Static = {}
  Dynamic = {d}
  Root = a
  MaxInst = 2
  AdminOps = {}
  None = None
SPECIFICATION Spec
CHECK_DEADLOCK FALSE
INVARIANT NoOrphan
