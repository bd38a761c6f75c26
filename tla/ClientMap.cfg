CONSTANTS
  Sids = {s1}
  Conns = {c1, c2, c3}
  Static = {a}
  Dynamic = {d}
  Root = a
  MaxInst = 2
  AdminOps = {"delete_ns", "close"}
  None = None
SPECIFICATION FairSpec
CHECK_DEADLOCK FALSE
INVARIANTS NoSocketLeak
PROPERTIES ServedOrClosed RefinesMembership
