CONSTANTS
  Sids = {s1}
  Conns = {c1}
  Workers = {}
  None = None
  AdminOps = {"close"}
SPECIFICATION FairSpec

CHECK_DEADLOCK FALSE
PROPERTY ClosingCallsHandlers
