CONSTANTS
  Clients = {c1, c2}
  MaxIce = 0
  MayLeave = {}
SPECIFICATION FairSpec
CHECK_DEADLOCK FALSE
PROPERTIES CallStarts
