SPECIFICATION FairSpec
CONSTANTS
  Sockets = {s1, s2}
  AcceptThreads = {a1, a2}
  Writers = {}
  None = None
  MaxQueue = 2
  CreateMayFail = FALSE
  AcceptMayFail = FALSE
PROPERTY HealthyLinkKept
CHECK_DEADLOCK FALSE
