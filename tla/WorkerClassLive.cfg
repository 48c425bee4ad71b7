SPECIFICATION FairSpec
CONSTANTS
  Sockets = {s1, s2}
  AcceptThreads = {a1, a2}
  Writers = {}
  None = None
  MaxQueue = 2
  CreateMayFail = FALSE
  AcceptMayFail = TRUE
PROPERTIES
  ConnectingEnds
  CancelledThreadEnds
\* After onDestroy() every thread may end and nothing is left to do.
CHECK_DEADLOCK FALSE
