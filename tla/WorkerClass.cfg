SPECIFICATION Spec
CONSTANTS
  Sockets = {s1, s2}
  AcceptThreads = {a1, a2, a3}
  Writers = {w1}
  None = None
  MaxQueue = 2
  CreateMayFail = TRUE
  AcceptMayFail = FALSE
SYMMETRY Symmetry
INVARIANTS
  TypeOK
  StateMatchesThreads
  SingleLink
  ListeningIsReal
  ConnectingHasThread
  StatusIsCurrent
  CrashNeedsRefusal
\* After onDestroy() every thread may end and nothing is left to do.
CHECK_DEADLOCK FALSE
