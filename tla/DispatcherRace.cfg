SPECIFICATION SpecDispatcher
CONSTANTS
  Bytes <- AllBytes
  CharSigned = FALSE
  Scenarios = {{"ui", "mouse"}}
  Chars = {75}
  Deltas <- PlainDeltas
  Files <- NoFiles
  LinkDrops = FALSE
  Overlap = TRUE
  MaxCommands = 2
  MaxAir = 6
INVARIANT ErrorMeansLoss
\* The user may stop, and the bound on commands is reached.
CHECK_DEADLOCK FALSE
