SPECIFICATION SpecDispatcher
CONSTANTS
  Bytes <- AllBytes
  CharSigned = FALSE
  Scenarios = {{"file"}}
  Chars = {75}
  Deltas <- PlainDeltas
  Files <- SomeFiles
  LinkDrops = FALSE
  Overlap = FALSE
  MaxCommands = 3
  MaxAir = 6
INVARIANT WholeFileTyped
CHECK_DEADLOCK FALSE
