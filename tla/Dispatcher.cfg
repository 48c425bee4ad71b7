SPECIFICATION SpecDispatcher
CONSTANTS
  Bytes <- AllBytes
  CharSigned = FALSE
  Scenarios = {{"ui", "mouse"}, {"file"}}
  Chars = {75}
  Deltas <- PlainDeltas
  Files <- SomeFiles
  LinkDrops = TRUE
  Overlap = FALSE
  MaxCommands = 3
  MaxAir = 6
INVARIANTS
  TypeOKDispatcher
  RecoversAfterLoss
  SentMeansTyped
  CancelIsPrompt
PROPERTY IsChannel
\* The user may stop, and the bound on commands is reached.
CHECK_DEADLOCK FALSE
