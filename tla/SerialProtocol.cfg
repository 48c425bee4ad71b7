SPECIFICATION SpecFirmware
CONSTANTS
  Bytes = {67, 75, 77, 97, 200, 255}
  CharSigned = FALSE
INVARIANTS
  TypeOKFirmware
  DecodesFrames
  ReportsJunk
