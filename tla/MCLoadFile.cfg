CONSTANTS
  Silence = Silence
  Noise = Noise
  Junk = Junk
  HeaderLen = 12292
  BufferLen = 512
  Piece = 4
  Sizes <- MCSizes
  Files <- MCFiles
SPECIFICATION Spec
INVARIANTS
  TypeOK
  WithinBuffer
PROPERTIES
  Promise
  LoadEnds
CHECK_DEADLOCK FALSE
