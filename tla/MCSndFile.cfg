\* Pieces of up to four samples, six samples in all: a WAV file of up to 14
\* bytes, and room for any part of it.
CONSTANTS
  Rooms <- MCRooms
  Reliefs <- MCReliefs
  PlainHeader = 1
  TaggedHeader = 2
  MaxPiece = 4
  MaxHanded = 6
SPECIFICATION LibSpec
INVARIANTS
  InOrder
  ClaimIsTrue
PROPERTIES
  Promise
  CallsReturn
CHECK_DEADLOCK FALSE
