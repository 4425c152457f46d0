\* Two channels, three sounds, recordings asked to go up to tick 3: two
\* overlapping sounds, a restart in the middle of a sound, and an end that
\* lies beyond the last Mix.
CONSTANTS
  MIXERSIZE = 2
  MSAMPLE_MIN <- MCSampleMin
  MSAMPLE_MAX = 2
  MaxTick = 3
  Sounds <- MCSounds
  Unset <- MCUnset
SPECIFICATION Spec
INVARIANTS
  TypeOK
  IndicesInRange
  Headroom
  MixUntilEndDrains
PROPERTY ImplementsSoundMix
CHECK_DEADLOCK FALSE
