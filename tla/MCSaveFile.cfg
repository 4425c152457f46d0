\* No sample, one, and up to three pieces, the last of any length.
CONSTANTS
  SAMPLECHUNKSIZE = 4
  MaxSamples = 9
SPECIFICATION Spec
INVARIANTS
  HoldsPrefix
  ResultIsHonest
PROPERTY Terminates
CHECK_DEADLOCK FALSE
