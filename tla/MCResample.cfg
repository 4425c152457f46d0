\* Lists of up to 13 samples, odd lengths included, at eleven speeds.
CONSTANTS
  MaxCount = 13
  Rates <- MCRates
SPECIFICATION Spec
INVARIANTS
  TypeOK
  ReadsInRange
  OnTime
  LengthScaled
CHECK_DEADLOCK FALSE
