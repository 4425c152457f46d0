\* The factors that ChangePitch hands over.
CONSTANTS
  fftFrameSize = 8
  osamp = 4
  Prime = 17
  Generator = 3
  Finer = 12
  Factors <- MCPitches
  Inputs <- MCInputs
  MaxFrames = 1
SPECIFICATION Spec
INVARIANT BinsInRange
CHECK_DEADLOCK FALSE
