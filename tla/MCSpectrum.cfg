\* Two frames of 16, one after the other, with factors from 1/2 to 2.
CONSTANTS
  fftFrameSize = 16
  osamp = 4
  Prime = 97
  Generator = 5
  Finer = 16
  Factors <- MCFactors
  Inputs <- MCInputs
  MaxFrames = 2
SPECIFICATION Spec
INVARIANTS
  FftIsTransform
  FrequencyExplainsPhase
  SpectrumIsStretched
  UnshiftedIsUnchanged
CHECK_DEADLOCK FALSE
