\* Three frames overlap, frames of 6 samples, and calls that end at every
\* position in a frame.
CONSTANTS
  fftFrameSize = 6
  osamp = 3
  MaxCalls = 3
  MaxSamples = 9
SPECIFICATION FifoSpec
INVARIANTS
  FramesOverlap
  OutputIsWhole
CHECK_DEADLOCK FALSE
