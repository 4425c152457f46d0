----------------------------- MODULE PitchFrame -----------------------------
(* The sizes smbPitchShift works with (bmx2ogg/audio.cpp:360-365), for both *)
(* modules about it: PitchFifo and Spectrum.                               *)
EXTENDS Integers

CONSTANTS
  fftFrameSize,
  osamp           \* how many frames overlap

ASSUME FrameAssumption ==
  /\ fftFrameSize \in Nat \ {0} /\ osamp \in Nat /\ osamp > 1
  /\ fftFrameSize % osamp = 0

stepSize == fftFrameSize \div osamp
inFifoLatency == fftFrameSize - stepSize
=============================================================================
