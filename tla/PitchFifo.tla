------------------------------ MODULE PitchFifo ------------------------------
(***************************************************************************)
(* How Audio::ChangePitch moves the samples through smbPitchShift          *)
(* (bmx2ogg/audio.cpp:146-164 and 336-502): a FIFO collects the input, and *)
(* whenever it is full a frame is transformed and added to the output in   *)
(* overlapping stretches.  The FIFOs and the write position are static, so *)
(* they survive from one call to the next; main makes one call, the        *)
(* routine allows more.                                                    *)
(*                                                                         *)
(* What a transform makes of a frame is left open: the k-th value that     *)
(* frame n yields is <<n, k>>, and a sum is the set of its terms, which    *)
(* are never added twice.  A sample is the position it was given to the    *)
(* routine at, counted over all calls, or Silence.                         *)
(***************************************************************************)
EXTENDS PitchFrame, Sequences, FiniteSets

CONSTANTS
  MaxCalls,       \* bound: how often the routine is called
  MaxSamples      \* bound: the most samples given to one call

ASSUME CallsAssumption == MaxCalls \in Nat /\ MaxSamples \in Nat

Frame == 0 .. fftFrameSize - 1
Silence == -1

VARIABLES
  gInFIFO,
  gOutFIFO,
  gOutputAccum,
  gRover,        \* the position in gInFIFO that is written next
  gInit,
  done, n,       \* the loop's index i, and numSampsToProcess
  calls,         \* how many calls there have been
  given,         \* history: how many samples have been given in all calls
  frames,        \* history: the frames that were transformed
  outdata        \* history: the output of all calls

fifos == <<gInFIFO, gOutFIFO, gOutputAccum, gRover, gInit>>
history == <<calls, given, frames, outdata>>
fifoVars == <<fifos, done, n, history>>

Accum == 0 .. 2 * fftFrameSize - 1

(* Static variables are 0 and false before the first call.                 *)
FifoInit ==
  /\ gInFIFO = [k \in Frame |-> Silence]
  /\ gOutFIFO = [k \in 0 .. stepSize - 1 |-> {}]
  /\ gOutputAccum = [k \in Accum |-> {}]
  /\ gRover = 0
  /\ gInit = FALSE
  /\ done = 0
  /\ n = 0
  /\ calls = 0
  /\ given = 0
  /\ frames = <<>>
  /\ outdata = <<>>

(* ChangePitch with that many samples, up to the routine's loop.           *)
Call(sample) ==
  /\ done = n
  /\ calls < MaxCalls
  /\ calls' = calls + 1
  /\ n' = sample
  /\ done' = 0
  /\ gRover' = IF gRover = 0 THEN inFifoLatency ELSE gRover
  /\ gInit' = TRUE
  /\ UNCHANGED <<gInFIFO, gOutFIFO, gOutputAccum, given, frames, outdata>>

(* The head of the loop: one sample in, one out.                           *)
Exchange ==
  /\ done < n
  /\ done' = done + 1
  /\ given' = given + 1
  /\ outdata' = Append(outdata, gOutFIFO[gRover - inFifoLatency])
  /\ UNCHANGED <<gInit, n, calls>>

(* The frame is not complete yet.                                          *)
Collect ==
  /\ Exchange
  /\ gRover + 1 < fftFrameSize
  /\ gInFIFO' = [gInFIFO EXCEPT ![gRover] = given]
  /\ gRover' = gRover + 1
  /\ UNCHANGED <<gOutFIFO, gOutputAccum, frames>>

(* Mutant: the accumulator is shifted by a whole frame.                    *)
ShiftedByFrame(accum) ==
  [k \in Accum |-> IF k < fftFrameSize THEN accum[k + fftFrameSize] ELSE accum[k]]

(* memmove: the upper half stays as it is.                                 *)
Shifted(accum) ==
  [k \in Accum |-> IF k < fftFrameSize THEN accum[k + stepSize] ELSE accum[k]]

(* Mutant: only one step of the samples moves on.                          *)
KeptOneStep(frame) ==
  [k \in Frame |-> IF k < stepSize THEN frame[k + stepSize] ELSE frame[k]]

(* The input FIFO moves on by a step, in place.                            *)
Kept(frame) ==
  [k \in Frame |-> IF k < inFifoLatency THEN frame[k + stepSize] ELSE frame[k]]

(* The frame is complete: it is transformed, its values are added to the   *)
(* accumulator, whose first stretch is then final, and all moves on.       *)
Transform ==
  /\ Exchange
  /\ gRover + 1 >= fftFrameSize
  /\ LET frame == [gInFIFO EXCEPT ![gRover] = given]
         accum == [k \in Accum |->
                     IF k \in Frame THEN gOutputAccum[k] \cup {<<Len(frames), k>>}
                     ELSE gOutputAccum[k]]
     IN  /\ frames' = Append(frames, frame)
         /\ gOutFIFO' = [k \in 0 .. stepSize - 1 |-> accum[k]]
         /\ gOutputAccum' = Shifted(accum)
         /\ gInFIFO' = Kept(frame)
  /\ gRover' = inFifoLatency

FifoNext ==
  \/ \E sample \in 0 .. MaxSamples : Call(sample)
  \/ Collect
  \/ Transform

FifoSpec == FifoInit /\ [][FifoNext]_fifoVars

-----------------------------------------------------------------------------

InputAt(p) == IF p < 0 THEN Silence ELSE p

(* Each frame holds consecutive samples, and the next one begins stepSize  *)
(* samples later, across the calls too.                                    *)
FramesOverlap ==
  \A f \in DOMAIN frames : \A k \in Frame :
    frames[f][k] = InputAt(f * stepSize - fftFrameSize + k)

(* Every output sample is whole and in its place: as soon as so many       *)
(* frames can have reached it, it is the sum of osamp frames' values, one  *)
(* of each, and all of them stand for the same input sample, the one given *)
(* fftFrameSize samples earlier.  No term comes late and none is lost in   *)
(* the shifts.                                                             *)
OutputIsWhole ==
  \A p \in DOMAIN outdata :
    /\ Cardinality(outdata[p]) =
         IF (p - 1) \div stepSize < osamp THEN (p - 1) \div stepSize ELSE osamp
    /\ \A v, w \in outdata[p] : v[1] = w[1] => v = w
    /\ \A v \in outdata[p] : frames[v[1] + 1][v[2]] = InputAt(p - 1 - fftFrameSize)
=============================================================================
