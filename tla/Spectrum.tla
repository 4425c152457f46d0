------------------------------ MODULE Spectrum ------------------------------
(***************************************************************************)
(* What smbPitchShift makes of one frame after another (bmx2ogg/           *)
(* audio.cpp:393-486): it is windowed and transformed by smbFft (507-562), *)
(* each bin's magnitude and true frequency are found, moved to another bin *)
(* and turned into a phase, and the result is transformed back.  Module    *)
(* PitchFifo has how the samples get into the frames and out of them.      *)
(*                                                                         *)
(* Complex numbers are residues modulo a prime: the powers of a generator  *)
(* stand for the numbers of magnitude 1, so that sums, products, roots of  *)
(* unity and phases are exact.  Phases are in parts of a turn, Turn to one *)
(* turn, and frequencies in parts of a bin, Turn to one bin.               *)
(***************************************************************************)
EXTENDS PitchFrame, Sequences, FiniteSetsExt, Sums

CONSTANTS
  Prime, Generator,
  Finer,           \* Turn as a multiple of the powers of Generator
  Factors,         \* the values of pitchShift, quotients <<p, q>>
  Inputs,          \* what the frames may hold
  MaxFrames        \* bound: how many frames there are

Residue == 0 .. Prime - 1
Order == Prime - 1
Turn == Order * Finer
fftFrameSize2 == fftFrameSize \div 2
Index == 0 .. fftFrameSize - 1
Bins == 0 .. fftFrameSize2

(* The powers of Generator.                                                *)
Power[e \in 0 .. Order] == IF e = 0 THEN 1 ELSE (Power[e - 1] * Generator) % Prime

(* e^(2 * pi * i * n / fftFrameSize)                                       *)
Root(n) == Power[((Order \div fftFrameSize) * n) % Order]

ASSUME FftAssumption ==         \* a power of 2: no divisor but 1 is odd
  fftFrameSize > 1 /\ \A d \in 2 .. fftFrameSize : fftFrameSize % d = 0 => d % 2 = 0
ASSUME ResidueAssumption ==
  /\ Prime \in Nat /\ Prime > 2 /\ Generator \in Nat /\ Order % fftFrameSize = 0
  /\ Power[Order] = 1 /\ {Power[e] : e \in 0 .. Order - 1} = Residue \ {0}
  /\ Finer \in Nat \ {0}
ASSUME TurnAssumption == Order % 2 = 0 /\ Order % osamp = 0
ASSUME FactorAssumption ==      \* what is moved by a factor needs no rounding
  /\ Factors \subseteq Int \X (Nat \ {0})
  /\ \A f \in Factors : Finer % f[2] = 0
ASSUME InputAssumption == Inputs \subseteq [Index -> Residue] /\ MaxFrames \in Nat

VARIABLES
  pitchShift,
  gFFTworksp,
  gLastPhase, gSumPhase,           \* per bin
  gAnaMagn, gAnaFreq,
  gSynMagn, gSynFreq,
  sign,                            \* of the transform in progress
  i, le,                           \* smbFft's loops
  k,                               \* the loop that moves the bins
  taken,                           \* how many frames have been taken
  input,                           \* history: what the last transform was given
  spectrum,                        \* history: what was analysed
  turned,                          \* history: the phases less those before
  pc               \* "window", "reverse", "stage", "analysis", "shift",
                   \* "synthesis", "accumulate"

static == <<pitchShift, gLastPhase, gSumPhase>>
analysed == <<gAnaMagn, gAnaFreq, spectrum, turned>>
synthesised == <<gSynMagn, gSynFreq>>
fft == <<gFFTworksp, sign, i, le, input>>
vars == <<static, analysed, synthesised, fft, k, taken, pc>>

Init ==
  /\ pitchShift \in Factors
  /\ gFFTworksp = [n \in Index |-> 0]
  /\ gLastPhase = [b \in Bins |-> 0]
  /\ gSumPhase = [b \in Bins |-> 0]
  /\ gAnaMagn = [b \in Bins |-> 0] /\ gAnaFreq = [b \in Bins |-> 0]
  /\ gSynMagn = [b \in Bins |-> 0] /\ gSynFreq = [b \in Bins |-> 0]
  /\ sign = -1
  /\ i = 1 /\ le = 2 /\ k = 0
  /\ taken = 0
  /\ input = gFFTworksp
  /\ spectrum = gFFTworksp
  /\ turned = gLastPhase
  /\ pc = "window"

-----------------------------------------------------------------------------
(* smbFft, in place.  An element is a pair of numbers in the code.         *)

StartFft(buffer, s) ==
  /\ gFFTworksp' = buffer
  /\ input' = buffer
  /\ sign' = s
  /\ i' = 1
  /\ le' = 2
  /\ pc' = "reverse"

(* -.5 * cos(2 * pi * n / fftFrameSize) + .5, four times.                  *)
Window(n) == 2 - Root(n) - Root(-n)

(* A frame has been collected.                                             *)
WindowFrame ==
  /\ pc = "window" /\ taken < MaxFrames
  /\ taken' = taken + 1
  /\ \E frame \in Inputs : StartFft([n \in Index |-> (frame[n] * Window(n)) % Prime], -1)
  /\ UNCHANGED <<static, analysed, synthesised, k>>

(* The powers of 2 that are bits of an index.                              *)
Bits == {bitm \in Index \ {0} : fftFrameSize % bitm = 0}

Bit(n, bitm) == (n \div bitm) % 2

(* The loop over bitm.                                                     *)
Reversed(n) ==
  SumUpTo([b \in Index |-> IF b \in Bits THEN Bit(n, b) * (fftFrameSize2 \div b) ELSE 0],
          fftFrameSize)

(* Mutant: the second of two elements is exchanged once more.              *)
ExchangeTwice(n) == Reversed(n) # n

Exchanged(n) == n < Reversed(n)

Reverse ==
  /\ pc = "reverse" /\ i < fftFrameSize - 1
  /\ gFFTworksp' = IF Exchanged(i)
                   THEN [gFFTworksp EXCEPT ![i] = gFFTworksp[Reversed(i)], ![Reversed(i)] = gFFTworksp[i]]
                   ELSE gFFTworksp
  /\ i' = i + 1
  /\ UNCHANGED <<static, analysed, synthesised, sign, le, input, k, taken, pc>>

EndReverse ==
  /\ pc = "reverse" /\ i >= fftFrameSize - 1
  /\ pc' = "stage"
  /\ UNCHANGED <<static, analysed, synthesised, fft, k, taken>>

(* One turn of the loop over k: every block of le elements (each of two    *)
(* numbers, le having been doubled) is combined from its halves.           *)
Combine ==
  /\ pc = "stage" /\ le <= fftFrameSize
  /\ LET half == le \div 2
         twiddled(n) == gFFTworksp[n] * Root(sign * (fftFrameSize \div le) * (n % half))
     IN  gFFTworksp' = [n \in Index |->
           IF n % le < half THEN (gFFTworksp[n] + twiddled(n + half)) % Prime
                            ELSE (gFFTworksp[n - half] - twiddled(n)) % Prime]
  /\ le' = 2 * le
  /\ UNCHANGED <<static, analysed, synthesised, sign, i, input, k, taken, pc>>

EndFft ==
  /\ pc = "stage" /\ le > fftFrameSize
  /\ pc' = IF sign = -1 THEN "analysis" ELSE "accumulate"
  /\ UNCHANGED <<static, analysed, synthesised, fft, k, taken>>

-----------------------------------------------------------------------------
(* Analysis, processing and synthesis.                                     *)

(* The powers that are v, within half a turn.                              *)
Directions(v) == {e \in 1 - Order \div 2 .. Order \div 2 : Power[e % Order] = v}

(* atan2; 0 for the number 0, which has no direction.                      *)
Phase(v) == IF Directions(v) = {} THEN 0 ELSE Finer * CHOOSE e \in Directions(v) : TRUE

Magnitude(v) == IF v = 0 THEN 0 ELSE 2

(* magn * cos(phase), magn * sin(phase); a phase between two of the        *)
(* directions there are is rounded.                                        *)
Cartesian(magn, phase) == (magn * Power[(phase \div Finer) % Order]) % Prime

(* Towards zero.                                                           *)
Truncated(a, b) == IF a >= 0 THEN a \div b ELSE -((-a) \div b)

expct == Turn \div osamp

(* Mutant: an odd number of half turns is taken off.                       *)
WrappedByHalf(tmp) == tmp - (Turn \div 2) * Truncated(2 * tmp, Turn)

(* The next even number of half turns, away from zero, is taken off.       *)
Wrapped(tmp) ==
  LET qpd == Truncated(2 * tmp, Turn)
      even == IF qpd >= 0 THEN qpd + (qpd % 2) ELSE qpd - (qpd % 2)
  IN  tmp - (Turn \div 2) * even

Analyse ==
  /\ pc = "analysis"
  /\ LET phase == [b \in Bins |-> Phase(gFFTworksp[b])]
         deviation(b) == Wrapped(phase[b] - gLastPhase[b] - b * expct)
     IN  /\ gAnaMagn' = [b \in Bins |-> Magnitude(gFFTworksp[b])]
         /\ gAnaFreq' = [b \in Bins |-> b * Turn + osamp * deviation(b)]
         /\ gLastPhase' = phase
         /\ turned' = [b \in Bins |-> phase[b] - gLastPhase[b]]
  /\ spectrum' = gFFTworksp
  /\ gSynMagn' = [b \in Bins |-> 0] /\ gSynFreq' = [b \in Bins |-> 0]
  /\ k' = 0
  /\ pc' = "shift"
  /\ UNCHANGED <<pitchShift, gSumPhase, fft, taken>>

index == Truncated(k * pitchShift[1], pitchShift[2])

(* Mutant: a bin takes the place of the one before it.                     *)
MovedOver(magn) == gAnaMagn[k]

Moved(magn) == magn + gAnaMagn[k]

(* A bin before the first one does not exist: what happens then is not     *)
(* defined, and the model has no step for it.                              *)
MoveBin ==
  /\ pc = "shift" /\ k \in Bins
  /\ index \in Bins
  /\ gSynMagn' = [gSynMagn EXCEPT ![index] = Moved(@)]
  /\ gSynFreq' = [gSynFreq EXCEPT ![index] = (gAnaFreq[k] * pitchShift[1]) \div pitchShift[2]]
  /\ k' = k + 1
  /\ UNCHANGED <<static, analysed, fft, taken, pc>>

DropBin ==
  /\ pc = "shift" /\ k \in Bins
  /\ index > fftFrameSize2
  /\ k' = k + 1
  /\ UNCHANGED <<static, analysed, synthesised, fft, taken, pc>>

EndShift ==
  /\ pc = "shift" /\ k \notin Bins
  /\ pc' = "synthesis"
  /\ UNCHANGED <<static, analysed, synthesised, fft, k, taken>>

(* Mutant: the phase of the frame before is forgotten.                     *)
AdvancedPhaseAnew(b) == (gSynFreq[b] - b * Turn) \div osamp + b * expct

AdvancedPhase(b) == gSumPhase[b] + (gSynFreq[b] - b * Turn) \div osamp + b * expct

(* The bins of negative frequencies are zeroed.                            *)
Synthesise ==
  /\ pc = "synthesis"
  /\ gSumPhase' = [b \in Bins |-> AdvancedPhase(b)]
  /\ StartFft([n \in Index |-> IF n \in Bins THEN Cartesian(gSynMagn[n], gSumPhase'[n]) ELSE 0], 1)
  /\ UNCHANGED <<pitchShift, gLastPhase, analysed, synthesised, k, taken>>

(* The real parts go to the accumulator (module PitchFifo).                *)
Accumulate ==
  /\ pc = "accumulate"
  /\ pc' = "window"
  /\ UNCHANGED <<static, analysed, synthesised, fft, k, taken>>

Next ==
  \/ WindowFrame \/ Reverse \/ EndReverse \/ Combine \/ EndFft
  \/ Analyse \/ MoveBin \/ DropBin \/ EndShift \/ Synthesise \/ Accumulate

Spec == Init /\ [][Next]_vars

-----------------------------------------------------------------------------

(* The discrete Fourier transform, by its definition.                      *)
Dft(x, s) ==
  [m \in Index |-> SumUpTo([n \in Index |-> x[n] * Root(s * m * n)], fftFrameSize) % Prime]

(* smbFft turns any buffer into its transform, forward or back             *)
(* (audio.cpp:507-562): the elements exchanged in place are all exchanged  *)
(* once, and every factor of every stage is right.                         *)
FftIsTransform == pc \in {"analysis", "accumulate"} => gFFTworksp = Dft(input, sign)

(* The frequency that a bin is taken for (audio.cpp:416-433) explains what *)
(* its phase has done: it turns by as much from frame to frame, up to      *)
(* whole turns, and no other such frequency is nearer to the bin.          *)
FrequencyExplainsPhase ==
  pc = "shift" => \A b \in Bins :
    /\ (gAnaFreq[b] - osamp * turned[b]) % (osamp * Turn) = 0
    /\ \A d \in {-1, 1} :
         LET other == gAnaFreq[b] + d * osamp * Turn - b * Turn
             this == gAnaFreq[b] - b * Turn
         IN  this * this <= other * other

(* "The routine takes a pitchShift factor value which is between 0.5 (one  *)
(* octave down) and 2. (one octave up)" (audio.cpp:298): no bin outside    *)
(* the arrays is written (audio.cpp:445-450).  With the factors that       *)
(* ChangePitch hands over (audio.cpp:153) it is.                           *)
BinsInRange == pc = "shift" /\ k \in Bins => index >= 0

(* When all are moved (audio.cpp:441-451) a bin has all the magnitude      *)
(* that belongs to it and no other, and the frequency of the last that     *)
(* does, moved with it.                                                    *)
Belong(b) == {c \in Bins : b * pitchShift[2] <= c * pitchShift[1]
                             /\ c * pitchShift[1] < (b + 1) * pitchShift[2]}

SpectrumIsStretched ==
  pc = "synthesis" => \A b \in Bins :
    /\ gSynMagn[b] = SumUpTo([c \in Bins |-> IF c \in Belong(b) THEN gAnaMagn[c] ELSE 0],
                             fftFrameSize2 + 1)
    /\ Belong(b) # {} => gSynFreq[b] * pitchShift[2] = gAnaFreq[Max(Belong(b))] * pitchShift[1]

(* "A value of exactly 1 does not change the pitch" (audio.cpp:299): each  *)
(* bin goes back to the transform as it came out of it, its phase having   *)
(* been taken apart and put together over any number of frames; only the   *)
(* magnitude is doubled for the negative frequencies that are dropped.     *)
UnshiftedIsUnchanged ==
  pitchShift[1] = pitchShift[2] /\ sign = 1 /\ pc = "reverse" =>
    \A b \in Bins : input[b] = (2 * spectrum[b]) % Prime
=============================================================================
