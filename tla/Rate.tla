-------------------------------- MODULE Rate --------------------------------
(***************************************************************************)
(* The arithmetic of Audio::ChangeRate(d) (bmx2ogg/audio.cpp:120-139).     *)
(* The speed d, a double, is a quotient of two integers here and its       *)
(* arithmetic exact; the conversions to int cut the fraction off, as in    *)
(* the code.                                                               *)
(***************************************************************************)
EXTENDS Integers, Sequences

(* A speed: <<numerator, denominator>>.  0 is what atof makes of an        *)
(* argument that is no number; a negative one is clamped as 0 is.          *)
Speed == Nat \X (Nat \ {0})

Faster(d, e) == d[1] * e[2] > e[1] * d[2]

(* `if (d < 0.1) d = 0.1'.                                                 *)
Clamped(d) == IF Faster(<<1, 10>>, d) THEN <<1, 10>> ELSE d

(* Mutant: the last frame is not split off into left and right.            *)
NewCountOdd(n, d) == (n * d[2]) \div d[1]

(* Mutant: the length is rounded up to a frame.                            *)
NewCountUp(n, d) == 2 * ((n * d[2] + 2 * d[1] - 1) \div (2 * d[1]))

(* new_sample, for a list of n samples.                                    *)
NewCount(n, d) == 2 * ((n * d[2]) \div (2 * d[1]))

(* oidx_next, the position that output position k comes from.              *)
SourceOf(k, d) == (k * d[1]) \div d[2]

(* Mutant: oidx is stepped by single samples.                              *)
AdvancedBySample(oidx, next) == IF oidx < next THEN next ELSE oidx

(* The inner loop steps oidx by whole frames until it has reached next.    *)
Advanced(oidx, next) ==
  IF oidx < next THEN next + ((next - oidx) % 2) ELSE oidx

(* The position that frame k (0, 1, ..) of the new list is taken from: the *)
(* first left sample that is not before the position the speed asks for.   *)
FrameOf(k, d) == 2 * ((SourceOf(2 * k, d) + 1) \div 2)

(* The element of the old list that element p of the new one is copied     *)
(* from.  It may lie behind the last one: see StaysInList.                 *)
Origin(p, d) == FrameOf((p - 1) \div 2, d) + ((p - 1) % 2) + 1

(* The speed does not leave a list of n samples: any speed from 1 on, and  *)
(* any speed above 1/2 if the list holds whole frames.                     *)
StaysInList(n, d) ==
  \/ ~Faster(<<1, 1>>, d)
  \/ Faster(d, <<1, 2>>) /\ n % 2 = 0

(* What ChangeRate(d) makes of the samples s, if the memory behind them    *)
(* holds the two samples `behind'; it never looks further.                 *)
Resampled(s, d, behind) ==
  [p \in 1 .. NewCount(Len(s), d) |-> (s \o behind)[Origin(p, d)]]

(* The samples t are what ChangeRate(d) may make of the samples s: every   *)
(* one that comes from s is as in s, and anything is in place of one that  *)
(* does not.                                                               *)
ResampledBy(t, s, d) ==
  /\ Len(t) = NewCount(Len(s), d)
  /\ \A p \in 1 .. Len(t) : Origin(p, d) <= Len(s) => t[p] = s[Origin(p, d)]
=============================================================================
