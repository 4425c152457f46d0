----------------------------- MODULE MCSpectrum -----------------------------
(* Instances of Spectrum for TLC: frames of 16 and of 8.                   *)
EXTENDS Spectrum

(* An impulse in every place, and frames in which all is different.        *)
Impulse(p) == [n \in Index |-> IF n = p THEN 1 ELSE 0]
MCInputs ==
  {Impulse(p) : p \in {1, 2, 5, 8, 14}}
    \cup {[n \in Index |-> (a * n * n + 5 * n + 1) % Prime] : a \in {1, 3, 6}}

MCFactors == {<<1, 2>>, <<3, 4>>, <<1, 1>>, <<3, 2>>, <<2, 1>>}

(* What ChangePitch makes of -pitch -12, -6, 6 and 12.                     *)
MCPitches == {<<-p, 12>> : p \in {-12, -6, 6, 12}}
=============================================================================
