------------------------------- MODULE MCMixer -------------------------------
(* Instances of Mixer for TLC.  A short is scaled down to -3 .. 2: still    *)
(* asymmetric, as -32768 .. 32767 is.                                       *)
EXTENDS Mixer

MCSampleMin == -3

(* An odd and an even length, and levels that clip on either side when two *)
(* channels are added.                                                      *)
MCSounds == {<<2>>, <<-3, 2>>, <<1, -3, 2>>}

(* A start tick or tick that happens to be negative, or large.              *)
MCUnset == {-1, 4}
=============================================================================
