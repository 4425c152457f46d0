----------------------------- MODULE MCAudioData -----------------------------
(* An instance of AudioData for TLC.                                       *)
EXTENDS AudioData, TLC

(* Half the speed, which reads behind every list; a slower one that does   *)
(* so behind odd lists only; and a faster one.                             *)
MCRates == {<<1, 2>>, <<2, 3>>, <<2, 1>>}

(* Addresses are interchangeable, and so are values and Audio objects.     *)
Interchangeable ==
  Permutations(Block) \cup Permutations(Value) \cup Permutations(Holder)
=============================================================================
