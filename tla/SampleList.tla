----------------------------- MODULE SampleList -----------------------------
(***************************************************************************)
(* What an Audio is to its user: a list of samples of its own.  It can be  *)
(* emptied, appended to, read from a file, resampled frame by frame and    *)
(* rewritten in place, and nothing done to one Audio shows in another.     *)
(* Resampling is what module Rate says of it: each sample comes from the   *)
(* old list, but for those the code takes from behind it, which may be     *)
(* anything.                                                               *)
(*                                                                         *)
(* Module AudioData is the code's growable buffer, with its blocks of      *)
(* memory, and is shown to implement this.  The actions constrain `list''  *)
(* and are not meant to be enumerated.                                     *)
(***************************************************************************)
EXTENDS Rate, Sequences

CONSTANTS
  Holder,        \* the Audio objects
  Cell,          \* what a list may hold
  Rates          \* the speeds a list is resampled at

VARIABLE list      \* the samples of each Audio

(* The list of h, and no other, may change.                                *)
Only(h) == \A g \in Holder \ {h} : list'[g] = list[g]

Init == list = [h \in Holder |-> <<>>]

Empty(h) == Only(h) /\ list'[h] = <<>>
Append1(h) == Only(h) /\ \E v \in Cell : list'[h] = Append(list[h], v)
Load(h) == Only(h) /\ list[h] = <<>> /\ list'[h] \in Seq(Cell)
Resample(h) ==
  /\ Only(h)
  /\ list'[h] \in Seq(Cell)
  /\ \E d \in Rates : ResampledBy(list'[h], list[h], Clamped(d))
Reshape(h) == Only(h) /\ list'[h] \in Seq(Cell) /\ Len(list'[h]) = Len(list[h])
Drop == list' = [h \in Holder |-> <<>>]

Next ==
  \/ Drop
  \/ \E h \in Holder : Empty(h) \/ Append1(h) \/ Load(h) \/ Resample(h) \/ Reshape(h)

Spec == Init /\ [][Next]_list
=============================================================================
