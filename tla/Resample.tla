------------------------------ MODULE Resample ------------------------------
(***************************************************************************)
(* The loop of Audio::ChangeRate(d) (bmx2ogg/audio.cpp:120-144), one turn  *)
(* per step.  Every turn adds one frame, a left and a right sample, to the *)
(* new list, copied from the positions oidx and oidx + 1 of the old one.   *)
(* Neither position is tested against the number of samples there are.     *)
(***************************************************************************)
EXTENDS Rate

CONSTANTS
  MaxCount,      \* bound: the longest list that is resampled
  Rates          \* the speeds asked for

ASSUME MaxCountAssumption == MaxCount \in Nat
ASSUME RatesAssumption == Rates \subseteq Speed

VARIABLES
  count,         \* buf.GetSampleCount()
  d,             \* the speed
  new_sample,    \* the size of the new list
  i,             \* position in the new list
  oidx,          \* position in the old one
  taken,         \* history: the positions the frames added so far came from
  pc             \* "call", then "loop", then "done"

vars == <<count, d, new_sample, i, oidx, taken, pc>>

(* i stays within the new list, so that Add (audio.cpp:137-138) never has  *)
(* to enlarge what Create(new_sample) allocated.                           *)
TypeOK ==
  /\ count \in Nat
  /\ d \in Speed
  /\ new_sample \in Nat
  /\ i \in 0 .. new_sample
  /\ oidx \in Nat
  /\ taken \in Seq(Nat)
  /\ pc \in {"call", "loop", "done"}

Init ==
  /\ count \in 0 .. MaxCount
  /\ d \in Rates
  /\ new_sample = 0
  /\ i = 0
  /\ oidx = 0
  /\ taken = <<>>
  /\ pc = "call"

(* Up to the loop's first test.                                            *)
Prepare ==
  /\ pc = "call"
  /\ pc' = "loop"
  /\ d' = Clamped(d)
  /\ new_sample' = NewCount(count, Clamped(d))
  /\ UNCHANGED <<count, i, oidx, taken>>

(* Mutant: the source position is advanced after it is read.               *)
CopyFrameThenAdvance ==
  /\ pc = "loop"
  /\ i < new_sample
  /\ oidx' = Advanced(oidx, SourceOf(i + 2, d))
  /\ taken' = Append(taken, oidx')
  /\ i' = i + 2
  /\ UNCHANGED <<count, d, new_sample, pc>>

(* One turn.                                                               *)
CopyFrame ==
  /\ pc = "loop"
  /\ i < new_sample
  /\ oidx' = Advanced(oidx, SourceOf(i, d))
  /\ taken' = Append(taken, oidx')
  /\ i' = i + 2
  /\ UNCHANGED <<count, d, new_sample, pc>>

(* The new list replaces the old one.                                      *)
Finish ==
  /\ pc = "loop"
  /\ i >= new_sample
  /\ pc' = "done"
  /\ UNCHANGED <<count, d, new_sample, i, oidx, taken>>

Next == Prepare \/ CopyFrame \/ Finish

Spec == Init /\ [][Next]_vars

-----------------------------------------------------------------------------
(* Every position that is read holds a sample (audio.cpp:135-136), although *)
(* no test says so: it follows from the size chosen for the new list.      *)
(* This is so for the speeds that stay inside the list (module Rate); what *)
(* the others bring into it is the subject of module AudioData.            *)
ReadsInRange ==
  pc # "call" /\ StaysInList(count, d) => \A k \in DOMAIN taken : taken[k] + 1 < count

(* The two channels are never swapped or mixed up, and no frame is taken   *)
(* from further than one sample from where the speed puts it: the error of *)
(* stepping oidx along does not accumulate.                                *)
OnTime ==
  \A k \in DOMAIN taken :
    LET ideal == 2 * (k - 1) * d[1]
    IN  /\ taken[k] % 2 = 0
        /\ ideal - d[2] < taken[k] * d[2]
        /\ taken[k] * d[2] <= ideal + d[2]

(* The result is made of whole frames and has the length the speed asks    *)
(* for, up to one frame: the end of the music is not lost.                 *)
LengthScaled ==
  pc = "done" =>
    /\ 2 * Len(taken) = new_sample
    /\ new_sample * d[1] <= count * d[2]
    /\ count * d[2] < (new_sample + 2) * d[1]
=============================================================================
