----------------------------- MODULE SoundInput -----------------------------
(***************************************************************************)
(* What a program may rely on that reads a sound file with libsndfile the  *)
(* way Audio::LoadFile does: it opens the file, makes room for as many     *)
(* samples as the handle claims, and reads them all in one call.  Module   *)
(* LoadFile has the code and is shown to implement this.                   *)
(*                                                                         *)
(* A sample is represented by its position in the sound that was once put  *)
(* into the file.                                                          *)
(***************************************************************************)
EXTENDS Integers, Sequences

CONSTANTS
  Silence,      \* a sample of value 0 that a decoder gives for one it lost
  Noise,        \* a sample made of bytes that are none of the sound
  Junk          \* what is in a piece of memory that was not written to

VARIABLES
  sound,        \* how many samples the sound has
  intact,       \* has nothing happened to the file, and is it a plain one?
  outcome,      \* "loading", "refused" or "loaded"
  heard         \* the samples the program has afterwards

vars == <<sound, intact, outcome, heard>>

Init ==
  /\ sound \in Nat
  /\ intact \in BOOLEAN
  /\ outcome = "loading"
  /\ heard = <<>>

(* Samples of the sound in their order, some of them perhaps left out or   *)
(* silent, and nothing of the sound behind what is none.                   *)
PartOfSound(h) ==
  LET rubbish == {k \in DOMAIN h : h[k] \in {Noise, Junk}}
      real == {k \in DOMAIN h : h[k] \notin {Silence, Noise, Junk}}
  IN  /\ \A k \in real : h[k] \in 1 .. sound
      /\ \A j, k \in real : j < k => h[j] < h[k]
      /\ \A j \in real, k \in rubbish : j < k

Load ==
  /\ outcome = "loading"
  /\ outcome' = "loaded"
  /\ IF intact THEN heard' = [k \in 1 .. sound |-> k] ELSE PartOfSound(heard')
  /\ UNCHANGED <<sound, intact>>

(* A file that is not intact need not be loaded.                           *)
Refuse ==
  /\ outcome = "loading" /\ ~intact
  /\ outcome' = "refused"
  /\ UNCHANGED <<sound, intact, heard>>

Next == Load \/ Refuse

Spec == Init /\ [][Next]_vars
=============================================================================
