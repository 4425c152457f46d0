------------------------------ MODULE SoundMix ------------------------------
(***************************************************************************)
(* What the mixer of bmx2ogg promises, without its mechanism: every        *)
(* channel is a sound with at most one play head, and the track is the sum *)
(* of the samples under the play heads.  Starting a channel puts its head  *)
(* back on the first sample (a key sound that is struck again is cut and   *)
(* replayed), stopping lifts the head, and a head that walks past the end  *)
(* of its sound is lifted too.  Exporting clips the track into the range   *)
(* of an output sample.                                                    *)
(*                                                                         *)
(* Module Mixer is the code's mechanism and is checked to implement this.  *)
(***************************************************************************)
EXTENDS Integers, Sequences, Sums

CONSTANTS
  Channels,     \* how many channels the mixer has
  Sounds,       \* the sounds a channel may hold: sequences of samples
  MaxSpan,      \* bound: the most samples played in one step
  SMin, SMax,   \* the least and the greatest output sample
  Lifted        \* the play head of a channel that is not sounding

Channel == 0 .. Channels - 1

VARIABLES
  sound,        \* the samples of each channel
  head,         \* per channel: how many samples it has played, or Lifted
  track,        \* what has been mixed since recording began
  product,      \* the last exported track
  recording     \* is a track being recorded?

mixVars == <<sound, head, track, product, recording>>

Clip(s) == IF s > SMax THEN SMax ELSE IF s < SMin THEN SMin ELSE s

(* A head on position n of channel c, lifted when the sound is over.       *)
HeadAt(c, n) == IF n < Len(sound[c]) THEN n ELSE Lifted

(* What channel c contributes k samples from now.                          *)
Voice(c, k) ==
  IF head[c] # Lifted /\ head[c] + k < Len(sound[c])
  THEN sound[c][head[c] + k + 1]
  ELSE 0

(* What all channels together contribute k samples from now.               *)
Level(k) == SumUpTo([c \in Channel |-> Voice(c, k)], Channels)

-----------------------------------------------------------------------------

Init ==
  /\ sound = [c \in Channel |-> <<>>]
  /\ head = [c \in Channel |-> Lifted]
  /\ track = <<>>
  /\ product = <<>>
  /\ recording = FALSE

(* Channel c gets a new sound, or loses the one it had; not while recording. *)
Load(c) ==
  /\ ~recording
  /\ \E s \in Sounds \cup {<<>>} : sound' = [sound EXCEPT ![c] = s]
  /\ UNCHANGED <<head, track, product, recording>>

(* The whole sound bank is dropped.                                        *)
UnloadAll ==
  /\ ~recording
  /\ sound' = [c \in Channel |-> <<>>]
  /\ UNCHANGED <<head, track, product, recording>>

Record ==
  /\ ~recording
  /\ recording' = TRUE
  /\ track' = <<>>
  /\ product' = <<>>
  /\ head' = [c \in Channel |-> Lifted]
  /\ UNCHANGED sound

Strike(c) ==
  /\ recording
  /\ head' = [head EXCEPT ![c] = HeadAt(c, 0)]
  /\ UNCHANGED <<sound, track, product, recording>>

Damp(c) ==
  /\ recording
  /\ head' = [head EXCEPT ![c] = Lifted]
  /\ UNCHANGED <<sound, track, product, recording>>

(* The track grows by t samples and every head moves t samples on.         *)
Play(t) ==
  /\ recording
  /\ track' = track \o [k \in 1 .. t |-> Level(k - 1)]
  /\ head' = [c \in Channel |->
                IF head[c] = Lifted THEN Lifted ELSE HeadAt(c, head[c] + t)]
  /\ UNCHANGED <<sound, product, recording>>

Export ==
  /\ recording
  /\ product' = [k \in 1 .. Len(track) |-> Clip(track[k])]
  /\ recording' = FALSE
  /\ track' = <<>>
  /\ head' = [c \in Channel |-> Lifted]
  /\ UNCHANGED sound

Next ==
  \/ \E c \in Channel : Load(c) \/ Strike(c) \/ Damp(c)
  \/ \E t \in 0 .. MaxSpan : Play(t)
  \/ UnloadAll
  \/ Record
  \/ Export

Spec == Init /\ [][Next]_mixVars
=============================================================================
