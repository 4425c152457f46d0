------------------------------ MODULE SndRead ------------------------------
(***************************************************************************)
(* libsndfile as Audio::LoadFile meets it, reading: what the three formats *)
(* WavRead, OggRead and FlacRead have in common (sndfile.c), and the       *)
(* program's own part (audio.cpp).  Module LoadFile puts them together.    *)
(*                                                                         *)
(* A file is a record with the fields kind ("wav", "ogg", "flac" or        *)
(* "other"), channels, sound (how many samples were put into it), intact,  *)
(* and those that its format adds.                                         *)
(***************************************************************************)
EXTENDS Integers, SequencesExt

CONSTANTS Silence, Noise, Junk    \* as in SoundInput

VARIABLES
  file,        \* the file that is read
  pc,          \* where LoadFile is
  channels,    \* psf->sf.channels
  frames,      \* psf->sf.frames
  samples,     \* how many buf has room for and is said to hold
  ptr          \* what has been written into it

handle == <<file, channels, frames>>
buf == <<samples, ptr>>

Endless == 2147483647    \* SF_COUNT_MAX frames

Init ==
  /\ pc = "guess"
  /\ channels = 0
  /\ frames = 0
  /\ samples = 0
  /\ ptr = <<>>

(* psf_open_file looks at the first bytes; where the format goes on.       *)
guess_file_type ==
  /\ pc = "guess"
  /\ pc' = [wav |-> "chunk", ogg |-> "classify", flac |-> "metadata", other |-> "refused"][file.kind]
  /\ UNCHANGED <<handle, buf>>

(* validate_sfinfo: a format that counts fewer than no frames is refused,  *)
(* and so is a handle without channels.                                    *)
validate_sfinfo ==
  /\ pc = "validate"
  /\ pc' = IF channels < 1 \/ frames < 0 THEN "refused" ELSE "create"
  /\ UNCHANGED <<handle, buf>>

(* The buffer is malloc'ed.  Twice SF_COUNT_MAX is -2 and the malloc fails; *)
(* so it does for one channel, and the decoder drops what it decodes if it *)
(* has nowhere to put it.                                                  *)
Create ==
  /\ pc = "create"
  /\ samples' = IF frames = Endless THEN 0 ELSE channels * frames
  /\ pc' = IF samples' = 0 THEN "loaded" ELSE "read"
  /\ UNCHANGED <<handle, ptr>>

(* What a format adds to the buffer and how it goes on.                    *)
Deliver(more, next) ==
  /\ ptr' = ptr \o more
  /\ pc' = next
  /\ UNCHANGED <<handle, samples>>

(* The samples of the frames first .. last of the sound.                   *)
SamplesOf(first, last) ==
  [k \in 1 .. channels * (last - first + 1) |-> channels * (first - 1) + k]

(* Nobody looks at how many were read.                                     *)
Heard == ptr \o [k \in 1 .. samples - Len(ptr) |-> Junk]
=============================================================================
