---------------------------- MODULE SndfileHandle ----------------------------
(***************************************************************************)
(* A SndfileHandle that is opened for writing, as the program that uses it *)
(* knows it.  The program (SaveFile), the library (SndFile) and what one   *)
(* promises the other (SoundFile) share these variables.                   *)
(*                                                                         *)
(* A sample is represented by its position in what is handed over.         *)
(***************************************************************************)
EXTENDS Integers, Sequences

VARIABLES
  format,        \* "wav", "flac" or "ogg"
  handle,        \* "unopened", "null", "open", "closing", "closed", "crashed"
  handed,        \* how many samples were handed over
  asked,         \* how many the call in progress hands over, 0 between calls
  good,          \* has every call taken all it was given?
  disk           \* "fits", "full" (it has refused to take a byte), or
                 \* "relieved" (it has, and then room was made on it)

Formats == {"wav", "flac", "ogg"}

(* The positions from .. to - 1.                                           *)
Positions(from, to) == [k \in 1 .. to - from |-> from + k - 1]
=============================================================================
