------------------------------ MODULE SaveFile ------------------------------
(***************************************************************************)
(* Audio::SaveFile (bmx2ogg/audio.cpp:30-74): the samples are handed to    *)
(* libsndfile in pieces of at most SAMPLECHUNKSIZE.  Every call of the     *)
(* library is a step of SoundFile (S), which module SndFile implements.    *)
(*                                                                         *)
(* A sample is represented by its position in the buffer.                  *)
(***************************************************************************)
EXTENDS SndfileHandle

CONSTANTS
  SAMPLECHUNKSIZE,
  MaxSamples         \* bound: the longest buffer that is saved

ASSUME ChunkAssumption == SAMPLECHUNKSIZE \in Nat \ {0} /\ SAMPLECHUNKSIZE % 2 = 0
ASSUME MaxSamplesAssumption == MaxSamples \in Nat

VARIABLES
  file,          \* the samples in the file, as in SoundFile
  sample,        \* buf.GetSampleCount()
  i,             \* how many of them the loop has handed over
  stream,        \* history: what was handed over and accepted
  opened,        \* history: has the file been opened?
  result,        \* what SaveFile returns
  pc             \* "open", "loop", "write", "destroy", "destroying", "returned"

library == <<format, handle, handed, asked, good, file, disk>>
vars == <<library, sample, i, stream, opened, result, pc>>

S == INSTANCE SoundFile WITH MaxPiece <- SAMPLECHUNKSIZE

Init ==
  /\ S!Init
  /\ sample \in 0 .. MaxSamples
  /\ i = 0
  /\ stream = <<>>
  /\ opened = FALSE
  /\ result = FALSE
  /\ pc = "open"

(* SndfileHandle file(path, SFM_WRITE, ...), the tags and the quality.     *)
Open ==
  /\ pc = "open"
  /\ S!Open
  /\ opened' = (handle' = "open")
  /\ pc' = "loop"
  /\ UNCHANGED <<sample, i, stream, result>>

nchunk == IF sample - i > SAMPLECHUNKSIZE THEN SAMPLECHUNKSIZE ELSE sample - i

(* Mutant: the pointer is not moved on.                                    *)
PieceFromStart == Positions(0, nchunk)

(* buf.GetPtr() + i                                                        *)
Piece == Positions(i, i + nchunk)

(* file.write, up to its result.                                           *)
Write ==
  /\ pc = "loop" /\ i < sample
  /\ S!Call(nchunk)
  /\ stream' = IF handed' = handed THEN stream ELSE stream \o Piece
  /\ pc' = "write"
  /\ UNCHANGED <<sample, i, opened, result>>

(* Mutant: what was not taken is not noticed.                              *)
CheckNothing ==
  /\ pc = "write"
  /\ \E r \in 0 .. asked : S!Return(r)
  /\ i' = i + nchunk
  /\ pc' = "loop"
  /\ UNCHANGED <<sample, stream, opened, result>>

(* Mutant: a short write is retried until all is taken.                    *)
CheckRetrying ==
  /\ pc = "write"
  /\ \E r \in 0 .. asked : S!Return(r) /\ i' = i + r
  /\ pc' = "loop"
  /\ UNCHANGED <<sample, stream, opened, result>>

CheckCount ==
  /\ pc = "write"
  /\ \E r \in 0 .. asked :
       /\ S!Return(r)
       /\ IF r # nchunk
          THEN pc' = "destroy" /\ result' = FALSE /\ UNCHANGED i
          ELSE i' = i + nchunk /\ pc' = "loop" /\ UNCHANGED result
  /\ UNCHANGED <<sample, stream, opened>>

ReturnTrue ==
  /\ pc = "loop" /\ i >= sample
  /\ result' = TRUE
  /\ pc' = "destroy"
  /\ UNCHANGED <<library, sample, i, stream, opened>>

(* The handle's destructor, when the result is decided.                    *)
Destroy ==
  /\ pc = "destroy"
  /\ S!Close
  /\ pc' = "destroying"
  /\ UNCHANGED <<sample, i, stream, opened, result>>

Leave ==
  /\ pc = "destroying" /\ handle = "closed"
  /\ pc' = "returned"
  /\ UNCHANGED <<library, sample, i, stream, opened, result>>

Inside == S!Inside /\ UNCHANGED <<sample, i, stream, opened, result, pc>>

Next == Open \/ Write \/ CheckCount \/ ReturnTrue \/ Destroy \/ Leave \/ Inside

(* One thread, in which each call of the library comes to its end          *)
(* (SndFile!CallsReturn): what it can store it stores, and then it returns.*)
Spec ==
  /\ Init /\ [][Next]_vars
  /\ WF_vars(Open \/ Write \/ CheckCount \/ ReturnTrue \/ Destroy \/ Leave)
  /\ WF_vars(Inside /\ S!Store) /\ WF_vars(Inside /\ S!Closed)

-----------------------------------------------------------------------------

TypeOK ==
  /\ format \in Formats
  /\ disk \in {"fits", "full", "relieved"}
  /\ sample \in Nat
  /\ i \in 0 .. sample
  /\ handed \in Nat /\ asked \in Nat
  /\ file \in Seq(Nat)
  /\ good \in BOOLEAN /\ opened \in BOOLEAN /\ result \in BOOLEAN

(* The samples in the file, as positions in the buffer.                    *)
Music == [k \in DOMAIN file |-> stream[file[k] + 1]]

(* At any moment, so also if the program dies there, the file holds a      *)
(* prefix of the music: no piece is lost, repeated or misplaced, unless a  *)
(* disk that was full has been relieved.                                   *)
HoldsPrefix == disk # "relieved" => Music = Positions(0, Len(file))

(* If SaveFile reports success, the file holds all of the music, except    *)
(* that nobody notices a disk that becomes full when the encoders of Ogg   *)
(* and FLAC write later what they have taken; for WAV it must have been    *)
(* relieved meanwhile.  If SaveFile reports failure there is a reason, and *)
(* for music in whole frames it lies with the file or the disk.            *)
ResultIsHonest ==
  pc = "returned" =>
    /\ result => \/ Len(file) = sample
                 \/ disk = "relieved"
                 \/ disk = "full" /\ format # "wav"
    /\ ~result => ~opened \/ disk # "fits" \/ sample % 2 # 0

(* SaveFile returns, if it does not die of a FLAC header that could not be *)
(* written.                                                                *)
Terminates == <>(pc = "returned" \/ handle = "crashed")
=============================================================================
