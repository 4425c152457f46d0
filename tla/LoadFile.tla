------------------------------ MODULE LoadFile ------------------------------
(***************************************************************************)
(* Audio::LoadFile with all of libsndfile that it runs through.            *)
(***************************************************************************)
EXTENDS WavRead, OggRead, FlacRead

CONSTANT Files    \* the files there may be

Pages == [serial : Nat, holds : STRING, packets : Nat, first : Nat, last : Nat, eos : BOOLEAN, whole : BOOLEAN, granule : Int]
Blocks == [first : Nat, last : Nat, whole : BOOLEAN]

(* first .. last are frames of the file's sound.                           *)
Holds(f, first, last) == 0 < first /\ first <= last + 1 /\ f.channels * last <= f.sound

(* Any numbers at all may stand in a file's chunks and pages; but what is  *)
(* decoded of the stream that is read comes from its sound.                *)
ASSUME FilesAssumption ==
  \A f \in Files :
    /\ f.kind \in {"wav", "ogg", "flac", "other"}
    /\ f.channels \in Nat \ {0} /\ f.sound \in Nat
    /\ f.kind = "wav" =>
         /\ f.width \in Nat \ {0} /\ f.length \in Nat /\ f.first \in Nat
         /\ \A h \in f.heads : h.size \in Nat /\ h.count \in Nat
    /\ f.kind = "ogg" =>
         /\ f.pages \in Seq(Pages)
         /\ \A k \in 1 .. Len(f.pages) :
              f.pages[k].holds = "audio" /\ f.pages[k].serial = f.pages[1].serial =>
                Holds(f, f.pages[k].first, f.pages[k].last)
    /\ f.kind = "flac" =>
         /\ f.total \in Nat
         /\ f.blocks \in Seq(Blocks)
         /\ \A k \in 1 .. Len(f.blocks) : Holds(f, f.blocks[k].first, f.blocks[k].last)

vars == <<file, pc, channels, frames, samples, ptr, wav, ogg, flac>>

InitLoad == file \in Files /\ Init /\ InitWav /\ InitOgg /\ InitFlac

Load ==
  \/ (guess_file_type \/ validate_sfinfo \/ Create) /\ UNCHANGED <<wav, ogg, flac>>
  \/ ReadWav /\ UNCHANGED <<ogg, flac>>
  \/ ReadOgg /\ UNCHANGED <<wav, flac>>
  \/ ReadFlac /\ UNCHANGED <<wav, ogg>>

Spec == InitLoad /\ [][Load]_vars /\ WF_vars(Load)

-----------------------------------------------------------------------------

(* Types: where the loader may be, a cache that has not handed out more    *)
(* than it holds and holds no more than there is room for, and a buffer    *)
(* whose samples have one of the four origins.                             *)
TypeOK ==
  /\ file.kind \in {"wav", "ogg", "flac", "other"}
  /\ pc \in {"guess", "chunk", "case", "list", "header", "classify", "headers", "length", "free",
             "metadata", "validate", "create", "read", "rest", "piece", "refused", "loaded"}
  /\ channels \in {0, file.channels}
  /\ frames \in Int /\ samples \in Nat
  /\ \A k \in DOMAIN ptr : ptr[k] \in 1 .. file.sound \/ ptr[k] \in {Silence, Noise}
  /\ 0 <= io.index /\ io.index <= io.end /\ io.end <= HeaderLen
  /\ parsestage \subseteq {"RIFF", "WAVE", "fmt"}
  /\ file.kind = "ogg" => page \in 0 .. Len(file.pages) /\ packets \in 0 .. 2
  /\ file.kind = "flac" => block \in 0 .. Len(file.blocks) /\ goal \in 0 .. samples

(* No format puts more into the program's buffer than sf_read_short was    *)
(* asked for, whatever lengths the file claims: the granule positions of   *)
(* an Ogg file and the metadata of a FLAC file are not its content.        *)
WithinBuffer == Len(ptr) <= samples

Ended == pc \in {"refused", "loaded"}

S == INSTANCE SoundInput WITH
  sound <- file.sound,
  intact <- file.intact,
  outcome <- IF Ended THEN pc ELSE "loading",
  heard <- IF pc = "loaded" THEN Heard ELSE <<>>

(* An intact file, also a WAV file that was never closed, is loaded, and   *)
(* the program gets its samples, all of them in their order; of any other  *)
(* it gets at most samples of the sound in their order, silence between    *)
(* them, and what is no sound at the end.                                  *)
Promise == S!Spec

(* Loading comes to an end, whatever the file holds: the search for the    *)
(* next chunk goes back, the items of a LIST are counted by one variable   *)
(* and passed by another, and an Ogg file is looked through three times.   *)
LoadEnds == <>Ended
=============================================================================
