------------------------------ MODULE FlacRead ------------------------------
(***************************************************************************)
(* flac_open and the reading of samples (flac.c).  The decoder of libFLAC  *)
(* is external: it decodes one block after another, and of a damaged one   *)
(* it reports an error and gives silence or nothing.                       *)
(*                                                                         *)
(* A FLAC file is a sequence of blocks with the frames first .. last of    *)
(* the sound, behind metadata that say how many frames there are, 0 if     *)
(* that was not known when they were written.  Files with more than two    *)
(* channels are left out: a piece would not end with a frame.              *)
(***************************************************************************)
EXTENDS SndRead

CONSTANT Piece    \* how many samples flac_read_flac2s asks for at a time

ASSUME PieceAssumption == Piece \in Nat \ {0} /\ Piece % 2 = 0

VARIABLES
  block,       \* how many blocks were decoded
  left,        \* the samples of the last one that were not copied yet (from bufferpos)
  goal,        \* pflac->len: where the piece in progress ends in the buffer
  broken       \* psf->error

flac == <<block, left, goal, broken>>

InitFlac == block = 0 /\ left = <<>> /\ goal = 0 /\ broken = FALSE

Block(first, last) == [first |-> first, last |-> last, whole |-> TRUE]

FlacFile(ch, bits, total, blocks, frameCount, readable) ==
  LET to(k) == IF k = 0 THEN 0 ELSE blocks[k].last
  IN  [kind |-> "flac", channels |-> ch, bits |-> bits, total |-> total, blocks |-> blocks,
       readable |-> readable, sound |-> ch * frameCount,
       intact |-> /\ readable /\ bits \in {8, 16, 24} /\ total = frameCount /\ total > 0
                  /\ to(Len(blocks)) = frameCount
                  /\ \A k \in DOMAIN blocks : blocks[k].whole /\ blocks[k].first = to(k - 1) + 1]

(* Metadata that cannot be read leave an error behind, or no format.  When *)
(* there is no number of frames in them, sf_flac_meta_callback takes       *)
(* SF_COUNT_MAX.                                                           *)
flac_read_header ==
  /\ pc = "metadata"
  /\ IF file.readable /\ file.bits \in {8, 16, 24}
     THEN /\ channels' = file.channels
          /\ frames' = IF file.total = 0 THEN Endless ELSE file.total
          /\ pc' = "validate"
     ELSE pc' = "refused" /\ UNCHANGED <<channels, frames>>
  /\ UNCHANGED <<file, buf, flac>>

-----------------------------------------------------------------------------
(* flac_read_flac2s, flac_read_loop and, in the decoder's write callback,  *)
(* flac_buffer_copy.                                                       *)

(* Mutant: what does not fit into the piece is dropped.                    *)
DropRest(s, n) == <<>>

(* The rest of a block waits for the next piece.                           *)
KeepRest(s, n) == SubSeq(s, n + 1, Len(s))

(* Whole frames: a piece ends with one.                                    *)
Copied(s) == Min({Len(s), goal - Len(ptr)})

flac_buffer_copy(s) ==
  /\ Deliver(SubSeq(s, 1, Copied(s)), "piece")
  /\ left' = KeepRest(s, Copied(s))

StartPiece ==
  /\ pc = "read" /\ file.kind = "flac"
  /\ goal' = Min({Len(ptr) + Piece, samples})
  /\ pc' = "rest"
  /\ UNCHANGED <<handle, buf, block, left, broken>>

CopyRest ==
  /\ pc = "rest"
  /\ flac_buffer_copy(left)
  /\ UNCHANGED <<block, goal, broken>>

(* After an error the decoder gets no more bytes; it may have some left.   *)
DecodeBlock ==
  /\ pc = "piece" /\ Len(ptr) < goal /\ block < Len(file.blocks)
  /\ LET b == file.blocks[block + 1]
         s == SamplesOf(b.first, b.last)
     IN  \/ b.whole /\ flac_buffer_copy(s)
         \/ ~b.whole /\ flac_buffer_copy([k \in DOMAIN s |-> Silence])
         \/ ~b.whole /\ flac_buffer_copy(<<>>)
  /\ broken' = (broken \/ ~file.blocks[block + 1].whole)
  /\ block' = block + 1
  /\ UNCHANGED goal

(* The decoder has no more blocks or no more bytes: another piece would    *)
(* get nothing.                                                            *)
EndOfBlocks ==
  /\ pc = "piece" /\ Len(ptr) < goal
  /\ block = Len(file.blocks) \/ broken
  /\ Deliver(<<>>, "loaded")
  /\ UNCHANGED flac

EndOfPiece ==
  /\ pc = "piece" /\ Len(ptr) >= goal
  /\ Deliver(<<>>, IF Len(ptr) < samples THEN "read" ELSE "loaded")
  /\ UNCHANGED flac

ReadFlac ==
  \/ flac_read_header
  \/ StartPiece \/ CopyRest \/ DecodeBlock \/ EndOfBlocks \/ EndOfPiece
=============================================================================
