------------------------------ MODULE WavRead ------------------------------
(***************************************************************************)
(* wav_open and the reading of PCM samples (wav.c, pcm.c), with the cache  *)
(* for the header that all formats read through (common.c).  A file is one *)
(* of module WavFile.                                                      *)
(*                                                                         *)
(* Where the reader looks for a chunk and there is none, it finds any      *)
(* bytes: zeroes, an unknown id that can or cannot be printed, and any     *)
(* size behind it, but never one of the ids it knows.  Other codings than  *)
(* PCM, the insides of bext, cart, smpl, acid, PEAK and exif chunks, and   *)
(* sizes of 2^31 and more are left out.                                    *)
(***************************************************************************)
EXTENDS SndRead, WavFile

CONSTANTS
  HeaderLen,     \* sizeof (psf->header)
  BufferLen,     \* sizeof (buffer) of wav_subchunk_parse
  Sizes          \* the sizes that may be found where there is none

ASSUME ReaderAssumption == HeaderLen \in Nat /\ HeaderLen >= 12 /\ BufferLen \in Nat /\ Sizes \subseteq Nat

VARIABLES
  io,            \* the header cache: fd, index, end
  chunk,         \* marker and chunk_size: id, size
  parsestage,    \* the markers seen
  RIFFsize,
  dataoffset, dataend,    \* of psf
  list           \* wav_subchunk_parse: length (chunk_length), bytesread

parser == <<chunk, parsestage, RIFFsize, dataoffset, dataend, list>>
wav == <<io, parser>>

InitWav ==
  /\ io = [fd |-> 12, index |-> 0, end |-> 12]     \* guess_file_type has read 12 bytes
  /\ chunk = [id |-> "", size |-> 0]
  /\ parsestage = {}
  /\ RIFFsize = 0
  /\ dataoffset = -1
  /\ dataend = 0
  /\ list = [length |-> 0, bytesread |-> 0]

-----------------------------------------------------------------------------
(* The header cache: io.fd is where the descriptor stands, and io.index of *)
(* the io.end bytes that are cached have been taken.                       *)

(* How many of n bytes psf_fread gets at p.                                *)
psf_fread(p, n) == Max({0, Min({n, file.length - p})})

(* Mutant: what is read is cached without a look at the room there is.     *)
NeverFull(c, n) == FALSE

Crosses(c, n) == c.index < HeaderLen /\ c.index + n > HeaderLen

(* The cache when n bytes have been taken from it.  Those that cross its   *)
(* end are all taken from the file.                                        *)
header_read(c, n) ==
  LET need == n - (c.end - c.index)
      got == psf_fread(c.fd, need)
      all == psf_fread(c.fd, n)
      last == c.index + HeaderLen - c.end
  IN  IF c.index >= HeaderLen THEN [c EXCEPT !.fd = @ + all]
      ELSE IF Crosses(c, n) THEN [fd |-> c.fd + all, index |-> last, end |-> last]
      ELSE IF need <= 0 THEN [c EXCEPT !.index = @ + n]
      ELSE IF got < need THEN [c EXCEPT !.fd = @ + got]
      ELSE [fd |-> c.fd + need, index |-> c.index + n, end |-> c.index + n]

(* Where in the file these bytes lie.                                      *)
Place(c, n) == IF Crosses(c, n) THEN c.fd ELSE c.fd - (c.end - c.index)

(* The cache after a jump (header_seek, SEEK_CUR).                         *)
header_seek(c, d) ==
  LET got == psf_fread(c.fd, d - (c.end - c.index))
  IN  IF d = 0 \/ c.index + d < 0 THEN c
      ELSE IF c.index >= HeaderLen THEN [c EXCEPT !.fd = @ + d]
      ELSE IF c.index + d <= c.end THEN [c EXCEPT !.index = @ + d]
      ELSE IF Crosses(c, d) THEN [c EXCEPT !.fd = @ + d, !.index = c.end]
      ELSE [fd |-> c.fd + got, index |-> c.end + got, end |-> c.end + got]

-----------------------------------------------------------------------------
(* What is found at a place.                                               *)

Within(p, n) == p + n <= file.length
IsHead(p) == \E h \in file.heads : h.at = p
HeadAt(p) == CHOOSE h \in file.heads : h.at = p

Ids(p) ==
  IF ~Within(p, 4) THEN {"0"}
  ELSE IF IsHead(p) THEN {HeadAt(p).id}
  ELSE {"0", "junk", "text"}

(* The size behind an id at p, if it is read at q.                         *)
SizesAt(p, q) ==
  IF ~Within(q, 4) THEN {0}
  ELSE IF IsHead(p) /\ q = p + 4 THEN {HeadAt(p).size}
  ELSE Sizes

(* The number of cues, a field of its chunk.                               *)
CountsAt(p) == IF IsHead(p - 8) THEN {HeadAt(p - 8).count} ELSE Sizes

(* The next round, or none.                                                *)
Round(c, size) ==
  /\ io' = c
  /\ pc' = IF size >= file.length \/ c.fd >= file.length - 4 THEN "header" ELSE "chunk"
  /\ chunk' = [chunk EXCEPT !.size = size]

Stop(next) == pc' = next /\ UNCHANGED <<io, chunk>>

Seen(id) == parsestage' = parsestage \cup {id}

(* marker and chunk_size; an odd chunk is followed by a byte.              *)
NextChunk ==
  /\ pc = "chunk"
  /\ \E start \in {header_seek(io, chunk.size % 2)} : \E behind \in {header_read(start, 4)} :
       \E id \in Ids(Place(start, 4)), size \in SizesAt(Place(start, 4), Place(behind, 4)) :
         /\ chunk' = [id |-> id, size |-> size]
         /\ io' = header_read(behind, 4)
         /\ pc' = IF id = "0" THEN "header" ELSE "case"
  /\ UNCHANGED <<handle, buf, parsestage, RIFFsize, dataoffset, dataend, list>>

InCase(ids) == pc = "case" /\ chunk.id \in ids

ReadRiff ==
  /\ InCase({"RIFF"})
  /\ RIFFsize' = Min({chunk.size, file.length - 8})
  /\ IF parsestage = {} /\ "WAVE" \in Ids(Place(io, 4))
     THEN Round(header_read(io, 4), 0) /\ parsestage' = {"RIFF", "WAVE"}
     ELSE Stop("refused") /\ UNCHANGED parsestage
  /\ UNCHANGED <<handle, buf, dataoffset, dataend, list>>

(* A second one is not skipped.                                            *)
ReadFmt ==
  /\ InCase({"fmt"})
  /\ \/ "fmt" \in parsestage
        /\ Round(io, chunk.size)
        /\ UNCHANGED <<channels, parsestage>>
     \/ /\ "WAVE" \in parsestage /\ "fmt" \notin parsestage /\ chunk.size >= 16
        /\ Round(header_seek(header_read(io, 16), chunk.size - 16), chunk.size)
        /\ Seen("fmt")
        /\ channels' = file.channels
     \/ /\ "fmt" \notin parsestage /\ ("WAVE" \in parsestage => chunk.size < 16)
        /\ Stop("refused")
        /\ UNCHANGED <<channels, parsestage>>
  /\ UNCHANGED <<file, frames, buf, RIFFsize, dataoffset, dataend, list>>

(* Mutant: the size is believed.                                           *)
NeverUnclosed == FALSE

(* A file whose writer was killed before it could write the size.          *)
LooksUnclosed == chunk.size = 0 /\ RIFFsize = 8 /\ file.length > 44

(* The reader goes on behind the data, and behind a byte of padding.       *)
ReadData ==
  /\ InCase({"data"})
  /\ LET rest == file.length - io.fd
         datalength == IF LooksUnclosed THEN rest ELSE Min({chunk.size, rest})
     IN  IF {"WAVE", "fmt"} \subseteq parsestage
         THEN /\ dataoffset' = io.fd
              /\ dataend' = IF datalength < rest THEN io.fd + datalength ELSE dataend
              /\ Round([io EXCEPT !.fd = @ + datalength + (chunk.size % 2)], 0)
         ELSE Stop("refused") /\ UNCHANGED <<dataoffset, dataend>>
  /\ UNCHANGED <<handle, buf, parsestage, RIFFsize, list>>

ReadFact ==
  /\ InCase({"fact"})
  /\ IF "WAVE" \in parsestage
     THEN Round(header_seek(header_read(io, 4), Max({0, chunk.size - 4})), chunk.size)
     ELSE Stop("refused")
  /\ UNCHANGED <<handle, buf, parsestage, RIFFsize, dataoffset, dataend, list>>

(* Mutant: all the cues are stepped over, and the count with them.         *)
AllOfTheChunk(count) == 4 + count * 24

(* Up to ten cues are read, of more than 20 only 20 are stepped over.      *)
CuesSkipped(count) == Min({count, 20}) * 24

ReadCue ==
  /\ InCase({"cue"})
  /\ \E count \in CountsAt(Place(io, 4)) :
       LET behind == header_read(io, 4)
       IN  IF count > 10
           THEN Round(header_seek(behind, CuesSkipped(count)), chunk.size)
           ELSE LET cues == header_read(behind, 24 * count)
                IN  Round(header_seek(cues, chunk.size - 4 - 24 * count), chunk.size)
  /\ UNCHANGED <<handle, buf, parsestage, RIFFsize, dataoffset, dataend, list>>

(* JUNK and other ids that are not looked into, and any that is not known  *)
(* but can be printed.                                                     *)
SkipChunk ==
  /\ pc = "case"
  /\ chunk.id \notin {"RIFF", "fmt", "data", "fact", "cue", "LIST", "INFO", "junk"}
  /\ Round(header_seek(io, chunk.size), chunk.size)
  /\ UNCHANGED <<handle, buf, parsestage, RIFFsize, dataoffset, dataend, list>>

(* Mutant: back to where the search started.                               *)
StepBackFar == -8

StepBack == -3

(* Otherwise the reader looks for one of the next places that may be one.  *)
Resync ==
  /\ InCase({"junk"})
  /\ IF io.fd % 4 # 0 THEN Round(header_seek(io, StepBack), chunk.size) ELSE Stop("header")
  /\ UNCHANGED <<handle, buf, parsestage, RIFFsize, dataoffset, dataend, list>>

-----------------------------------------------------------------------------
(* wav_subchunk_parse, for the LIST chunk.                                 *)

ReadList ==
  /\ InCase({"LIST", "INFO"})
  /\ LET short == chunk.size <= 8
         long == io.index + chunk.size > HeaderLen
     IN  \/ /\ short
            /\ Round(header_seek(header_read(io, 4), chunk.size - 4), chunk.size)
            /\ UNCHANGED list
         \/ /\ ~short /\ long
            /\ Round(header_seek(io, chunk.size), chunk.size)
            /\ UNCHANGED list
         \/ /\ ~short /\ ~long
            /\ list' = [length |-> Min({chunk.size, file.length - (io.fd - 4)}), bytesread |-> 4]
            /\ pc' = "list"
            /\ UNCHANGED <<io, chunk>>
  /\ UNCHANGED <<handle, buf, parsestage, RIFFsize, dataoffset, dataend>>

(* On with the next item, n bytes further.                                 *)
NextItem(c, n) ==
  /\ io' = c
  /\ list' = [list EXCEPT !.bytesread = @ + n]
  /\ UNCHANGED <<pc, chunk>>

LeaveList(c) == Round(c, chunk.size) /\ UNCHANGED list

(* An item that is too big for the buffer: a jump over the whole LIST,     *)
(* although a part of it has been read.                                    *)
TooBig(size) == size >= BufferLen \/ size >= list.length

Strings == {"ISFT", "ICOP", "IARL", "IART", "ICMT", "ICRD", "IENG", "IGNR", "INAM", "IPRD",
            "ISBJ", "ISRC", "IAUT", "ITRK"}
Notes == {"DISP", "ltxt", "note"}

ReadString(c, size) ==
  IF TooBig(Padded(size)) THEN LeaveList(header_seek(c, list.length))
  ELSE NextItem(header_read(c, Padded(size)), 8 + Padded(size))

SkipNote(c, size) ==
  IF TooBig(Padded(size)) THEN LeaveList(header_seek(c, list.length))
  ELSE NextItem(header_seek(c, Padded(size)), 8 + Padded(size))

ReadLabel(c, size) ==
  LET behind == header_read(c, 4)
      text == Padded(size - 4)
  IN  IF text < 1 \/ TooBig(text) THEN NextItem(header_seek(behind, list.length), 12)
      ELSE NextItem(header_read(behind, text), 12 + text)

(* What is left of the LIST when n more bytes have been counted: the count *)
(* starts at 4.                                                            *)
Rest(n) == list.length - (list.bytesread + n) + 4

(* Four zero bytes for a marker: the rest of the LIST is passed over, but  *)
(* not if the marker has brought the count up to the LIST's length; then   *)
(* up to four bytes of the LIST are taken for the next chunk.              *)
ZeroMarker(behind) ==
  LeaveList(IF list.bytesread + 4 < list.length THEN header_seek(behind, Rest(4)) ELSE behind)

SkipItem(c, size) ==
  IF list.bytesread + 8 + Padded(size) > list.length THEN NextItem(header_seek(c, Rest(8)), 8 + Rest(8))
  ELSE NextItem(header_seek(c, Padded(size)), 8 + Padded(size))

(* An item is a marker and, for most of them, a size.  Where the file ends *)
(* within the marker the LIST ends (the code first makes one more round    *)
(* with the marker before, which finds nothing either).                    *)
ReadItem ==
  /\ pc = "list" /\ list.bytesread < list.length
  /\ \E behind \in {header_read(io, 4)} : \E c \in {header_read(behind, 4)} :
       \E id \in Ids(Place(io, 4)), size \in SizesAt(Place(io, 4), Place(behind, 4)) :
         \/ id \in {"INFO", "adtl"} /\ NextItem(behind, 4)
         \/ id = "0" /\ IF Within(Place(io, 4), 4) THEN ZeroMarker(behind) ELSE LeaveList(behind)
         \/ id = "data" /\ LeaveList(header_seek(behind, -4))
         \/ id \in Strings /\ ReadString(c, size)
         \/ id \in Notes /\ SkipNote(c, size)
         \/ id = "labl" /\ ReadLabel(c, size)
         \/ id \notin {"INFO", "adtl", "0", "data", "labl"} \cup Strings \cup Notes
              /\ SkipItem(c, size)
  /\ UNCHANGED <<handle, buf, parsestage, RIFFsize, dataoffset, dataend>>

EndOfList ==
  /\ pc = "list" /\ list.bytesread >= list.length
  /\ LeaveList(io)
  /\ UNCHANGED <<handle, buf, parsestage, RIFFsize, dataoffset, dataend>>

-----------------------------------------------------------------------------
(* The end of wav_read_header, and pcm_init.                               *)

(* SF_MAX_CHANNELS.                                                        *)
MaxChannels == 1024

(* The first four bytes of the data are looked at as well: they may say    *)
(* that another codec's stream follows.                                    *)
Foreign == {"wvpk", "OggS"}

EndOfHeader ==
  /\ pc = "header"
  /\ LET datalength == (IF dataend > 0 THEN dataend ELSE file.length) - dataoffset
         atData == [io EXCEPT !.fd = dataoffset]
     IN  IF dataoffset <= 0 \/ channels < 1 \/ channels >= MaxChannels
         THEN pc' = "refused" /\ UNCHANGED <<io, frames>>
         ELSE /\ io' = [header_read(atData, 4) EXCEPT !.fd = dataoffset]
              /\ \E id \in Ids(Place(atData, 4)) :
                   IF id \in Foreign THEN pc' = "refused" /\ UNCHANGED frames
                   ELSE pc' = "validate" /\ frames' = datalength \div (file.width * channels)
  /\ UNCHANGED <<file, channels, buf, parser>>

(* pcm_read_uc2s and its like.  A sample is one of the sound if all its    *)
(* bytes are.                                                              *)
SampleAt(p) ==
  LET k == (p - file.first) \div file.width + 1
  IN  IF (p - file.first) % file.width = 0 /\ k \in 1 .. file.sound THEN k ELSE Noise

ReadPcm ==
  /\ pc = "read" /\ file.kind = "wav"
  /\ Deliver([k \in 1 .. Min({samples, psf_fread(io.fd, samples * file.width) \div file.width}) |->
                SampleAt(io.fd + (k - 1) * file.width)], "loaded")
  /\ UNCHANGED wav

ReadWav ==
  \/ NextChunk \/ ReadRiff \/ ReadFmt \/ ReadData \/ ReadFact \/ ReadCue \/ SkipChunk \/ Resync
  \/ ReadList \/ ReadItem \/ EndOfList \/ EndOfHeader \/ ReadPcm
=============================================================================
