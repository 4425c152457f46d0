------------------------------- MODULE SndFile -------------------------------
(***************************************************************************)
(* libsndfile as a program meets it that writes a file (libsndfile/src):   *)
(* sf_open, sf_set_string, sf_write_short and sf_close, down to the bytes  *)
(* that psf_fwrite gets on the disk.  WAV samples go to the file as they   *)
(* are; a FLAC and a Vorbis encoder keep samples until they have enough    *)
(* for a frame or a page.  How many they keep is theirs (libFLAC and       *)
(* libvorbis are no part of the repository) and any number here.           *)
(*                                                                         *)
(* The program hands over pieces of any size, sets its tags before them,   *)
(* stops at the first one that is not taken as a whole, and closes the     *)
(* file.  The disk has room for a number of bytes, and when it has become  *)
(* full another program may make room.                                     *)
(*                                                                         *)
(* Module SoundBytes says what the bytes are.                              *)
(***************************************************************************)
EXTENDS SndfileHandle, SoundBytes

CONSTANTS
  Rooms,           \* for how many bytes there may be room
  Reliefs,         \* and for how many more, later on
  PlainHeader,     \* the bytes of a WAV header without tags
  TaggedHeader,    \* and with tags
  MaxPiece,        \* bound: the longest piece
  MaxHanded        \* bound: all pieces together

ASSUME HeaderAssumption == PlainHeader \in Nat /\ TaggedHeader \in Nat /\ PlainHeader < TaggedHeader
ASSUME RoomAssumption == Rooms \subseteq Nat /\ Reliefs \subseteq Nat \ {0}
ASSUME BoundAssumption == MaxPiece \in Nat /\ MaxHanded \in Nat

VARIABLES
  tagged,          \* psf->strings holds something
  have_written,    \* psf->have_written
  write_current,   \* psf->write_current, in frames
  encoder,         \* the FLAC encoder: "none", "ready", "failed"
  paged,           \* how many samples were put on pages
  queue,           \* the strings of bytes that are still to be written
  count,           \* the result of the call in progress
  bytes, pos,      \* the file and the position in it
  room,            \* for how many bytes there is room
  at               \* where the call is, "idle" between calls

psf == <<tagged, have_written, write_current, encoder, paged>>
storage == <<bytes, pos, room, disk>>
client == <<format, handed, asked, good>>
lib_vars == <<client, handle, psf, queue, count, storage, at>>

-----------------------------------------------------------------------------

HeaderSize == IF tagged THEN TaggedHeader ELSE PlainHeader

(* How many of the bytes get on the disk if they are written at p: write   *)
(* is repeated until all are, or it fails.                                 *)
Sent(p, s) == IF Len(s) <= room + Len(bytes) - p THEN Len(s) ELSE room + Len(bytes) - p

psf_fwrite(p, s) ==
  LET n == Sent(p, s)
      end == IF p + n > Len(bytes) THEN p + n ELSE Len(bytes)
  IN  /\ bytes' = [k \in 1 .. end |-> IF k \in p + 1 .. p + n THEN s[k - p] ELSE bytes[k]]
      /\ pos' = p + n
      /\ room' = room - (end - Len(bytes))
      /\ disk' = IF n < Len(s) /\ disk = "fits" THEN "full" ELSE disk

LibInit ==
  /\ format \in Formats
  /\ handle = "unopened"
  /\ tagged = FALSE
  /\ have_written = FALSE
  /\ write_current = 0
  /\ encoder = "none"
  /\ paged = 0
  /\ queue = <<>>
  /\ count = 0
  /\ bytes = <<>>
  /\ pos = 0
  /\ room \in Rooms
  /\ disk = "fits"
  /\ handed = 0
  /\ asked = 0
  /\ good = TRUE
  /\ at = "idle"

-----------------------------------------------------------------------------
(* Opening and tags.                                                       *)

OpenFails ==
  /\ handle = "unopened"
  /\ handle' = "null"
  /\ UNCHANGED <<client, psf, queue, count, storage, at>>

(* The codecs write nothing yet.                                           *)
OpenCodec ==
  /\ handle = "unopened" /\ format # "wav"
  /\ handle' = "open"
  /\ UNCHANGED <<client, psf, queue, count, storage, at>>

(* wav_open writes the header.  If that fails psf_close does so again,     *)
(* which changes nothing on a full disk.                                   *)
OpenWav ==
  /\ handle = "unopened" /\ format = "wav"
  /\ psf_fwrite(0, Header(PlainHeader, 0))
  /\ handle' = IF pos' = PlainHeader THEN "open" ELSE "null"
  /\ UNCHANGED <<client, tagged, have_written, write_current, encoder, paged, queue, count, at>>

SetString ==
  /\ handle = "open" /\ at = "idle" /\ ~have_written
  /\ tagged' = TRUE
  /\ UNCHANGED <<client, handle, have_written, write_current, encoder, paged,
                 queue, count, storage, at>>

-----------------------------------------------------------------------------
(* sf_write_short.                                                         *)

Begin(n, accepted, next) ==
  /\ at = "idle" /\ good
  /\ asked' = n
  /\ handed' = handed + accepted
  /\ count' = 0
  /\ at' = next
  /\ UNCHANGED <<format, good, handle, psf, queue, storage>>

(* No file, or a piece that ends in mid-frame.                             *)
RefusePiece ==
  \E n \in 1 .. MaxPiece :
    /\ handle = "null" \/ (handle = "open" /\ n % 2 # 0)
    /\ Begin(n, 0, "return")

TakePiece ==
  \E n \in 1 .. MaxPiece :
    /\ handle = "open" /\ n % 2 = 0
    /\ handed + n <= MaxHanded
    /\ Begin(n, n, IF have_written THEN "samples" ELSE "header")

(* With the tags the header is longer than the one of wav_open.  What      *)
(* write_header returns is not looked at.                                  *)
WriteWavHeader ==
  /\ at = "header" /\ format = "wav"
  /\ psf_fwrite(0, Header(HeaderSize, 0))
  /\ have_written' = TRUE
  /\ at' = "samples"
  /\ UNCHANGED <<client, handle, tagged, write_current, encoder, paged, queue, count>>

WriteFlacHeader ==
  /\ at = "header" /\ format = "flac"
  /\ psf_fwrite(pos, Header(PlainHeader, 0))
  /\ encoder' = IF pos' = pos + PlainHeader THEN "ready" ELSE "none"
  /\ have_written' = TRUE
  /\ at' = "samples"
  /\ UNCHANGED <<client, handle, tagged, write_current, paged, queue, count>>

(* The Ogg header has pages of its own, head and body.                     *)
OggHeader == <<PageHead(0, 0), Header(PlainHeader, 0)>>

WriteOggHeader ==
  /\ at = "header" /\ format = "ogg"
  /\ queue' = OggHeader
  /\ have_written' = TRUE
  /\ at' = "samples"
  /\ UNCHANGED <<client, handle, tagged, write_current, encoder, paged, count, storage>>

(* Mutant: half a sample counts.                                           *)
ItemsUp(sent) == (sent + 1) \div 2

(* total / bytes, of psf_fwrite                                            *)
Items(sent) == sent \div 2

(* count / psf->sf.channels                                                *)
FramesIn(n) == n \div 2

WriteWavSamples ==
  /\ at = "samples" /\ format = "wav"
  /\ LET s == Raw(handed - asked, handed)
     IN  psf_fwrite(pos, s) /\ count' = Items(Sent(pos, s))
  /\ write_current' = write_current + FramesIn(count')
  /\ at' = "return"
  /\ UNCHANGED <<client, handle, tagged, have_written, encoder, paged, queue>>

(* Mutant: the encoder keeps what it has put on pages.                     *)
KeepingAll == 0

FirstKept == paged

(* For Ogg the head and the body of a page are written one after the other.*)
Page(from, to) ==
  IF format = "ogg"
  THEN <<PageHead(from, to), PageBody(from, to)>>
  ELSE <<PageHead(from, to) \o PageBody(from, to)>>

Frames(from) == {p \in from + 1 .. handed : p % 2 = 0}

(* The encoder has enough for a page.                                      *)
CutPage ==
  /\ at \in {"samples", "finish"} /\ queue = <<>>
  /\ format = "ogg" \/ encoder = "ready"
  /\ \E p \in Frames(paged) : queue' = Page(FirstKept, p) /\ paged' = p
  /\ UNCHANGED <<client, handle, tagged, have_written, write_current, encoder, count, storage, at>>

(* flac_write_s2flac converts into a buffer that flac_write_header has not *)
(* allocated.                                                              *)
EncodeIntoNull ==
  /\ at = "samples" /\ format = "flac" /\ encoder = "none"
  /\ handle' = "crashed"
  /\ UNCHANGED <<client, psf, queue, count, storage, at>>

(* Mutant: a page that was refused is tried again.                         *)
QueueRetrying(sent) == IF sent < Len(Head(queue)) THEN queue ELSE Tail(queue)

QueueAfter(sent) == Tail(queue)

(* psf_fwrite for a part of an Ogg page, or in the FLAC encoder's callback,*)
(* which alone looks at the result.                                        *)
WritePage ==
  /\ queue # <<>>
  /\ psf_fwrite(pos, Head(queue))
  /\ \/ format = "flac" /\ pos' < pos + Len(Head(queue))
        /\ encoder' = "failed" /\ queue' = <<>>
     \/ (format = "ogg" \/ pos' = pos + Len(Head(queue)))
        /\ UNCHANGED encoder /\ queue' = QueueAfter(pos' - pos)
  /\ UNCHANGED <<client, handle, tagged, have_written, write_current, paged, count, at>>

(* vorbis_write_s returns what it was given, flac_write_s2flac what the    *)
(* encoder had taken before it failed.                                     *)
Encoded ==
  /\ at = "samples" /\ queue = <<>>
  /\ format = "ogg" \/ encoder # "none"
  /\ count' \in IF encoder = "failed" THEN {n \in 0 .. asked - 1 : n % 2 = 0} ELSE {asked}
  /\ write_current' = write_current + FramesIn(count')
  /\ at' = "return"
  /\ UNCHANGED <<client, handle, tagged, have_written, encoder, paged, queue, storage>>

Return ==
  /\ at = "return"
  /\ asked' = 0
  /\ good' = (count = asked)
  /\ at' = "idle"
  /\ UNCHANGED <<format, handed, handle, psf, queue, count, storage>>

-----------------------------------------------------------------------------
(* sf_close, called by the handle's destructor.                            *)

CloseNull ==
  /\ handle = "null" /\ at = "idle"
  /\ handle' = "closed"
  /\ UNCHANGED <<client, psf, queue, count, storage, at>>

StartClosing ==
  /\ handle = "open" /\ at = "idle"
  /\ handle' = "closing"
  /\ at' = "close"
  /\ UNCHANGED <<client, psf, queue, count, storage>>

(* The header again, now with the number of frames.                        *)
CloseWav ==
  /\ at = "close" /\ format = "wav"
  /\ psf_fwrite(0, Header(HeaderSize, write_current))
  /\ at' = "fclose"
  /\ UNCHANGED <<client, handle, psf, queue, count>>

(* The rest goes on pages, and an Ogg file without samples gets its header *)
(* now.                                                                    *)
FinishEncoding ==
  /\ at = "close"
  /\ format = "ogg" \/ encoder = "ready"
  /\ queue' = IF format = "ogg" /\ write_current <= 0 THEN OggHeader ELSE <<>>
  /\ at' = "finish"
  /\ UNCHANGED <<client, handle, psf, count, storage>>

(* A FLAC encoder that was not started, or has failed, writes nothing.     *)
FinishNothing ==
  /\ at = "close" /\ format = "flac" /\ encoder # "ready"
  /\ at' = "fclose"
  /\ UNCHANGED <<client, handle, psf, queue, count, storage>>

(* Mutant: the last, incomplete page is dropped.                           *)
AnyPaged == TRUE

AllPaged == encoder = "failed" \/ paged = handed

psf_fclose ==
  /\ at = "fclose" \/ (at = "finish" /\ queue = <<>> /\ AllPaged)
  /\ handle' = "closed"
  /\ at' = "idle"
  /\ UNCHANGED <<client, psf, queue, count, storage>>

-----------------------------------------------------------------------------

(* Another program deletes something.                                      *)
Relieve ==
  /\ disk = "full"
  /\ disk' = "relieved"
  /\ \E r \in Reliefs : room' = room + r
  /\ UNCHANGED <<client, handle, psf, queue, count, bytes, pos, at>>

(* sf_open to sf_close without the program's decisions.                    *)
Library ==
  \/ WriteWavHeader \/ WriteFlacHeader \/ WriteOggHeader
  \/ WriteWavSamples \/ EncodeIntoNull \/ CutPage \/ WritePage \/ Encoded \/ Return
  \/ CloseWav \/ FinishEncoding \/ FinishNothing \/ psf_fclose

Program ==
  \/ OpenFails \/ OpenCodec \/ OpenWav \/ SetString
  \/ RefusePiece \/ TakePiece \/ CloseNull \/ StartClosing

LibNext == Library \/ Program \/ Relieve

(* The library's code runs on in the thread that calls it.                 *)
LibSpec == LibInit /\ [][LibNext]_lib_vars /\ WF_lib_vars(Library)

-----------------------------------------------------------------------------

(* The promise SaveFile relies on: nothing is lost or out of place while   *)
(* the disk takes what is written, what was lost shows in the count of the *)
(* call unless the file is an Ogg file, and all is there after closing.    *)
InFile == Heard(format, bytes)
Sound == INSTANCE SoundFile WITH file <- InFile
Promise == Sound!Spec

(* Whatever the disk does, and in whatever state the program is stopped,   *)
(* the samples that can be read are in the right order, none twice.        *)
InOrder == \A j, k \in DOMAIN InFile : j < k => InFile[j] < InFile[k]

(* A WAV header never claims frames that are not in the file, at no moment *)
(* and on no full disk; and it claims all that were counted once the file  *)
(* is closed.                                                              *)
ClaimIsTrue ==
  format = "wav" /\ Is("h", bytes, 1) /\ disk # "relieved" =>
    /\ 2 * bytes[1][2] <= Len(InFile)
    /\ handle = "closed" => bytes[1][2] = write_current

(* A call comes back, or the program has crashed in it; closing ends.      *)
CallsReturn ==
  /\ (asked > 0) ~> (asked = 0 \/ handle = "crashed")
  /\ (handle = "closing") ~> (handle = "closed")
=============================================================================
