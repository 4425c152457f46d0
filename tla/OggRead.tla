------------------------------ MODULE OggRead ------------------------------
(***************************************************************************)
(* ogg_open for Ogg/Vorbis and the reading of samples (ogg.c,              *)
(* ogg_vorbis.c).  What libogg and libvorbis do is external: a page whose  *)
(* bytes are damaged is passed over, and at the next page of its stream    *)
(* there is a gap, which costs the decoder some frames.                    *)
(*                                                                         *)
(* An Ogg file is a sequence of pages.  A page is of the stream `serial';  *)
(* it `holds' the end of a header packet ("id", "header"), of audio        *)
(* packets ("audio"), of packets of another codec ("other"), or of none    *)
(* ("part"); `packets' is how many end on it.  The frames first .. last of *)
(* the sound can be decoded with it, and it says that this makes `granule' *)
(* frames of its stream.                                                   *)
(***************************************************************************)
EXTENDS SndRead

VARIABLES
  page,         \* how many pages were taken
  gap,          \* the stream that is read misses something
  packets,      \* how many header packets were found behind the first
  begin,        \* where the audio pages begin
  eos,          \* odata->eos
  streams,      \* vorbis_length_aux: what is known of the streams, by serial
  in_headers,   \* of the stream_set
  torn,         \* the page before was damaged
  len           \* the length of the streams that have ended or were freed

ogg == <<page, gap, packets, begin, eos, streams, in_headers, torn, len>>

InitOgg ==
  /\ page = 0 /\ gap = FALSE /\ packets = 0 /\ begin = 0 /\ eos = FALSE
  /\ streams = <<>> /\ in_headers = FALSE /\ torn = FALSE /\ len = 0

Page(serial, holds, first, last) ==
  [serial |-> serial, holds |-> holds, packets |-> IF holds = "part" THEN 0 ELSE 1,
   first |-> first, last |-> last, eos |-> FALSE, whole |-> TRUE,
   granule |-> IF holds = "part" THEN -1 ELSE last]

(* The three headers of a stream: the first has a page of its own, the     *)
(* other two may end on one page.                                          *)
Layouts ==
  {<< <<"id", 1>>, <<"header", 2>> >>, << <<"id", 1>>, <<"header", 1>>, <<"header", 1>> >>}

(* One Vorbis stream from its beginning to its end, perhaps with the pages *)
(* of another codec between its own.                                       *)
PlainOgg(pages, frameCount) ==
  LET own == SelectSeq(pages, LAMBDA p : p.serial = pages[1].serial)
      audio == SelectSeq(own, LAMBDA p : p.holds = "audio")
      headers == SelectSeq(own, LAMBDA p : p.holds \in {"id", "header"})
      to(k) == IF k = 0 THEN 0 ELSE audio[k].last
  IN  /\ \A k \in DOMAIN pages :
           /\ pages[k].whole
           /\ pages[k].serial # pages[1].serial => pages[k].holds = "other"
           /\ pages[k].eos => \A j \in k + 1 .. Len(pages) : pages[j].holds # "audio"
      /\ [k \in DOMAIN headers |-> <<headers[k].holds, headers[k].packets>>] \in Layouts
      /\ pages[1].holds = "id"
      /\ \A j, k \in DOMAIN own : own[j].holds = "audio" /\ j < k => own[k].holds \notin {"id", "header"}
      /\ \A k \in DOMAIN audio : audio[k].first = to(k - 1) + 1 /\ audio[k].granule = audio[k].last
      /\ to(Len(audio)) = frameCount

OggFile(ch, pages, frameCount) ==
  [kind |-> "ogg", channels |-> ch, pages |-> pages, sound |-> ch * frameCount,
   intact |-> pages # <<>> /\ PlainOgg(pages, frameCount)]

-----------------------------------------------------------------------------

AtEnd == page = Len(file.pages)
Taken == file.pages[page + 1]
Own(p) == p.serial = file.pages[1].serial

(* ogg_stream_classify: the file must begin with a page of Vorbis.         *)
ogg_stream_classify ==
  /\ pc = "classify"
  /\ IF ~AtEnd /\ Taken.whole /\ Taken.holds = "id"
     THEN page' = 1 /\ pc' = "headers"
     ELSE pc' = "refused" /\ UNCHANGED page
  /\ UNCHANGED <<handle, buf, gap, packets, begin, eos, streams, in_headers, torn, len>>

(* Mutant: one packet is taken from each page.                             *)
FirstPacket(p) == Min({1, p.packets})

Packets(p) == p.packets

(* vorbis_read_header: two more packets, from one page or from several,    *)
(* nothing missing.  Pages of other streams are passed over.               *)
ReadHeaders ==
  /\ pc = "headers" /\ packets < 2
  /\ IF AtEnd \/ (Taken.whole /\ Own(Taken) /\ gap)
     THEN pc' = "refused" /\ UNCHANGED <<page, gap, packets>>
     ELSE /\ page' = page + 1
          /\ gap' = (gap \/ (~Taken.whole /\ Own(Taken)))
          /\ packets' = IF Taken.whole /\ Own(Taken) THEN Min({2, packets + Packets(Taken)}) ELSE packets
          /\ UNCHANGED pc
  /\ UNCHANGED <<handle, buf, begin, eos, streams, in_headers, torn, len>>

(* The length is looked for from the start of the file; when it is known   *)
(* the headers are read once more, with the same result.                   *)
StartLength ==
  /\ pc = "headers" /\ packets = 2
  /\ channels' = file.channels
  /\ begin' = page
  /\ page' = 0
  /\ gap' = FALSE
  /\ pc' = "length"
  /\ UNCHANGED <<file, frames, buf, packets, eos, streams, in_headers, torn, len>>

-----------------------------------------------------------------------------
(* vorbis_length_aux, one page at a time.                                  *)

Stream(serial) == streams[serial]
Known(serial) == serial \in DOMAIN streams
StreamsOpen == \E s \in DOMAIN streams : ~streams[s].end

(* A page of this stream was passed over: libogg first reports a gap.      *)
Missed(serial) == \E k \in 1 .. page : ~file.pages[k].whole /\ file.pages[k].serial = serial

(* A stream that begins with a page like this is none.                     *)
NoBeginning(p) == ~Known(p.serial) /\ (p.holds = "part" \/ Missed(p.serial))

(* doneheaders behind a page: all the header packets that end there count, *)
(* up to three.  Behind a gap some are lost, or are found a page later.    *)
HeadersDone(before, p) ==
  IF Missed(p.serial) THEN before .. 3
  ELSE {Min({3, before + (IF p.holds \in {"id", "header"} THEN Packets(p) ELSE 0)})}

(* What find_stream_processor makes of the next page's stream.  It is one  *)
(* of the first five: the memory of a sixth is not initialized.            *)
find_stream_processor(p) ==
  IF Known(p.serial)
  THEN [Stream(p.serial) EXCEPT !.illegal = @ \/ Stream(p.serial).end, !.end = @ \/ p.eos]
  ELSE [doneheaders |-> 0, last |-> 0, end |-> p.eos, illegal |-> StreamsOpen /\ ~in_headers]

(* Mutant: only the stream that ends last counts.                          *)
OnlyLast(total, last) == last

Longer(total, last) == total + last

(* The page's header packets or its granule position are noted.            *)
CountPage ==
  /\ pc = "length" /\ ~AtEnd /\ Taken.whole
  /\ ~NoBeginning(Taken)
  /\ LET p == find_stream_processor(Taken)
         last == IF p.doneheaders = 3 /\ Taken.granule > 0 THEN Taken.granule ELSE p.last
     IN  \E headers \in HeadersDone(p.doneheaders, Taken) :
           LET now == IF p.illegal THEN p ELSE [p EXCEPT !.doneheaders = headers, !.last = last]
               then == [now EXCEPT !.illegal = @ \/ now.end]
           IN  /\ streams' = [s \in DOMAIN streams \cup {Taken.serial} |->
                                IF s = Taken.serial THEN then ELSE Stream(s)]
               /\ len' = IF now.end /\ ~p.illegal THEN Longer(len, now.last) ELSE len
  /\ in_headers' = ~Known(Taken.serial)
  /\ page' = page + 1
  /\ torn' = FALSE
  /\ UNCHANGED <<handle, buf, pc, gap, packets, begin, eos>>

PassOver ==
  /\ pc = "length" /\ ~AtEnd /\ ~Taken.whole
  /\ page' = page + 1
  /\ torn' = TRUE
  /\ UNCHANGED <<handle, buf, pc, gap, packets, begin, eos, streams, in_headers, len>>

(* At the end of the file, or when all of it is in the buffer and a page   *)
(* in there is damaged; or at a stream without a beginning, and then what  *)
(* has ended does not count.                                               *)
EndOfLength ==
  /\ pc = "length"
  /\ \E lost \in BOOLEAN :
       /\ AtEnd \/ torn \/ lost
       /\ lost => ~AtEnd /\ Taken.whole /\ NoBeginning(Taken)
       /\ len' = IF lost THEN 0 ELSE len
  /\ pc' = "free"
  /\ UNCHANGED <<handle, buf, page, gap, packets, begin, eos, streams, in_headers, torn>>

(* free_stream_set: the streams that have not ended count as well.         *)
FreeStream ==
  /\ pc = "free"
  /\ \E s \in DOMAIN streams :
       /\ len' = IF Stream(s).end THEN len ELSE Longer(len, Stream(s).last)
       /\ streams' = Restrict(streams, DOMAIN streams \ {s})
  /\ UNCHANGED <<handle, buf, pc, page, gap, packets, begin, eos, in_headers, torn>>

(* vorbis_length goes back to where the audio begins.                      *)
EndOfStreams ==
  /\ pc = "free" /\ DOMAIN streams = {}
  /\ frames' = len
  /\ page' = begin
  /\ pc' = "validate"
  /\ UNCHANGED <<file, channels, buf, gap, packets, begin, eos, streams, in_headers, torn, len>>

-----------------------------------------------------------------------------
(* vorbis_read_sample.                                                     *)

(* Mutant: all that was decoded is copied.                                 *)
Unlimited(n) == n

(* No more than was asked for.                                             *)
Limited(n) == Min({n, (samples - Len(ptr)) \div channels})

(* A page, of whatever stream.  Behind a gap some frames are lost.         *)
ReadPage ==
  /\ pc = "read" /\ file.kind = "ogg"
  /\ ~AtEnd /\ ~eos /\ Len(ptr) < samples
  /\ LET decoded == Taken.whole /\ Own(Taken) /\ Taken.holds = "audio"
     IN  /\ \E lost \in 0 .. IF decoded /\ gap THEN Taken.last - Taken.first + 1 ELSE 0 :
              LET first == Taken.first + lost
                  n == IF decoded THEN Limited(Taken.last - first + 1) ELSE 0
              IN  Deliver(SamplesOf(first, first + n - 1), "read")
         /\ gap' = IF Own(Taken) THEN ~Taken.whole \/ (gap /\ ~decoded) ELSE gap
  /\ eos' = (Taken.whole /\ Taken.eos)
  /\ page' = page + 1
  /\ UNCHANGED <<packets, begin, streams, in_headers, torn, len>>

EndOfPages ==
  /\ pc = "read" /\ file.kind = "ogg"
  /\ AtEnd \/ eos \/ Len(ptr) >= samples
  /\ Deliver(<<>>, "loaded")
  /\ UNCHANGED ogg

ReadOgg ==
  \/ ogg_stream_classify \/ ReadHeaders \/ StartLength
  \/ CountPage \/ PassOver \/ EndOfLength \/ FreeStream \/ EndOfStreams
  \/ ReadPage \/ EndOfPages
=============================================================================
