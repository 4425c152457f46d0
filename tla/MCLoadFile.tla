----------------------------- MODULE MCLoadFile -----------------------------
(* Instances of LoadFile for TLC.                                          *)
EXTENDS LoadFile

(* Where there is no size: none, odd ones, and one beyond any file.        *)
MCSizes == {0, 3, 1073741824}

Fmt == Chunk("fmt", 16)
Data(n) == Chunk("data", n)
Fact == Chunk("fact", 4)
Tags(n) == List("INFO", <<Chunk("INAM", n), Chunk("IART", 3), Chunk("ISFT", 12)>>)
Marks == List("adtl", <<Chunk("labl", 9), Chunk("ltxt", 20), Chunk("note", 7), Chunk("text", 6)>>)

(* What may lie before and behind the samples.                             *)
MCPlain == {<<>>, <<Fact>>, <<Chunk("text", 5)>>, <<Tags(4)>>, <<Marks>>, <<Cue(10)>>, <<List("INFO", <<>>)>>}
MCLong ==
  {<<Chunk("JUNK", 12228), Fact>>, <<Chunk("JUNK", 12237), Tags(4)>>, <<Chunk("JUNK", 20000), Marks, Tags(3)>>}
MCOdd ==
  {<<Tags(510)>>, <<Tags(511)>>, <<Tags(600), Marks>>, <<Cue(0)>>, <<Cue(11)>>, <<Cue(20)>>, <<Cue(21)>>, <<Fmt>>}

Says(ch, n) == [ch EXCEPT !.said = n]

(* A LIST with n zero bytes behind its items.                              *)
Trailing(ch, n) == [ch EXCEPT !.said = @ + n, !.body = @ + n]
MCZeroes == {Trailing(Tags(4), n) : n \in {1, 4, 5, 6, 8, 9, 13}} \cup {Trailing(List("adtl", <<>>), 8)}

(* Data that begins with another codec's mark.                             *)
Begins(ch, id) == [ch EXCEPT !.type = id]

(* Chunks out of order, and sizes that are wrong.                          *)
MCStrange ==
  {<<Data(12), Fmt>>, <<Fmt, Chunk("RIFF", 4), Data(12)>>, <<Says(Fmt, 14), Data(12)>>,
   <<Fmt, Says(Marks, 400), Data(12)>>, <<Fmt, Says(Tags(4), 70), Data(12)>>,
   <<Fmt, List("adtl", <<Chunk("note", 600)>>), Data(12)>>,
   <<Fmt, List("adtl", <<Chunk("labl", 600)>>), Data(12)>>,
   <<Fmt, List("adtl", <<Chunk("text", 600)>>), Data(12)>>,
   <<Fmt, List("adtl", <<Says(Chunk("text", 6), 600)>>), Data(12)>>}

Wav(width, ch, riff, chunks, cut) == WavFile(width, ch, riff, chunks, cut)

Honest(width, ch, chunks, cut) ==
  Wav(width, ch, Starts(12, chunks)[Len(chunks) + 1] - 8, chunks, cut)

MCWavs ==
  {Honest(2, 2, <<Fmt>> \o mid \o <<Data(12)>> \o post, 0) :
     mid \in MCPlain \cup MCOdd \cup MCLong, post \in MCPlain}
  \cup {Honest(2, 2, <<Chunk("JUNK", 28), Fmt>> \o mid \o <<Data(12)>> \o post, 0) :
     mid \in MCPlain, post \in MCOdd}
  \cup {Honest(w[1], w[2], <<Fmt>> \o mid \o <<Data(w[3]), Tags(4)>>, 0) :
     w \in {<<2, 2, 0>>, <<1, 1, 3>>, <<1, 2, 4>>, <<2, 1, 6>>, <<2, 2, 14>>}, mid \in {<<>>, <<Tags(4)>>}}
  \cup {Honest(2, 2, <<Fmt>> \o mid \o <<Data(12)>> \o post, cut) :
     mid \in {<<>>, <<Marks>>, <<Cue(21)>>}, post \in {<<>>, <<Tags(4)>>}, cut \in 1 .. 60}
  \cup {Honest(2, 2, <<Fmt, Tags(4), [Data(12) EXCEPT !.said = n]>> \o post, 0) :
     n \in {0, 4, 7, 10, 16, 40, 1000, 1073741824}, post \in {<<>>, <<Tags(4)>>}}
  \cup {Wav(2, 2, 8, <<Fmt>> \o mid \o <<[Data(n) EXCEPT !.said = 0]>>, n % 2) :
     n \in 0 .. 13, mid \in {<<>>, <<Tags(4)>>}}
  \cup {Honest(2, 2, chunks \o <<Tags(4)>>, 0) : chunks \in MCStrange}
  \cup {Honest(2, 2, <<Fmt, zeroes, Data(12)>>, 0) : zeroes \in MCZeroes}
  \cup {Honest(2, 2, <<Fmt, Data(12), zeroes>>, 0) : zeroes \in MCZeroes}
  \cup {Honest(2, 2, <<Fmt>> \o mid \o <<Begins(Data(12), id)>>, 0) : id \in Foreign, mid \in {<<>>, <<Tags(4)>>}}
  \cup {Honest(1, n, <<Fmt, Data(2 * n)>>, 0) : n \in {1023, 1024}}

-----------------------------------------------------------------------------

Id(s) == Page(s, "id", 0, 0)
Header(s) == Page(s, "header", 0, 0)
Part(s) == Page(s, "part", 0, 0)
Other(s) == Page(s, "other", 0, 0)
Audio(s, a, b) == Page(s, "audio", a, b)
Ending(p) == [p EXCEPT !.eos = TRUE]
Counts(p, n) == [p EXCEPT !.granule = n]

Both(p) == [p EXCEPT !.packets = 2]

(* As libsndfile and oggenc write them, and one to a page.                 *)
Headers(s) == <<Id(s), Both(Header(s))>>
ThreePages(s) == <<Id(s), Header(s), Header(s)>>
Body(s) == <<Audio(s, 1, 2), Part(s), Audio(s, 3, 3), Ending(Audio(s, 4, 5))>>

(* One stream as it is written, with another codec between its pages,      *)
(* without audio, without its last pages, and with a length that is wrong  *)
(* at its end or from its beginning.                                       *)
MCOggPages ==
  {Headers(1) \o Body(1),
   ThreePages(1) \o Body(1),
   <<Id(1), Part(1), Both(Header(1))>> \o Body(1),
   <<Id(1), Header(1), Part(1), Header(1)>> \o Body(1),
   <<Id(1), Other(2), Header(1), Header(1), Other(2)>> \o Body(1) \o <<Ending(Other(2))>>,
   <<Id(1), Other(2), Header(1), Ending(Other(2)), Header(1)>> \o Body(1),
   <<Id(1), Header(1), Header(1), Other(2)>> \o Body(1),
   Headers(1) \o <<Audio(1, 1, 2), Audio(1, 3, 5)>>,
   Headers(1) \o <<Audio(1, 1, 2), Ending(Counts(Audio(1, 3, 5), 4))>>,
   Headers(1) \o <<Counts(Audio(1, 1, 2), 7), Ending(Counts(Audio(1, 3, 5), 10))>>,
   Headers(1) \o Body(1) \o Headers(2) \o <<Ending(Counts(Audio(2, 6, 7), 2))>>,
   Headers(1) \o Body(1) \o ThreePages(2) \o <<Part(2), Ending(Counts(Audio(2, 6, 7), 2))>>,
   <<Id(1), Id(2), Header(1), Header(2), Header(2), Header(1), Audio(1, 1, 2),
     Ending(Counts(Audio(2, 6, 7), 2)), Ending(Audio(1, 3, 5))>>,
   <<Part(2)>> \o Headers(1) \o Body(1),
   Headers(1) \o <<Part(2)>> \o Body(1),
   <<Other(2)>> \o Headers(1) \o Body(1)}

(* Cut off behind any page, or with one page damaged.                      *)
Damaged(pages) ==
  {pages} \cup {SubSeq(pages, 1, k) : k \in 0 .. Len(pages)}
    \cup {[pages EXCEPT ![k].whole = FALSE] : k \in DOMAIN pages}

MCOggs == {OggFile(ch, pages, 5) : ch \in {1, 2}, pages \in UNION {Damaged(p) : p \in MCOggPages}}

-----------------------------------------------------------------------------

MCBlocks == {<<>>, <<Block(1, 2)>>, <<Block(1, 3), Block(4, 5)>>, <<Block(1, 2), Block(3, 3), Block(4, 5)>>}

MCFlacs ==
  {FlacFile(ch, bits, total, IF k \notin DOMAIN blocks THEN blocks ELSE [blocks EXCEPT ![k].whole = FALSE], 5, readable) :
     ch \in {1, 2}, bits \in {16, 20}, total \in {0, 2, 5, 6}, blocks \in MCBlocks, k \in 0 .. 2,
     readable \in BOOLEAN}

MCFiles == MCWavs \cup MCOggs \cup MCFlacs
=============================================================================
