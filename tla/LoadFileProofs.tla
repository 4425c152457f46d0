--------------------------- MODULE LoadFileProofs ---------------------------
(***************************************************************************)
(* Proofs about LoadFile, for files of any content.                        *)
(***************************************************************************)
EXTENDS LoadFile, NatFacts, TLAPS

USE ReaderAssumption, PieceAssumption

(* What may be in the buffer.                                              *)
Value == 1 .. file.sound \cup {Silence, Noise}

(* The cache has handed out what it holds at most, and has room for it.    *)
Cache ==
  {c \in [fd : Int, index : Nat, end : Nat] : c.index <= c.end /\ c.end <= HeaderLen}

Readers == {"guess", "chunk", "case", "list", "header", "classify", "headers", "length", "free",
            "metadata", "validate", "create", "read", "rest", "piece", "refused", "loaded"}

CommonInv ==
  /\ file \in Files
  /\ pc \in Readers
  /\ channels \in {0, file.channels}
  /\ frames \in Int
  /\ samples \in Nat
  /\ ptr \in Seq(Value)
  /\ Len(ptr) <= samples

(* Each format keeps to its own places; there is a buffer when the handle  *)
(* is valid; and WAV samples are read in one go.                           *)
PlaceInv ==
  /\ pc \in {"chunk", "case", "list", "header"} => file.kind = "wav"
  /\ pc \in {"classify", "headers", "length", "free"} => file.kind = "ogg"
  /\ pc \in {"metadata", "rest", "piece"} => file.kind = "flac"
  /\ pc \notin {"read", "rest", "piece", "loaded"} => samples = 0 /\ ptr = <<>>
  /\ pc = "read" /\ file.kind = "wav" => ptr = <<>>
  /\ pc \in {"create", "read", "rest", "piece"} => channels = file.channels
  /\ pc = "create" => frames >= 0

(* A chunk's id may be anything.                                           *)
IsChunk == chunk \in [id : {chunk.id}, size : Nat]

WavInv ==
  /\ io \in Cache
  /\ IsChunk
  /\ parsestage \subseteq {"RIFF", "WAVE", "fmt"}
  /\ dataoffset \in Int /\ dataend \in Int
  /\ list \in [length : Int, bytesread : Int]
  /\ "fmt" \in parsestage => channels = file.channels
  /\ dataoffset > 0 => channels = file.channels

StreamRecord == [doneheaders : Int, last : Int, end : BOOLEAN, illegal : BOOLEAN]

OggInv ==
  /\ file.kind = "ogg" => page \in 0 .. Len(file.pages) /\ begin \in 0 .. Len(file.pages)
  /\ packets \in 0 .. 2
  /\ len \in Int
  /\ \A s \in DOMAIN streams : streams[s] \in StreamRecord

FlacInv ==
  /\ file.kind = "flac" => block \in 0 .. Len(file.blocks)
  /\ left \in Seq(Value)
  /\ goal \in Nat /\ goal <= samples
  /\ pc \in {"rest", "piece"} => Len(ptr) <= goal

IInv == CommonInv /\ PlaceInv /\ WavInv /\ OggInv /\ FlacInv

-----------------------------------------------------------------------------

LEMMA LessOfTwo ==
  ASSUME NEW a \in Int, NEW b \in Int
  PROVE  Min({a, b}) = IF a <= b THEN a ELSE b
<1>1. CASE a <= b
  <2>1. a \in {a, b} /\ \A y \in {a, b} : a <= y
    BY <1>1
  <2>2. \A x \in {a, b} : (\A y \in {a, b} : x <= y) => x = a
    BY <1>1
  <2> QED
    BY <1>1, <2>1, <2>2 DEF Min
<1>2. CASE ~(a <= b)
  <2>1. b \in {a, b} /\ \A y \in {a, b} : b <= y
    BY <1>2
  <2>2. \A x \in {a, b} : (\A y \in {a, b} : x <= y) => x = b
    BY <1>2
  <2> QED
    BY <1>2, <2>1, <2>2 DEF Min
<1> QED
  BY <1>1, <1>2

LEMMA MoreOfTwo ==
  ASSUME NEW a \in Int, NEW b \in Int
  PROVE  Max({a, b}) = IF a >= b THEN a ELSE b
<1>1. CASE a >= b
  <2>1. a \in {a, b} /\ \A y \in {a, b} : a >= y
    BY <1>1
  <2>2. \A x \in {a, b} : (\A y \in {a, b} : x >= y) => x = a
    BY <1>1
  <2> QED
    BY <1>1, <2>1, <2>2 DEF Max
<1>2. CASE ~(a >= b)
  <2>1. b \in {a, b} /\ \A y \in {a, b} : b >= y
    BY <1>2
  <2>2. \A x \in {a, b} : (\A y \in {a, b} : x >= y) => x = b
    BY <1>2
  <2> QED
    BY <1>2, <2>1, <2>2 DEF Max
<1> QED
  BY <1>1, <1>2

-----------------------------------------------------------------------------
(* The cache.                                                              *)

LEMMA FreadBounds ==
  ASSUME file.length \in Int, NEW p \in Int, NEW n \in Int
  PROVE  psf_fread(p, n) \in Nat /\ (n >= 0 => psf_fread(p, n) <= n)
<1> DEFINE rest == file.length - p
           m == Min({n, rest})
<1>1. psf_fread(p, n) = Max({0, m})
  BY DEF psf_fread
<1>2. rest \in Int
  OBVIOUS
<1> HIDE DEF rest
<1>3. m \in Int /\ m <= n
  BY <1>2, LessOfTwo
<1> HIDE DEF m
<1>4. Max({0, m}) = IF 0 >= m THEN 0 ELSE m
  BY <1>3, MoreOfTwo
<1> QED
  BY <1>1, <1>3, <1>4

LEMMA ReadStaysInCache ==
  ASSUME file.length \in Int, NEW c \in Cache, NEW n \in Nat
  PROVE  header_read(c, n) \in Cache
<1> DEFINE need == n - (c.end - c.index)
           got == psf_fread(c.fd, need)
           all == psf_fread(c.fd, n)
           last == c.index + HeaderLen - c.end
<1>1. /\ c \in [fd : Int, index : Nat, end : Nat]
      /\ c.fd \in Int /\ c.index \in Nat /\ c.end \in Nat
      /\ c.index <= c.end /\ c.end <= HeaderLen
  BY DEF Cache
<1>2. need \in Int
  BY <1>1
<1>3. got \in Nat /\ all \in Nat
  BY <1>1, <1>2, FreadBounds
<1>4. last \in Nat /\ last <= HeaderLen
  BY <1>1
<1>5. header_read(c, n) =
        IF c.index >= HeaderLen THEN [c EXCEPT !.fd = @ + all]
        ELSE IF Crosses(c, n) THEN [fd |-> c.fd + all, index |-> last, end |-> last]
        ELSE IF need <= 0 THEN [c EXCEPT !.index = @ + n]
        ELSE IF got < need THEN [c EXCEPT !.fd = @ + got]
        ELSE [fd |-> c.fd + need, index |-> c.index + n, end |-> c.index + n]
  BY DEF header_read
<1> HIDE DEF got, all, last
<1>6. CASE c.index >= HeaderLen
  BY <1>1, <1>3, <1>5, <1>6 DEF Cache
<1>7. CASE ~(c.index >= HeaderLen) /\ Crosses(c, n)
  BY <1>1, <1>3, <1>4, <1>5, <1>7 DEF Cache
<1>8. CASE ~(c.index >= HeaderLen) /\ ~Crosses(c, n) /\ need <= 0
  BY <1>1, <1>5, <1>8 DEF Cache
<1>9. CASE ~(c.index >= HeaderLen) /\ ~Crosses(c, n) /\ ~(need <= 0)
  BY <1>1, <1>2, <1>3, <1>5, <1>9 DEF Cache, Crosses
<1> QED
  BY <1>6, <1>7, <1>8, <1>9

LEMMA SeekStaysInCache ==
  ASSUME file.length \in Int, NEW c \in Cache, NEW d \in Int
  PROVE  header_seek(c, d) \in Cache
<1> DEFINE ahead == d - (c.end - c.index)
           got == psf_fread(c.fd, ahead)
<1>1. /\ c \in [fd : Int, index : Nat, end : Nat]
      /\ c.fd \in Int /\ c.index \in Nat /\ c.end \in Nat
      /\ c.index <= c.end /\ c.end <= HeaderLen
  BY DEF Cache
<1>2. ahead \in Int
  BY <1>1
<1>3. got \in Nat /\ (ahead >= 0 => got <= ahead)
  BY <1>1, <1>2, FreadBounds
<1>4. header_seek(c, d) =
        IF d = 0 \/ c.index + d < 0 THEN c
        ELSE IF c.index >= HeaderLen THEN [c EXCEPT !.fd = @ + d]
        ELSE IF c.index + d <= c.end THEN [c EXCEPT !.index = @ + d]
        ELSE IF Crosses(c, d) THEN [c EXCEPT !.fd = @ + d, !.index = c.end]
        ELSE [fd |-> c.fd + got, index |-> c.end + got, end |-> c.end + got]
  BY DEF header_seek
<1> HIDE DEF got
<1>5. CASE d = 0 \/ c.index + d < 0
  BY <1>4, <1>5
<1>6. CASE ~(d = 0 \/ c.index + d < 0) /\ c.index >= HeaderLen
  BY <1>1, <1>4, <1>6 DEF Cache
<1>7. CASE ~(d = 0 \/ c.index + d < 0) /\ ~(c.index >= HeaderLen) /\ c.index + d <= c.end
  BY <1>1, <1>4, <1>7 DEF Cache
<1>8. CASE /\ ~(d = 0 \/ c.index + d < 0) /\ ~(c.index >= HeaderLen)
           /\ ~(c.index + d <= c.end) /\ Crosses(c, d)
  <2>1. header_seek(c, d) = [c EXCEPT !.fd = @ + d, !.index = c.end]
    BY <1>4, <1>8
  <2>2. header_seek(c, d) = [fd |-> c.fd + d, index |-> c.end, end |-> c.end]
    BY <1>1, <2>1
  <2> QED
    BY <1>1, <2>2 DEF Cache
<1>9. CASE /\ ~(d = 0 \/ c.index + d < 0) /\ ~(c.index >= HeaderLen)
           /\ ~(c.index + d <= c.end) /\ ~Crosses(c, d)
  <2>1. ahead >= 0 /\ c.end + got <= HeaderLen
    BY <1>1, <1>2, <1>3, <1>9 DEF Crosses
  <2>2. header_seek(c, d) = [fd |-> c.fd + got, index |-> c.end + got, end |-> c.end + got]
    BY <1>4, <1>9
  <2>3. c.fd + got \in Int /\ c.end + got \in Nat
    BY <1>1, <1>3
  <2> QED
    BY <2>1, <2>2, <2>3 DEF Cache
<1> QED
  BY <1>5, <1>6, <1>7, <1>8, <1>9

-----------------------------------------------------------------------------
(* What is found in a WAV file.                                            *)

LEMMA FoundTyped ==
  ASSUME file \in Files, file.kind = "wav", NEW p, NEW q
  PROVE  SizesAt(p, q) \subseteq Nat /\ CountsAt(p) \subseteq Nat
<1>1. \A h \in file.heads : h.size \in Nat /\ h.count \in Nat
  BY FilesAssumption
<1>2. \A x : IsHead(x) => HeadAt(x) \in file.heads
  BY DEF IsHead, HeadAt
<1>3. SizesAt(p, q) \subseteq Nat
  <2>1. \A x : IsHead(x) => HeadAt(x).size \in Nat
    BY <1>1, <1>2
  <2>2. CASE ~Within(q, 4)
    <3>1. SizesAt(p, q) = {0}
      BY <2>2, Zenon DEF SizesAt
    <3> QED
      BY <3>1
  <2>3. CASE Within(q, 4) /\ IsHead(p) /\ q = p + 4
    BY <2>1, <2>3, Zenon DEF SizesAt
  <2>4. CASE Within(q, 4) /\ ~(IsHead(p) /\ q = p + 4)
    BY <2>4, Zenon DEF SizesAt
  <2> QED
    BY <2>2, <2>3, <2>4
<1>4. CountsAt(p) \subseteq Nat
  BY <1>1, <1>2 DEF CountsAt
<1> QED
  BY <1>3, <1>4

(* What a step of the parser does to the types.                            *)
Parsed ==
  /\ io' \in Cache
  /\ IsChunk'
  /\ list' \in [length : Int, bytesread : Int]
  /\ parsestage' \subseteq {"RIFF", "WAVE", "fmt"}
  /\ dataoffset' \in Int /\ dataend' \in Int
  /\ "fmt" \in parsestage' => channels' = file.channels
  /\ dataoffset' > 0 => channels' = file.channels
  /\ channels' \in {channels, file.channels}
  /\ pc' \in {"chunk", "case", "list", "header", "refused"}
  /\ UNCHANGED <<file, frames, samples, ptr>>

LEMMA RoundTyped ==
  ASSUME IsChunk, NEW c \in Cache, NEW n \in Nat, Round(c, n)
  PROVE  /\ io' \in Cache /\ IsChunk'
         /\ pc' \in {"chunk", "header"}
  BY DEF Round, IsChunk

LEMMA StopTyped ==
  ASSUME IsChunk, io \in Cache, NEW next, Stop(next)
  PROVE  /\ io' \in Cache /\ IsChunk'
         /\ pc' = next
  BY DEF Stop, IsChunk

LEMMA PaddedTyped ==
  ASSUME NEW n \in Int
  PROVE  Padded(n) \in Int /\ (n >= 0 => Padded(n) \in Nat)
  BY DEF Padded

(* Where the steps over chunks start from.                                 *)
LEMMA Parsing ==
  ASSUME IInv, file.kind = "wav"
  PROVE  /\ IsChunk /\ chunk.size \in Nat /\ io \in Cache /\ io.fd \in Int
         /\ file.length \in Int
         /\ dataoffset \in Int /\ dataend \in Int
         /\ list \in [length : Int, bytesread : Int]
         /\ list.length \in Int /\ list.bytesread \in Int
         /\ parsestage \subseteq {"RIFF", "WAVE", "fmt"}
         /\ "fmt" \in parsestage => channels = file.channels
         /\ dataoffset > 0 => channels = file.channels
  BY FilesAssumption DEF IInv, CommonInv, WavInv, IsChunk, Cache

LEMMA ReadRiffTyped ==
  ASSUME IInv, file.kind = "wav", ReadRiff
  PROVE  Parsed
<1>1. CASE parsestage = {} /\ "WAVE" \in Ids(Place(io, 4))
  <2>1. Round(header_read(io, 4), 0) /\ parsestage' = {"RIFF", "WAVE"}
    BY <1>1 DEF ReadRiff
  <2>2. header_read(io, 4) \in Cache
    BY Parsing, ReadStaysInCache
  <2>3. io' \in Cache /\ IsChunk' /\ pc' \in {"chunk", "header"}
    BY <2>1, <2>2, Parsing, RoundTyped
  <2> QED
    BY <2>1, <2>3, Parsing DEF ReadRiff, Parsed, handle, buf
<1>2. CASE ~(parsestage = {} /\ "WAVE" \in Ids(Place(io, 4)))
  <2>1. Stop("refused") /\ UNCHANGED parsestage
    BY <1>2 DEF ReadRiff
  <2>2. io' \in Cache /\ IsChunk' /\ pc' = "refused"
    BY <2>1, Parsing, StopTyped
  <2> QED
    BY <2>1, <2>2, Parsing DEF ReadRiff, Parsed, handle, buf
<1> QED
  BY <1>1, <1>2

LEMMA ReadFmtTyped ==
  ASSUME IInv, file.kind = "wav", ReadFmt
  PROVE  Parsed
<1> DEFINE c == header_seek(header_read(io, 16), chunk.size - 16)
<1>1. c \in Cache
  <2>1. /\ file.length \in Int /\ io \in Cache
        /\ chunk.size - 16 \in Int /\ 16 \in Nat
    BY Parsing
  <2>2. header_read(io, 16) \in Cache
    BY <2>1, ReadStaysInCache
  <2> QED
    BY <2>1, <2>2, SeekStaysInCache
<1> HIDE DEF c
<1>2. \/ /\ Round(io, chunk.size) \/ Stop("refused")
         /\ UNCHANGED <<channels, parsestage>>
      \/ /\ Round(c, chunk.size)
         /\ parsestage' = parsestage \cup {"fmt"} /\ channels' = file.channels
  BY DEF ReadFmt, Seen, c
<1>3. io' \in Cache /\ IsChunk' /\ pc' \in {"chunk", "header", "refused"}
  BY <1>1, <1>2, Parsing, RoundTyped, StopTyped
<1>4. /\ parsestage' \subseteq {"RIFF", "WAVE", "fmt"}
      /\ "fmt" \in parsestage' => channels' = file.channels
      /\ channels' \in {channels, file.channels}
      /\ dataoffset > 0 => channels' = file.channels
  BY <1>2, Parsing
<1> QED
  BY <1>3, <1>4, Parsing DEF ReadFmt, Parsed, buf

LEMMA ReadDataTyped ==
  ASSUME IInv, file.kind = "wav", ReadData
  PROVE  Parsed
<1> DEFINE rest == file.length - io.fd
           datalength == IF LooksUnclosed THEN rest ELSE Min({chunk.size, rest})
           c == [io EXCEPT !.fd = @ + datalength + (chunk.size % 2)]
<1>1. rest \in Int
  BY Parsing
<1>2. Min({chunk.size, rest}) \in Int
  BY <1>1, Parsing, LessOfTwo
<1>3. datalength \in Int
  BY <1>1, <1>2
<1>4. \/ /\ {"WAVE", "fmt"} \subseteq parsestage
         /\ dataoffset' = io.fd
         /\ dataend' = IF datalength < rest THEN io.fd + datalength ELSE dataend
         /\ Round(c, 0)
      \/ Stop("refused") /\ UNCHANGED <<dataoffset, dataend>>
  BY DEF ReadData
<1> HIDE DEF datalength
<1>5. c \in Cache
  BY <1>3, Parsing DEF Cache
<1> HIDE DEF c, rest
<1>6. io' \in Cache /\ IsChunk' /\ pc' \in {"chunk", "header", "refused"}
  BY <1>4, <1>5, Parsing, RoundTyped, StopTyped
<1>7. dataoffset' \in Int /\ dataend' \in Int
  BY <1>1, <1>3, <1>4, Parsing
<1>8. dataoffset' > 0 => channels = file.channels
  BY <1>4, Parsing
<1> QED
  BY <1>6, <1>7, <1>8, Parsing DEF ReadData, Parsed, handle, buf

LEMMA ReadFactTyped ==
  ASSUME IInv, file.kind = "wav", ReadFact
  PROVE  Parsed
<1> DEFINE rest == Max({0, chunk.size - 4})
           c == header_seek(header_read(io, 4), rest)
<1>1. chunk.size - 4 \in Int
  BY Parsing
<1>2. rest \in Int
  BY <1>1, MoreOfTwo
<1> HIDE DEF rest
<1>3. c \in Cache
  <2>1. file.length \in Int /\ io \in Cache /\ 4 \in Nat
    BY Parsing
  <2>2. header_read(io, 4) \in Cache
    BY <2>1, ReadStaysInCache
  <2> QED
    BY <1>2, <2>1, <2>2, SeekStaysInCache
<1>4. Round(c, chunk.size) \/ Stop("refused")
  BY DEF ReadFact, rest
<1> HIDE DEF c
<1>5. io' \in Cache /\ IsChunk' /\ pc' \in {"chunk", "header", "refused"}
  BY <1>3, <1>4, Parsing, RoundTyped, StopTyped
<1> QED
  BY <1>5, Parsing DEF ReadFact, Parsed, handle, buf

LEMMA ReadCueTyped ==
  ASSUME IInv, file.kind = "wav", ReadCue
  PROVE  Parsed
<1> DEFINE behind == header_read(io, 4)
<1>1. behind \in Cache
  BY Parsing, ReadStaysInCache
<1>2. PICK count \in CountsAt(Place(io, 4)) :
        IF count > 10
        THEN Round(header_seek(behind, CuesSkipped(count)), chunk.size)
        ELSE Round(header_seek(header_read(behind, 24 * count), chunk.size - 4 - 24 * count), chunk.size)
  BY DEF ReadCue
<1> HIDE DEF behind
<1>3. count \in Nat
  BY <1>2, FoundTyped DEF IInv, CommonInv
<1>4. PICK c \in Cache : Round(c, chunk.size)
  <2>1. CASE count > 10
    <3>1. CuesSkipped(count) \in Int
      BY <1>3, LessOfTwo DEF CuesSkipped
    <3>2. header_seek(behind, CuesSkipped(count)) \in Cache
      BY <1>1, <3>1, Parsing, SeekStaysInCache
    <3> QED
      BY <1>2, <2>1, <3>2
  <2>2. CASE ~(count > 10)
    <3>1. header_read(behind, 24 * count) \in Cache
      BY <1>1, <1>3, Parsing, ReadStaysInCache
    <3>2. chunk.size - 4 - 24 * count \in Int
      BY <1>3, Parsing
    <3>3. header_seek(header_read(behind, 24 * count), chunk.size - 4 - 24 * count) \in Cache
      BY <3>1, <3>2, Parsing, SeekStaysInCache
    <3> QED
      BY <1>2, <2>2, <3>3
  <2> QED
    BY <2>1, <2>2
<1>5. io' \in Cache /\ IsChunk' /\ pc' \in {"chunk", "header"}
  BY <1>4, Parsing, RoundTyped
<1> QED
  BY <1>5, Parsing DEF ReadCue, Parsed, handle, buf

LEMMA SkipChunkTyped ==
  ASSUME IInv, file.kind = "wav", SkipChunk
  PROVE  Parsed
<1>1. header_seek(io, chunk.size) \in Cache
  BY Parsing, SeekStaysInCache
<1>2. io' \in Cache /\ IsChunk' /\ pc' \in {"chunk", "header"}
  BY <1>1, Parsing, RoundTyped DEF SkipChunk
<1> QED
  BY <1>2, Parsing DEF SkipChunk, Parsed, handle, buf

LEMMA ResyncTyped ==
  ASSUME IInv, file.kind = "wav", Resync
  PROVE  Parsed
<1>1. header_seek(io, StepBack) \in Cache
  BY Parsing, SeekStaysInCache DEF StepBack
<1>2. Round(header_seek(io, StepBack), chunk.size) \/ Stop("header")
  BY DEF Resync
<1>3. io' \in Cache /\ IsChunk' /\ pc' \in {"chunk", "header"}
  BY <1>1, <1>2, Parsing, RoundTyped, StopTyped
<1> QED
  BY <1>3, Parsing DEF Resync, Parsed, handle, buf

LEMMA NextChunkTyped ==
  ASSUME IInv, file.kind = "wav", NextChunk
  PROVE  Parsed
<1>1. WavInv /\ file \in Files /\ file.length \in Int
  BY FilesAssumption DEF IInv, CommonInv
<1>2. PICK start \in {header_seek(io, chunk.size % 2)} : \E behind \in {header_read(start, 4)} :
        \E id \in Ids(Place(start, 4)), size \in SizesAt(Place(start, 4), Place(behind, 4)) :
          /\ chunk' = [id |-> id, size |-> size]
          /\ io' = header_read(behind, 4)
  BY DEF NextChunk
<1>3. PICK behind \in {header_read(start, 4)} :
        \E id \in Ids(Place(start, 4)), size \in SizesAt(Place(start, 4), Place(behind, 4)) :
          /\ chunk' = [id |-> id, size |-> size]
          /\ io' = header_read(behind, 4)
  BY <1>2
<1>4. chunk.size % 2 \in Int
  BY <1>1 DEF WavInv, IsChunk
<1>5. start \in Cache
  BY <1>1, <1>4, SeekStaysInCache DEF WavInv
<1>6. behind \in Cache
  BY <1>1, <1>5, ReadStaysInCache
<1>7. io' \in Cache
  BY <1>1, <1>3, <1>6, ReadStaysInCache
<1>8. IsChunk'
  BY <1>1, <1>3, FoundTyped DEF IsChunk
<1> QED
  BY <1>1, <1>7, <1>8 DEF NextChunk, WavInv, Parsed, handle, buf
LEMMA ReadListTyped ==
  ASSUME IInv, file.kind = "wav", ReadList
  PROVE  Parsed
<1> DEFINE c == header_seek(header_read(io, 4), chunk.size - 4)
           d == header_seek(io, chunk.size)
           rest == file.length - (io.fd - 4)
<1>1. c \in Cache /\ d \in Cache
  <2>1. /\ file.length \in Int /\ io \in Cache
        /\ chunk.size \in Int /\ chunk.size - 4 \in Int /\ 4 \in Nat
    BY Parsing
  <2>2. header_read(io, 4) \in Cache
    BY <2>1, ReadStaysInCache
  <2> QED
    BY <2>1, <2>2, SeekStaysInCache
<1>2. rest \in Int
  BY Parsing
<1>3. Min({chunk.size, rest}) \in Int
  BY <1>2, Parsing, LessOfTwo
<1>4. \/ Round(c, chunk.size) /\ UNCHANGED list
      \/ Round(d, chunk.size) /\ UNCHANGED list
      \/ /\ list' = [length |-> Min({chunk.size, rest}), bytesread |-> 4]
         /\ pc' = "list"
         /\ UNCHANGED <<io, chunk>>
  BY DEF ReadList
<1> HIDE DEF c, d, rest
<1>5. list' \in [length : Int, bytesread : Int]
  BY <1>3, <1>4, Parsing
<1>6. io' \in Cache /\ IsChunk' /\ pc' \in {"chunk", "header", "list"}
  <2>1. CASE Round(c, chunk.size) \/ Round(d, chunk.size)
    BY <1>1, <2>1, Parsing, RoundTyped
  <2>2. CASE pc' = "list" /\ UNCHANGED <<io, chunk>>
    BY <2>2, Parsing DEF IsChunk
  <2> QED
    BY <1>4, <2>1, <2>2
<1> QED
  BY <1>5, <1>6, Parsing DEF ReadList, Parsed, handle, buf

(* What is true when a step through a LIST has been made.                  *)
Listed ==
  /\ io' \in Cache /\ IsChunk'
  /\ list' \in [length : Int, bytesread : Int]
  /\ pc' \in {"chunk", "header", "list"}

LEMMA NextItemTyped ==
  ASSUME IInv, file.kind = "wav", pc = "list", NEW c \in Cache, NEW n \in Int, NextItem(c, n)
  PROVE  Listed
  BY Parsing DEF NextItem, Listed, IsChunk

LEMMA LeaveListTyped ==
  ASSUME IInv, file.kind = "wav", NEW c \in Cache, LeaveList(c)
  PROVE  Listed
  BY Parsing, RoundTyped DEF LeaveList, Listed

(* The items with a text, which is read or stepped over.                   *)
LEMMA TextTyped ==
  ASSUME IInv, file.kind = "wav", pc = "list", NEW c \in Cache, NEW size \in Nat,
         ReadString(c, size) \/ SkipNote(c, size)
  PROVE  Listed
<1>1. Padded(size) \in Nat
  BY PaddedTyped
<1>2. /\ header_seek(c, list.length) \in Cache
      /\ header_read(c, Padded(size)) \in Cache
      /\ header_seek(c, Padded(size)) \in Cache
  <2>1. file.length \in Int /\ list.length \in Int /\ Padded(size) \in Int
    BY <1>1, Parsing
  <2> QED
    BY <1>1, <2>1, ReadStaysInCache, SeekStaysInCache
<1>3. 8 + Padded(size) \in Int
  BY <1>1
<1>4. \E d \in Cache : LeaveList(d) \/ NextItem(d, 8 + Padded(size))
  BY <1>2 DEF ReadString, SkipNote
<1> QED
  BY <1>3, <1>4, NextItemTyped, LeaveListTyped

LEMMA LabelTyped ==
  ASSUME IInv, file.kind = "wav", pc = "list", NEW c \in Cache, NEW size \in Nat, ReadLabel(c, size)
  PROVE  Listed
<1> DEFINE behind == header_read(c, 4)
           text == Padded(size - 4)
<1>1. behind \in Cache
  BY Parsing, ReadStaysInCache
<1>2. text \in Int
  BY PaddedTyped
<1>3. IF text < 1 \/ TooBig(text) THEN NextItem(header_seek(behind, list.length), 12)
      ELSE NextItem(header_read(behind, text), 12 + text)
  BY DEF ReadLabel
<1> HIDE DEF behind, text
<1>4. CASE text < 1 \/ TooBig(text)
  <2>1. header_seek(behind, list.length) \in Cache
    BY <1>1, Parsing, SeekStaysInCache
  <2> QED
    BY <1>3, <1>4, <2>1, NextItemTyped
<1>5. CASE ~(text < 1 \/ TooBig(text))
  <2>1. text \in Nat
    BY <1>2, <1>5
  <2>2. header_read(behind, text) \in Cache /\ 12 + text \in Int
    BY <1>1, <2>1, Parsing, ReadStaysInCache
  <2> QED
    BY <1>3, <1>5, <2>2, NextItemTyped
<1> QED
  BY <1>4, <1>5

LEMMA OtherItemTyped ==
  ASSUME IInv, file.kind = "wav", pc = "list", NEW c \in Cache, NEW size \in Nat, SkipItem(c, size)
  PROVE  Listed
<1>1. Padded(size) \in Int /\ Rest(8) \in Int
  BY PaddedTyped, Parsing DEF Rest
<1>2. header_seek(c, Rest(8)) \in Cache /\ header_seek(c, Padded(size)) \in Cache
  BY <1>1, Parsing, SeekStaysInCache
<1>3. 8 + Rest(8) \in Int /\ 8 + Padded(size) \in Int
  BY <1>1
<1> QED
  BY <1>2, <1>3, NextItemTyped DEF SkipItem

LEMMA ReadItemTyped ==
  ASSUME IInv, file.kind = "wav", ReadItem
  PROVE  Parsed
<1> DEFINE behind == header_read(io, 4)
           c == header_read(behind, 4)
<1>1. behind \in Cache
  BY Parsing, ReadStaysInCache
<1> HIDE DEF behind
<1>2. c \in Cache
  BY <1>1, Parsing, ReadStaysInCache
<1> HIDE DEF c
<1>3. PICK id, size \in SizesAt(Place(io, 4), Place(behind, 4)) :
        \/ NextItem(behind, 4)
        \/ ZeroMarker(behind)
        \/ LeaveList(behind)
        \/ LeaveList(header_seek(behind, -4))
        \/ ReadString(c, size) \/ SkipNote(c, size)
        \/ ReadLabel(c, size)
        \/ SkipItem(c, size)
  BY DEF ReadItem, behind, c
<1>4. size \in Nat
  BY <1>3, FoundTyped DEF IInv, CommonInv
<1>5. pc = "list"
  BY DEF ReadItem
<1>6. header_seek(behind, -4) \in Cache
  BY <1>1, Parsing, SeekStaysInCache
<1>7. ASSUME ZeroMarker(behind) PROVE Listed
  <2>1. Rest(4) \in Int
    BY Parsing DEF Rest
  <2>2. header_seek(behind, Rest(4)) \in Cache
    BY <1>1, <2>1, Parsing, SeekStaysInCache
  <2> DEFINE d == IF list.bytesread + 4 < list.length THEN header_seek(behind, Rest(4)) ELSE behind
  <2>3. d \in Cache
    BY <1>1, <2>2
  <2>4. LeaveList(d)
    BY <1>7 DEF ZeroMarker
  <2> HIDE DEF d
  <2> QED
    BY <2>3, <2>4, LeaveListTyped
<1>8. Listed
  <2>1. CASE NextItem(behind, 4)
    BY <1>1, <1>5, <2>1, NextItemTyped
  <2>2. CASE ZeroMarker(behind)
    BY <1>7, <2>2
  <2>7. CASE LeaveList(behind)
    BY <1>1, <2>7, LeaveListTyped
  <2>3. CASE LeaveList(header_seek(behind, -4))
    BY <1>6, <2>3, LeaveListTyped
  <2>4. CASE ReadString(c, size) \/ SkipNote(c, size)
    BY <1>2, <1>4, <1>5, <2>4, TextTyped
  <2>5. CASE ReadLabel(c, size)
    BY <1>2, <1>4, <1>5, <2>5, LabelTyped
  <2>6. CASE SkipItem(c, size)
    BY <1>2, <1>4, <1>5, <2>6, OtherItemTyped
  <2> QED
    BY <1>3, <2>1, <2>2, <2>3, <2>4, <2>5, <2>6, <2>7
<1> QED
  BY <1>8, Parsing DEF Listed, ReadItem, Parsed, handle, buf

LEMMA EndOfListTyped ==
  ASSUME IInv, file.kind = "wav", EndOfList
  PROVE  Parsed
<1>1. Listed
  BY Parsing, LeaveListTyped DEF EndOfList
<1> QED
  BY <1>1, Parsing DEF Listed, EndOfList, Parsed, handle, buf

-----------------------------------------------------------------------------
(* Sequences.                                                              *)

LEMMA Joined ==
  ASSUME NEW V, NEW s \in Seq(V), NEW t \in Seq(V)
  PROVE  s \o t \in Seq(V) /\ Len(s \o t) = Len(s) + Len(t)
OBVIOUS

LEMMA Divided ==
  ASSUME NEW V, NEW s \in Seq(V), NEW n \in 0 .. Len(s)
  PROVE  /\ SubSeq(s, 1, n) \in Seq(V) /\ Len(SubSeq(s, 1, n)) = n
         /\ SubSeq(s, n + 1, Len(s)) \in Seq(V)
OBVIOUS

LEMMA Tabulated ==
  ASSUME NEW V, NEW n \in Nat, NEW f \in [1 .. n -> V]
  PROVE  f \in Seq(V) /\ Len(f) = n
OBVIOUS

LEMMA DeliverTyped ==
  ASSUME CommonInv, NEW more \in Seq(Value), NEW next, Deliver(more, next)
  PROVE  /\ ptr' \in Seq(Value') /\ Len(ptr') = Len(ptr) + Len(more)
         /\ pc' = next
         /\ UNCHANGED <<file, channels, frames, samples>>
<1>1. Value' = Value
  BY DEF Deliver, handle, Value
<1>2. ptr \in Seq(Value) /\ ptr' = ptr \o more
  BY DEF CommonInv, Deliver
<1> QED
  BY <1>1, <1>2, Joined DEF Deliver, handle

(* The samples of some frames of the sound.                                *)
LEMMA SamplesTyped ==
  ASSUME CommonInv, channels = file.channels,
         NEW first \in Nat, NEW last \in Int, NEW end \in Nat, Holds(file, first, end),
         first <= last + 1, last <= end
  PROVE  /\ SamplesOf(first, last) \in Seq(Value)
         /\ Len(SamplesOf(first, last)) = channels * (last - first + 1)
<1> DEFINE n == channels * (last - first + 1)
<1>1. channels \in Nat \ {0} /\ file.sound \in Nat
  BY FilesAssumption DEF CommonInv
<1>2. last - first + 1 \in Nat
  OBVIOUS
<1>3. n \in Nat
  BY <1>1, <1>2
<1>4. channels * (first - 1) \in Nat
  BY <1>1 DEF Holds
<1>5. channels * (first - 1) + n = channels * last
  <2>1. n = (last - first + 1) * channels /\ channels * (first - 1) = (first - 1) * channels
    BY <1>1
  <2>2. ((first - 1) + (last - first + 1)) * channels = (first - 1) * channels + (last - first + 1) * channels
    <3> DEFINE x == first - 1
               y == last - first + 1
    <3>1. x \in Int /\ y \in Int /\ channels \in Int
      BY <1>1
    <3> HIDE DEF x, y
    <3>2. (x + y) * channels = x * channels + y * channels
      BY <3>1, Distribute
    <3> QED
      BY <3>2 DEF x, y
  <2>3. (first - 1) + (last - first + 1) = last
    OBVIOUS
  <2> QED
    BY <1>1, <2>1, <2>2, <2>3
<1>6. channels * last <= file.sound
  <2>1. last * channels <= end * channels
    BY <1>1, Monotone
  <2>2. channels * end <= file.sound
    BY DEF Holds
  <2> QED
    BY <1>1, <2>1, <2>2
<1> HIDE DEF n
<1>7. \A k \in 1 .. n : channels * (first - 1) + k \in 1 .. file.sound
  BY <1>1, <1>3, <1>4, <1>5, <1>6
<1>8. SamplesOf(first, last) = [k \in 1 .. n |-> channels * (first - 1) + k]
  BY DEF SamplesOf, n
<1>9. [k \in 1 .. n |-> channels * (first - 1) + k] \in [1 .. n -> Value]
  BY <1>7 DEF Value
<1> QED
  BY <1>3, <1>8, <1>9, Tabulated DEF n

-----------------------------------------------------------------------------
(* WAV.                                                                    *)

LEMMA ParsedKeeps ==
  ASSUME IInv, file.kind = "wav", pc \in {"chunk", "case", "list"}, Parsed, UNCHANGED <<ogg, flac>>
  PROVE  IInv'
<1>1. Value' = Value
  BY DEF Parsed, Value
<1>2. CommonInv'
  BY <1>1 DEF IInv, CommonInv, Parsed, Readers
<1>3. PlaceInv'
  BY DEF IInv, PlaceInv, Parsed
<1>4. WavInv'
  BY DEF IInv, WavInv, Parsed
<1>5. OggInv'
  BY DEF IInv, OggInv, Parsed, ogg
<1>6. FlacInv'
  BY <1>1 DEF IInv, FlacInv, Parsed, flac
<1> QED
  BY <1>2, <1>3, <1>4, <1>5, <1>6 DEF IInv

LEMMA EndOfHeaderKeeps ==
  ASSUME IInv, EndOfHeader, UNCHANGED <<ogg, flac>>
  PROVE  IInv'
<1> DEFINE datalength == (IF dataend > 0 THEN dataend ELSE file.length) - dataoffset
           atData == [io EXCEPT !.fd = dataoffset]
<1>1. file.kind = "wav" /\ pc = "header"
  BY DEF IInv, PlaceInv, EndOfHeader
<1>2. io \in Cache /\ datalength \in Int /\ dataoffset \in Int
  BY <1>1, Parsing
<1>3. \/ pc' = "refused" /\ UNCHANGED frames
      \/ /\ ~(dataoffset <= 0)
         /\ pc' = "validate" /\ frames' = datalength \div (file.width * channels)
  BY DEF EndOfHeader
<1>4. io' \in Cache
  <2>1. io' = io \/ io' = [header_read(atData, 4) EXCEPT !.fd = dataoffset]
    BY DEF EndOfHeader
  <2>2. atData \in Cache
    BY <1>2 DEF Cache
  <2> HIDE DEF atData
  <2>3. header_read(atData, 4) \in Cache
    BY <1>1, <2>2, Parsing, ReadStaysInCache
  <2>4. [header_read(atData, 4) EXCEPT !.fd = dataoffset] \in Cache
    BY <1>2, <2>3 DEF Cache
  <2> QED
    BY <1>2, <2>1, <2>4
<1> HIDE DEF datalength, atData
<1>5. frames' \in Int /\ pc' \in {"refused", "validate"}
  <2>1. CASE pc' = "refused" /\ UNCHANGED frames
    BY <2>1 DEF IInv, CommonInv
  <2>2. CASE /\ ~(dataoffset <= 0)
             /\ pc' = "validate" /\ frames' = datalength \div (file.width * channels)
    <3>1. channels = file.channels
      BY <1>1, <1>2, <2>2, Parsing
    <3>2. file.width \in Nat \ {0} /\ channels \in Nat \ {0}
      BY <1>1, <3>1, FilesAssumption DEF IInv, CommonInv
    <3>3. file.width * channels \in Nat \ {0}
      BY <3>2
    <3> QED
      BY <1>2, <2>2, <3>3
  <2> QED
    BY <1>3, <2>1, <2>2
<1>6. UNCHANGED <<file, channels, samples, ptr, parser>> /\ Value' = Value
  BY DEF EndOfHeader, buf, Value
<1>7. CommonInv'
  BY <1>5, <1>6 DEF IInv, CommonInv, Readers
<1>8. PlaceInv'
  BY <1>1, <1>5, <1>6 DEF IInv, PlaceInv
<1>9. WavInv'
  BY <1>4, <1>6 DEF IInv, WavInv, parser, IsChunk
<1>10. OggInv'
  BY <1>6 DEF IInv, OggInv, ogg
<1>11. FlacInv'
  BY <1>5, <1>6 DEF IInv, FlacInv, flac
<1> QED
  BY <1>7, <1>8, <1>9, <1>10, <1>11 DEF IInv

LEMMA ReadPcmKeeps ==
  ASSUME IInv, ReadPcm, UNCHANGED <<ogg, flac>>
  PROVE  IInv'
<1> DEFINE got == psf_fread(io.fd, samples * file.width) \div file.width
           n == Min({samples, got})
           more == [k \in 1 .. n |-> SampleAt(io.fd + (k - 1) * file.width)]
<1>1. file.kind = "wav" /\ pc = "read" /\ Deliver(more, "loaded") /\ UNCHANGED wav
  BY DEF ReadPcm
<1>2. file.width \in Nat \ {0} /\ samples \in Nat /\ file.length \in Int /\ io.fd \in Int
  BY <1>1, FilesAssumption, Parsing DEF IInv, CommonInv
<1>3. samples * file.width \in Int
  BY <1>2
<1>4. psf_fread(io.fd, samples * file.width) \in Nat
  BY <1>2, <1>3, FreadBounds
<1>5. got \in Nat
  BY <1>2, <1>4, Quotient
<1> HIDE DEF got
<1>6. n \in Nat /\ n <= samples
  BY <1>2, <1>5, LessOfTwo
<1> HIDE DEF n
<1>7. \A p : SampleAt(p) \in Value
  BY DEF SampleAt, Value
<1>8. more \in [1 .. n -> Value]
  BY <1>7
<1> HIDE DEF more
<1>9. more \in Seq(Value) /\ Len(more) = n
  BY <1>6, <1>8, Tabulated
<1>10. /\ ptr' \in Seq(Value') /\ Len(ptr') = Len(ptr) + Len(more)
       /\ pc' = "loaded" /\ UNCHANGED <<file, channels, frames, samples>>
  BY <1>1, <1>9, DeliverTyped DEF IInv
<1>11. Len(ptr) = 0
  BY <1>1 DEF IInv, PlaceInv
<1>12. CommonInv'
  BY <1>6, <1>9, <1>10, <1>11 DEF IInv, CommonInv, Readers
<1>13. PlaceInv'
  BY <1>10 DEF PlaceInv
<1>14. WavInv'
  BY <1>1, <1>10 DEF IInv, WavInv, wav, parser, IsChunk
<1>15. OggInv'
  BY <1>10 DEF IInv, OggInv, ogg
<1>16. FlacInv'
  BY <1>10 DEF IInv, FlacInv, flac, Value
<1> QED
  BY <1>12, <1>13, <1>14, <1>15, <1>16 DEF IInv

LEMMA ReadWavKeeps ==
  ASSUME IInv, ReadWav, UNCHANGED <<ogg, flac>>
  PROVE  IInv'
<1>1. CASE \/ NextChunk \/ ReadRiff \/ ReadFmt \/ ReadData \/ ReadFact \/ ReadCue
           \/ SkipChunk \/ Resync \/ ReadList \/ ReadItem \/ EndOfList
  <2>1. pc \in {"chunk", "case", "list"}
    BY <1>1 DEF InCase, NextChunk, ReadRiff, ReadFmt, ReadData, ReadFact, ReadCue, SkipChunk,
                Resync, ReadList, ReadItem, EndOfList
  <2>2. file.kind = "wav"
    BY <2>1 DEF IInv, PlaceInv
  <2>3. Parsed
    BY <1>1, <2>2, NextChunkTyped, ReadRiffTyped, ReadFmtTyped, ReadDataTyped, ReadFactTyped,
       ReadCueTyped, SkipChunkTyped, ResyncTyped, ReadListTyped, ReadItemTyped, EndOfListTyped
  <2> QED
    BY <2>1, <2>2, <2>3, ParsedKeeps
<1>2. CASE EndOfHeader
  BY <1>2, EndOfHeaderKeeps
<1>3. CASE ReadPcm
  BY <1>3, ReadPcmKeeps
<1> QED
  BY <1>1, <1>2, <1>3 DEF ReadWav

-----------------------------------------------------------------------------
(* Ogg.                                                                    *)

LEMMA Paging ==
  ASSUME IInv, file.kind = "ogg"
  PROVE  /\ page \in 0 .. Len(file.pages) /\ begin \in 0 .. Len(file.pages)
         /\ packets \in 0 .. 2 /\ len \in Int
         /\ Len(file.pages) \in Nat
         /\ ~AtEnd => Taken \in Pages /\ page + 1 \in 1 .. Len(file.pages)
  BY FilesAssumption DEF IInv, CommonInv, OggInv, AtEnd, Taken

(* What a step through the pages does that puts nothing into the buffer.   *)
Paged ==
  /\ page' \in 0 .. Len(file.pages) /\ begin' \in 0 .. Len(file.pages)
  /\ packets' \in 0 .. 2 /\ len' \in Int
  /\ \A s \in DOMAIN streams' : streams'[s] \in StreamRecord
  /\ frames' \in Int
  /\ channels' \in {channels, file.channels}
  /\ pc' \in {"headers", "length", "free", "validate", "refused"}
  /\ UNCHANGED <<file, samples, ptr>>

LEMMA PagedKeeps ==
  ASSUME IInv, file.kind = "ogg", pc \in {"classify", "headers", "length", "free"}, Paged,
         UNCHANGED <<wav, flac>>
  PROVE  IInv'
<1>1. Value' = Value
  BY DEF Paged, Value
<1>2. CommonInv'
  BY <1>1 DEF IInv, CommonInv, Paged, Readers
<1>3. PlaceInv'
  BY DEF IInv, PlaceInv, Paged
<1>4. WavInv'
  BY DEF IInv, WavInv, Paged, wav, parser, IsChunk
<1>5. OggInv'
  BY DEF OggInv, Paged
<1>6. FlacInv'
  BY <1>1 DEF IInv, FlacInv, Paged, flac
<1> QED
  BY <1>2, <1>3, <1>4, <1>5, <1>6 DEF IInv

LEMMA StreamTyped ==
  ASSUME OggInv, NEW p \in Pages
  PROVE  find_stream_processor(p) \in StreamRecord
<1>1. CASE Known(p.serial)
  <2>1. Stream(p.serial) \in StreamRecord
    BY <1>1 DEF OggInv, Known, Stream
  <2>2. p.eos \in BOOLEAN
    BY DEF Pages
  <2> QED
    BY <1>1, <2>1, <2>2 DEF find_stream_processor, StreamRecord
<1>2. CASE ~Known(p.serial)
  <2>1. p.eos \in BOOLEAN /\ (StreamsOpen /\ ~in_headers) \in BOOLEAN
    BY DEF Pages, StreamsOpen
  <2> QED
    BY <1>2, <2>1 DEF find_stream_processor, StreamRecord
<1> QED
  BY <1>1, <1>2

LEMMA HeadersTyped ==
  ASSUME NEW before \in Int, NEW p \in Pages, NEW n \in HeadersDone(before, p)
  PROVE  n \in Int
<1>1. CASE Missed(p.serial)
  BY <1>1 DEF HeadersDone
<1>2. CASE ~Missed(p.serial)
  <2> DEFINE m == before + (IF p.holds \in {"id", "header"} THEN Packets(p) ELSE 0)
  <2>1. n = Min({3, m})
    BY <1>2 DEF HeadersDone
  <2>2. m \in Int
    BY DEF Pages, Packets
  <2> HIDE DEF m
  <2> QED
    BY <2>1, <2>2, LessOfTwo
<1> QED
  BY <1>1, <1>2

LEMMA CountPageTyped ==
  ASSUME IInv, file.kind = "ogg", CountPage
  PROVE  Paged
<1> DEFINE p == find_stream_processor(Taken)
           last == IF p.doneheaders = 3 /\ Taken.granule > 0 THEN Taken.granule ELSE p.last
           now(h) == IF p.illegal THEN p ELSE [p EXCEPT !.doneheaders = h, !.last = last]
           then(h) == [now(h) EXCEPT !.illegal = @ \/ now(h).end]
<1>1. Taken \in Pages
  BY Paging DEF CountPage
<1>2. p \in StreamRecord
  BY <1>1, StreamTyped DEF IInv
<1>3. PICK h \in HeadersDone(p.doneheaders, Taken) :
        /\ streams' = [s \in DOMAIN streams \cup {Taken.serial} |->
                         IF s = Taken.serial THEN then(h) ELSE Stream(s)]
        /\ len' = IF now(h).end /\ ~p.illegal THEN Longer(len, now(h).last) ELSE len
  BY DEF CountPage
<1> HIDE DEF p
<1>4. h \in Int
  BY <1>1, <1>2, <1>3, HeadersTyped DEF StreamRecord
<1>5. last \in Int
  BY <1>1, <1>2 DEF StreamRecord, Pages
<1> HIDE DEF last
<1>6. now(h) \in StreamRecord
  BY <1>2, <1>4, <1>5 DEF StreamRecord
<1> HIDE DEF now
<1>7. then(h) \in StreamRecord
  BY <1>6 DEF StreamRecord
<1> HIDE DEF then
<1>8. \A s \in DOMAIN streams' : streams'[s] \in StreamRecord
  BY <1>3, <1>7 DEF IInv, OggInv, Stream
<1>9. len' \in Int
  <2>1. now(h).last \in Int /\ len \in Int
    BY <1>6, Paging DEF StreamRecord
  <2>2. len' = len + now(h).last \/ len' = len
    BY <1>3 DEF Longer
  <2> QED
    BY <2>1, <2>2
<1>10. /\ pc = "length" /\ ~AtEnd /\ page' = page + 1
       /\ UNCHANGED <<handle, buf, pc, packets, begin>>
  BY DEF CountPage
<1>11. page' \in 0 .. Len(file.pages) /\ frames \in Int
  BY <1>10, Paging DEF IInv, CommonInv
<1> QED
  BY <1>8, <1>9, <1>10, <1>11, Paging DEF Paged, handle, buf

LEMMA FreeStreamTyped ==
  ASSUME IInv, file.kind = "ogg", FreeStream
  PROVE  Paged
<1>1. PICK s \in DOMAIN streams :
        /\ len' = IF Stream(s).end THEN len ELSE Longer(len, Stream(s).last)
        /\ streams' = Restrict(streams, DOMAIN streams \ {s})
  BY DEF FreeStream
<1>2. Stream(s) \in StreamRecord
  BY DEF IInv, OggInv, Stream
<1>3. len' \in Int
  BY <1>1, <1>2, Paging DEF Longer, StreamRecord
<1>4. \A t \in DOMAIN streams' : streams'[t] \in StreamRecord
  BY <1>1 DEF IInv, OggInv, Restrict
<1> QED
  BY <1>3, <1>4, Paging DEF FreeStream, Paged, IInv, CommonInv, handle, buf

LEMMA PagesTyped ==
  ASSUME IInv, file.kind = "ogg",
         \/ ogg_stream_classify \/ ReadHeaders \/ StartLength
         \/ PassOver \/ EndOfLength \/ EndOfStreams
  PROVE  Paged
<1>1. /\ frames \in Int
      /\ \A s \in DOMAIN streams : streams[s] \in StreamRecord
  BY DEF IInv, CommonInv, OggInv
<1>2. CASE ogg_stream_classify
  BY <1>1, <1>2, Paging DEF ogg_stream_classify, Paged, handle, buf
<1>3. CASE ReadHeaders
  <2>1. ~AtEnd => Min({2, packets + Packets(Taken)}) \in 0 .. 2
    <3>1. packets \in 0 .. 2 /\ (~AtEnd => Taken.packets \in Nat)
      BY Paging DEF Pages
    <3> QED
      BY <3>1, LessOfTwo DEF Packets
  <2>2. /\ page' = page \/ (~AtEnd /\ page' = page + 1)
        /\ packets' \in 0 .. 2
    BY <1>3, <2>1, Paging DEF ReadHeaders
  <2> QED
    BY <1>1, <1>3, <2>2, Paging DEF ReadHeaders, Paged, handle, buf
<1>4. CASE StartLength
  BY <1>1, <1>4, Paging DEF StartLength, Paged, buf
<1>5. CASE PassOver
  BY <1>1, <1>5, Paging DEF PassOver, Paged, handle, buf
<1>6. CASE EndOfLength
  BY <1>1, <1>6, Paging DEF EndOfLength, Paged, handle, buf
<1>7. CASE EndOfStreams
  BY <1>1, <1>7, Paging DEF EndOfStreams, Paged, buf
<1> QED
  BY <1>2, <1>3, <1>4, <1>5, <1>6, <1>7

LEMMA ReadPageKeeps ==
  ASSUME IInv, ReadPage, UNCHANGED <<wav, flac>>
  PROVE  IInv'
<1> DEFINE decoded == Taken.whole /\ Own(Taken) /\ Taken.holds = "audio"
<1>1. /\ pc = "read" /\ file.kind = "ogg" /\ ~AtEnd /\ Len(ptr) < samples
      /\ page' = page + 1
      /\ UNCHANGED <<packets, begin, streams, len>>
  BY DEF ReadPage
<1>2. CommonInv /\ channels = file.channels /\ channels \in Nat \ {0}
  BY <1>1, FilesAssumption DEF IInv, PlaceInv, CommonInv
<1>3. Taken \in Pages /\ page' \in 0 .. Len(file.pages)
  BY <1>1, Paging
<1>4. Taken.first \in Nat /\ Taken.last \in Nat
  BY <1>3 DEF Pages
<1>5. PICK lost \in 0 .. (IF decoded /\ gap THEN Taken.last - Taken.first + 1 ELSE 0) :
        LET first == Taken.first + lost
            n == IF decoded THEN Limited(Taken.last - first + 1) ELSE 0
        IN  Deliver(SamplesOf(first, first + n - 1), "read")
  BY DEF ReadPage
<1> DEFINE first == Taken.first + lost
           n == IF decoded THEN Limited(Taken.last - first + 1) ELSE 0
           more == SamplesOf(first, first + n - 1)
<1>6. Deliver(more, "read")
  BY <1>5
<1>7. first \in Nat
  BY <1>4, <1>5
<1>8. more \in Seq(Value) /\ Len(ptr) + Len(more) <= samples
  <2>1. CASE decoded
    <3>1. Holds(file, Taken.first, Taken.last)
      BY <1>1, <1>3, <2>1, FilesAssumption, Paging DEF Own, Taken, IInv, CommonInv
    <3>2. first <= Taken.last + 1 /\ Taken.first <= first
      BY <1>4, <1>5, <3>1 DEF Holds
    <3>3. Holds(file, first, Taken.last)
      BY <1>4, <1>7, <3>1, <3>2 DEF Holds
    <3> DEFINE room == samples - Len(ptr)
               most == room \div channels
    <3>4. room \in Nat
      BY <1>2 DEF CommonInv
    <3>5. most \in Nat /\ most * channels <= room
      BY <1>2, <3>4, Quotient
    <3>6. n = Min({Taken.last - first + 1, most})
      BY <2>1 DEF Limited
    <3> HIDE DEF room, most, n
    <3>7. n \in Nat /\ n <= most /\ n <= Taken.last - first + 1
      BY <1>4, <1>7, <3>2, <3>5, <3>6, LessOfTwo
    <3> DEFINE end == first + n - 1
    <3>8. end \in Int /\ first <= end + 1 /\ end <= Taken.last /\ end - first + 1 = n
      BY <1>4, <1>7, <3>7
    <3> HIDE DEF first, end
    <3>9. SamplesOf(first, end) \in Seq(Value) /\ Len(SamplesOf(first, end)) = channels * n
      BY <1>2, <1>4, <1>7, <3>3, <3>8, SamplesTyped
    <3>10. n * channels <= most * channels /\ channels * n = n * channels
      BY <1>2, <3>5, <3>7, Monotone
    <3>11. Len(ptr) + channels * n <= samples
      <4>1. channels * n \in Int /\ channels * n <= room
        BY <1>2, <3>4, <3>5, <3>7, <3>10
      <4> QED
        BY <1>2, <4>1 DEF room, CommonInv
    <3> QED
      BY <3>9, <3>11 DEF end
  <2>2. CASE ~decoded
    <3>1. n = 0
      BY <2>2
    <3> HIDE DEF first
    <3>2. channels * ((first + n - 1) - first + 1) = 0
      BY <1>2, <1>7, <3>1
    <3>3. more = [k \in 1 .. 0 |-> channels * (first - 1) + k]
      BY <3>2 DEF SamplesOf
    <3>4. more = <<>>
      BY <3>3
    <3>5. <<>> \in Seq(Value) /\ Len(<<>>) = 0
      OBVIOUS
    <3>6. Len(ptr) \in Nat /\ samples \in Nat /\ Len(ptr) <= samples
      BY <1>2 DEF CommonInv
    <3> HIDE DEF more
    <3> QED
      BY <3>4, <3>5, <3>6
  <2> QED
    BY <2>1, <2>2
<1> HIDE DEF more
<1>9. /\ ptr' \in Seq(Value') /\ Len(ptr') = Len(ptr) + Len(more)
      /\ pc' = "read" /\ UNCHANGED <<file, channels, frames, samples>>
  BY <1>2, <1>6, <1>8, DeliverTyped
<1>10. CommonInv'
  BY <1>2, <1>8, <1>9 DEF CommonInv, Readers
<1>11. PlaceInv'
  BY <1>1, <1>2, <1>9 DEF PlaceInv
<1>12. WavInv'
  BY <1>9 DEF IInv, WavInv, wav, parser, IsChunk
<1>13. OggInv'
  BY <1>1, <1>3, <1>9 DEF IInv, OggInv
<1>14. FlacInv'
  BY <1>9 DEF IInv, FlacInv, flac, Value
<1> QED
  BY <1>10, <1>11, <1>12, <1>13, <1>14 DEF IInv

(* The reader stops without a change to its buffer.                        *)
LEMMA NothingDelivered ==
  ASSUME IInv, Deliver(<<>>, "loaded"), UNCHANGED <<wav, ogg, flac>>
  PROVE  IInv'
<1> DEFINE none == <<>>
<1>1. none \in Seq(Value) /\ Len(none) = 0
  OBVIOUS
<1>2. Deliver(none, "loaded")
  OBVIOUS
<1> HIDE DEF none
<1>3. /\ ptr' \in Seq(Value') /\ Len(ptr') = Len(ptr)
      /\ pc' = "loaded" /\ UNCHANGED <<file, channels, frames, samples>>
  <2>1. Len(ptr) \in Nat /\ CommonInv
    BY DEF IInv, CommonInv
  <2>2. /\ ptr' \in Seq(Value') /\ Len(ptr') = Len(ptr) + Len(none)
        /\ pc' = "loaded" /\ UNCHANGED <<file, channels, frames, samples>>
    BY <1>1, <1>2, <2>1, DeliverTyped
  <2> QED
    BY <1>1, <2>1, <2>2
<1>4. CommonInv'
  BY <1>3 DEF IInv, CommonInv, Readers
<1>5. PlaceInv'
  BY <1>3 DEF PlaceInv
<1>6. WavInv' /\ OggInv'
  BY <1>3 DEF IInv, WavInv, OggInv, wav, ogg, parser, IsChunk
<1>7. FlacInv'
  BY <1>3 DEF IInv, FlacInv, flac, Value
<1> QED
  BY <1>4, <1>5, <1>6, <1>7 DEF IInv

LEMMA ReadOggKeeps ==
  ASSUME IInv, ReadOgg, UNCHANGED <<wav, flac>>
  PROVE  IInv'
<1>1. CASE \/ ogg_stream_classify \/ ReadHeaders \/ StartLength \/ CountPage
           \/ PassOver \/ EndOfLength \/ FreeStream \/ EndOfStreams
  <2>1. pc \in {"classify", "headers", "length", "free"}
    BY <1>1 DEF ogg_stream_classify, ReadHeaders, StartLength, CountPage, PassOver, EndOfLength,
                FreeStream, EndOfStreams
  <2>2. file.kind = "ogg"
    BY <2>1 DEF IInv, PlaceInv
  <2>3. Paged
    BY <1>1, <2>2, PagesTyped, CountPageTyped, FreeStreamTyped
  <2> QED
    BY <2>1, <2>2, <2>3, PagedKeeps
<1>2. CASE ReadPage
  BY <1>2, ReadPageKeeps
<1>3. CASE EndOfPages
  BY <1>3, NothingDelivered DEF EndOfPages
<1> QED
  BY <1>1, <1>2, <1>3 DEF ReadOgg

-----------------------------------------------------------------------------
(* FLAC.                                                                   *)

LEMMA Decoding ==
  ASSUME IInv, file.kind = "flac"
  PROVE  /\ block \in 0 .. Len(file.blocks) /\ Len(file.blocks) \in Nat
         /\ left \in Seq(Value) /\ goal \in Nat /\ goal <= samples
         /\ samples \in Nat /\ ptr \in Seq(Value) /\ Len(ptr) \in Nat
  BY FilesAssumption DEF IInv, CommonInv, FlacInv

LEMMA FlacHeaderKeeps ==
  ASSUME IInv, flac_read_header, UNCHANGED <<wav, ogg>>
  PROVE  IInv'
<1>1. /\ pc = "metadata" /\ file.kind = "flac" /\ file.total \in Nat /\ frames \in Int
      /\ UNCHANGED <<file, samples, ptr, flac>>
  BY FilesAssumption DEF IInv, CommonInv, PlaceInv, flac_read_header, buf
<1>2. channels' \in {channels, file.channels} /\ frames' \in Int /\ pc' \in {"validate", "refused"}
  BY <1>1 DEF flac_read_header, Endless
<1>3. CommonInv'
  BY <1>1, <1>2 DEF IInv, CommonInv, Readers, Value
<1>4. PlaceInv'
  BY <1>1, <1>2 DEF IInv, PlaceInv
<1>5. WavInv'
  BY <1>1, <1>2 DEF IInv, WavInv, wav, parser, IsChunk
<1>6. OggInv' /\ FlacInv'
  BY <1>1, <1>2 DEF IInv, OggInv, FlacInv, ogg, flac, Value
<1> QED
  BY <1>3, <1>4, <1>5, <1>6 DEF IInv

LEMMA StartPieceKeeps ==
  ASSUME IInv, StartPiece, UNCHANGED <<wav, ogg>>
  PROVE  IInv'
<1> DEFINE room == Len(ptr) + Piece
<1>1. /\ pc = "read" /\ file.kind = "flac" /\ goal' = Min({room, samples}) /\ pc' = "rest"
      /\ UNCHANGED <<handle, buf, block, left, broken>>
  BY DEF StartPiece
<1>2. /\ room \in Nat /\ Len(ptr) <= room /\ samples \in Nat /\ Len(ptr) <= samples
      /\ Len(ptr) \in Nat
  BY <1>1, Decoding DEF IInv, CommonInv
<1> HIDE DEF room
<1>3. goal' \in Nat /\ Len(ptr) <= goal' /\ goal' <= samples
  BY <1>1, <1>2, LessOfTwo
<1>4. CommonInv'
  BY <1>1 DEF IInv, CommonInv, Readers, handle, buf, Value
<1>5. PlaceInv'
  BY <1>1 DEF IInv, PlaceInv, handle, buf
<1>6. WavInv' /\ OggInv'
  BY <1>1 DEF IInv, WavInv, OggInv, wav, ogg, parser, IsChunk, handle
<1>7. FlacInv'
  BY <1>1, <1>3 DEF IInv, FlacInv, handle, buf, Value
<1> QED
  BY <1>4, <1>5, <1>6, <1>7 DEF IInv

(* Samples are copied as far as the piece has room.                        *)
LEMMA CopyKeeps ==
  ASSUME IInv, pc \in {"rest", "piece"}, NEW s \in Seq(Value), flac_buffer_copy(s),
         block' \in 0 .. Len(file.blocks), goal' = goal, UNCHANGED <<wav, ogg>>
  PROVE  IInv'
<1> DEFINE more == SubSeq(s, 1, Copied(s))
<1>1. file.kind = "flac" /\ CommonInv /\ Len(ptr) <= goal /\ channels = file.channels
  BY DEF IInv, PlaceInv, FlacInv
<1>2. goal - Len(ptr) \in Nat /\ Len(s) \in Nat
  BY <1>1, Decoding
<1>3. Copied(s) \in 0 .. Len(s) /\ Copied(s) <= goal - Len(ptr)
  <2> DEFINE room == goal - Len(ptr)
             most == Len(s)
  <2>1. Copied(s) = Min({most, room})
    BY DEF Copied
  <2>2. most \in Nat /\ room \in Nat
    BY <1>2
  <2> HIDE DEF most, room
  <2>3. Copied(s) \in 0 .. most /\ Copied(s) <= room
    BY <2>1, <2>2, LessOfTwo
  <2> QED
    BY <2>3 DEF most, room
<1>4. /\ more \in Seq(Value) /\ Len(more) = Copied(s)
      /\ SubSeq(s, Copied(s) + 1, Len(s)) \in Seq(Value)
  BY <1>3, Divided
<1>5. Deliver(more, "piece") /\ left' = SubSeq(s, Copied(s) + 1, Len(s))
  BY DEF flac_buffer_copy, KeepRest
<1> HIDE DEF more
<1>6. /\ ptr' \in Seq(Value') /\ Len(ptr') = Len(ptr) + Len(more)
      /\ pc' = "piece" /\ UNCHANGED <<file, channels, frames, samples>>
  BY <1>1, <1>4, <1>5, DeliverTyped
<1>7. Len(ptr') <= goal /\ goal <= samples /\ Len(ptr') \in Nat /\ goal \in Nat
  BY <1>1, <1>2, <1>3, <1>4, <1>6, Decoding
<1>8. left' \in Seq(Value')
  BY <1>4, <1>5, <1>6 DEF Value
<1>9. CommonInv'
  BY <1>1, <1>6, <1>7 DEF CommonInv, Readers
<1>10. PlaceInv'
  BY <1>1, <1>6 DEF PlaceInv
<1>11. WavInv' /\ OggInv'
  BY <1>6 DEF IInv, WavInv, OggInv, wav, ogg, parser, IsChunk
<1>12. FlacInv'
  BY <1>6, <1>7, <1>8 DEF FlacInv
<1> QED
  BY <1>9, <1>10, <1>11, <1>12 DEF IInv

LEMMA DecodeBlockKeeps ==
  ASSUME IInv, DecodeBlock, UNCHANGED <<wav, ogg>>
  PROVE  IInv'
<1> DEFINE b == file.blocks[block + 1]
           s == SamplesOf(b.first, b.last)
           silent == [k \in DOMAIN s |-> Silence]
<1>1. /\ pc = "piece" /\ block < Len(file.blocks) /\ block' = block + 1 /\ goal' = goal
      /\ flac_buffer_copy(s) \/ flac_buffer_copy(silent) \/ flac_buffer_copy(<<>>)
  BY DEF DecodeBlock
<1>2. file.kind = "flac" /\ CommonInv /\ channels = file.channels
  BY <1>1 DEF IInv, PlaceInv
<1>3. block' \in 0 .. Len(file.blocks) /\ block + 1 \in 1 .. Len(file.blocks)
  BY <1>1, <1>2, Decoding
<1>4. b \in Blocks /\ Holds(file, b.first, b.last)
  BY <1>2, <1>3, FilesAssumption DEF CommonInv
<1>5. b.first \in Nat /\ b.last \in Nat /\ b.first <= b.last + 1 /\ b.last <= b.last
  BY <1>4 DEF Blocks, Holds
<1>6. s \in Seq(Value)
  BY <1>2, <1>4, <1>5, SamplesTyped
<1> HIDE DEF s
<1>7. silent \in Seq(Value)
  <2>1. DOMAIN s = 1 .. Len(s) /\ Len(s) \in Nat
    BY <1>6
  <2>2. silent \in [1 .. Len(s) -> Value]
    BY <2>1 DEF Value
  <2> QED
    BY <2>1, <2>2, Tabulated
<1>8. <<>> \in Seq(Value)
  OBVIOUS
<1> HIDE DEF silent
<1> QED
  BY <1>1, <1>3, <1>6, <1>7, <1>8, CopyKeeps

LEMMA EndOfPieceKeeps ==
  ASSUME IInv, EndOfPiece, UNCHANGED <<wav, ogg>>
  PROVE  IInv'
<1> DEFINE none == <<>>
           next == IF Len(ptr) < samples THEN "read" ELSE "loaded"
<1>1. /\ pc = "piece" /\ Deliver(none, next) /\ UNCHANGED flac
  BY DEF EndOfPiece
<1>2. none \in Seq(Value) /\ Len(none) = 0
  OBVIOUS
<1>3. file.kind = "flac" /\ CommonInv /\ channels = file.channels
  BY <1>1 DEF IInv, PlaceInv
<1>4. next \in {"read", "loaded"}
  OBVIOUS
<1> HIDE DEF none, next
<1>5. /\ ptr' \in Seq(Value') /\ Len(ptr') = Len(ptr) + Len(none)
      /\ pc' = next /\ UNCHANGED <<file, channels, frames, samples>>
  BY <1>1, <1>2, <1>3, DeliverTyped
<1>6. Len(ptr') = Len(ptr)
  BY <1>2, <1>3, <1>5, Decoding
<1>7. CommonInv'
  BY <1>3, <1>4, <1>5, <1>6 DEF CommonInv, Readers
<1>8. PlaceInv'
  BY <1>3, <1>4, <1>5 DEF PlaceInv
<1>9. WavInv' /\ OggInv'
  BY <1>5 DEF IInv, WavInv, OggInv, wav, ogg, parser, IsChunk
<1>10. FlacInv'
  BY <1>1, <1>4, <1>5 DEF IInv, FlacInv, flac, Value
<1> QED
  BY <1>7, <1>8, <1>9, <1>10 DEF IInv

LEMMA ReadFlacKeeps ==
  ASSUME IInv, ReadFlac, UNCHANGED <<wav, ogg>>
  PROVE  IInv'
<1>1. CASE flac_read_header
  BY <1>1, FlacHeaderKeeps
<1>2. CASE StartPiece
  BY <1>2, StartPieceKeeps
<1>3. CASE CopyRest
  <2>1. pc = "rest" /\ file.kind = "flac"
    BY <1>3 DEF IInv, PlaceInv, CopyRest
  <2>2. left \in Seq(Value) /\ flac_buffer_copy(left) /\ block' \in 0 .. Len(file.blocks) /\ goal' = goal
    BY <1>3, <2>1, Decoding DEF CopyRest
  <2> QED
    BY <2>1, <2>2, CopyKeeps
<1>4. CASE DecodeBlock
  BY <1>4, DecodeBlockKeeps
<1>5. CASE EndOfBlocks
  BY <1>5, NothingDelivered DEF EndOfBlocks
<1>6. CASE EndOfPiece
  BY <1>6, EndOfPieceKeeps
<1> QED
  BY <1>1, <1>2, <1>3, <1>4, <1>5, <1>6 DEF ReadFlac

-----------------------------------------------------------------------------
(* What the formats have in common, and the conclusions.                   *)

LEMMA InitHolds == InitLoad => IInv
<1> SUFFICES ASSUME InitLoad PROVE IInv
  OBVIOUS
<1>1. CommonInv
  BY DEF InitLoad, Init, CommonInv, Readers
<1>2. PlaceInv
  BY DEF InitLoad, Init, PlaceInv
<1>3. WavInv
  <2>1. /\ io = [fd |-> 12, index |-> 0, end |-> 12]
        /\ parsestage = {} /\ dataoffset = -1 /\ dataend = 0
        /\ list = [length |-> 0, bytesread |-> 0]
    BY Zenon DEF InitLoad, InitWav
  <2>2. IsChunk
    BY DEF InitLoad, InitWav, IsChunk
  <2>3. io \in Cache
    BY <2>1 DEF Cache
  <2> QED
    BY <2>1, <2>2, <2>3 DEF WavInv
<1>4. OggInv
  BY FilesAssumption DEF InitLoad, InitOgg, OggInv
<1>5. FlacInv
  BY FilesAssumption DEF InitLoad, Init, InitFlac, FlacInv
<1> QED
  BY <1>1, <1>2, <1>3, <1>4, <1>5 DEF IInv

LEMMA OpenKeeps ==
  ASSUME IInv, guess_file_type \/ validate_sfinfo \/ Create, UNCHANGED <<wav, ogg, flac>>
  PROVE  IInv'
<1>1. UNCHANGED <<file, channels, frames, ptr>> /\ Value' = Value
  BY DEF guess_file_type, validate_sfinfo, Create, handle, buf, Value
<1>2. WavInv' /\ OggInv'
  BY <1>1 DEF IInv, WavInv, OggInv, wav, ogg, parser, IsChunk
<1>3. /\ samples' \in Nat /\ pc \in {"guess", "validate", "create"} /\ samples = 0 /\ ptr = <<>>
      /\ pc' \in {"chunk", "classify", "metadata", "refused", "create", "loaded", "read"}
      /\ pc' \in {"create", "read"} => channels = file.channels
      /\ pc' = "create" => frames >= 0
      /\ pc' \notin {"read", "loaded"} => samples' = 0
      /\ pc' = "chunk" => file.kind = "wav"
      /\ pc' = "classify" => file.kind = "ogg"
      /\ pc' = "metadata" => file.kind = "flac"
  <2>1. CASE guess_file_type
    <3>1. file.kind \in {"wav", "ogg", "flac", "other"}
      BY FilesAssumption DEF IInv, CommonInv
    <3> QED
      BY <2>1, <3>1 DEF guess_file_type, IInv, CommonInv, PlaceInv, buf
  <2>2. CASE validate_sfinfo
    BY <2>2 DEF validate_sfinfo, IInv, CommonInv, PlaceInv, buf
  <2>3. CASE Create
    <3>1. channels \in Nat /\ frames \in Nat /\ pc = "create" /\ channels = file.channels
      BY <2>3, FilesAssumption DEF Create, IInv, CommonInv, PlaceInv
    <3>2. channels * frames \in Nat
      BY <3>1
    <3> QED
      BY <2>3, <3>1, <3>2 DEF Create, IInv, PlaceInv
  <2> QED
    BY <2>1, <2>2, <2>3
<1>4. CommonInv'
  BY <1>1, <1>3 DEF IInv, CommonInv, Readers
<1>5. PlaceInv'
  BY <1>1, <1>3 DEF PlaceInv
<1>6. FlacInv'
  BY <1>1, <1>3 DEF IInv, FlacInv, flac
<1> QED
  BY <1>2, <1>4, <1>5, <1>6 DEF IInv

LEMMA StepKeeps == IInv /\ [Load]_vars => IInv'
<1> SUFFICES ASSUME IInv, [Load]_vars PROVE IInv'
  OBVIOUS
<1>1. CASE (guess_file_type \/ validate_sfinfo \/ Create) /\ UNCHANGED <<wav, ogg, flac>>
  BY <1>1, OpenKeeps
<1>2. CASE ReadWav /\ UNCHANGED <<ogg, flac>>
  BY <1>2, ReadWavKeeps
<1>3. CASE ReadOgg /\ UNCHANGED <<wav, flac>>
  BY <1>3, ReadOggKeeps
<1>4. CASE ReadFlac /\ UNCHANGED <<wav, ogg>>
  BY <1>4, ReadFlacKeeps
<1>5. CASE UNCHANGED vars
  <2>1. CommonInv' /\ PlaceInv'
    BY <1>5 DEF IInv, CommonInv, PlaceInv, vars, Value
  <2>2. WavInv' /\ OggInv' /\ FlacInv'
    BY <1>5 DEF IInv, WavInv, OggInv, FlacInv, vars, wav, ogg, flac, parser, IsChunk, Value
  <2> QED
    BY <2>1, <2>2 DEF IInv
<1> QED
  BY <1>1, <1>2, <1>3, <1>4, <1>5 DEF Load

THEOREM Invariance == Spec => []IInv
  BY InitHolds, StepKeeps, PTL DEF Spec

(* Whatever a file claims its length to be, no format puts more samples    *)
(* into the program's buffer than it has room for: for files of any size   *)
(* and content.                                                            *)
THEOREM BufferIsNotExceeded == Spec => []WithinBuffer
<1>1. IInv => WithinBuffer
  BY DEF IInv, CommonInv, WithinBuffer
<1> QED
  BY <1>1, Invariance, PTL

(* For every file the loader keeps its types: in particular no read and no *)
(* jump, of whatever size, leaves the cache of the header, and the program *)
(* gets nothing but samples of the sound, silence or noise.                *)
THEOREM LoaderTypeCorrect == Spec => []TypeOK
<1>1. IInv => TypeOK
  <2> SUFFICES ASSUME IInv PROVE TypeOK
    OBVIOUS
  <2>1. file.kind \in {"wav", "ogg", "flac", "other"}
    BY FilesAssumption DEF IInv, CommonInv
  <2>2. \A k \in DOMAIN ptr : ptr[k] \in Value
    BY DEF IInv, CommonInv
  <2>3. 0 <= io.index /\ io.index <= io.end /\ io.end <= HeaderLen
    BY DEF IInv, WavInv, Cache
  <2>4. file.kind = "flac" => goal \in 0 .. samples
    BY DEF IInv, CommonInv, FlacInv
  <2> QED
    BY <2>1, <2>2, <2>3, <2>4
       DEF IInv, CommonInv, WavInv, OggInv, FlacInv, Readers, Value, TypeOK
<1> QED
  BY <1>1, Invariance, PTL
=============================================================================
