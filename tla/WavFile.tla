------------------------------ MODULE WavFile ------------------------------
(***************************************************************************)
(* WAV files, as other programs make them: chunks with an id and a size,   *)
(* a LIST chunk with items of its own.  Of the bytes of a file only those  *)
(* matter that a chunk begins with; what lies between is anything.         *)
(***************************************************************************)
EXTENDS Integers, Sequences, FiniteSets

(* A chunk of `body' bytes that says it has `said'.  Its body may begin    *)
(* with an id, its type, and chunks of its own, its items.                 *)
Chunk(id, body) ==
  [id |-> id, said |-> body, body |-> body, count |-> 0, type |-> "", items |-> <<>>]

Padded(n) == n + (n % 2)

(* Where each of the chunks starts, and where the last one ends.           *)
Starts(first, chunks) ==
  LET start[k \in 1 .. Len(chunks) + 1] ==
        IF k = 1 THEN first ELSE start[k - 1] + 8 + Padded(chunks[k - 1].body)
  IN  start

List(type, items) ==
  LET body == Starts(4, items)[Len(items) + 1]
  IN  [Chunk("LIST", body) EXCEPT !.type = type, !.items = items]

Cue(count) == [Chunk("cue", 4 + 24 * count) EXCEPT !.count = count]

Mark(at, id, size, count) == [at |-> at, id |-> id, size |-> size, count |-> count]

ChunkHeads(first, chunks) ==
  {Mark(Starts(first, chunks)[k], chunks[k].id, chunks[k].said, chunks[k].count) :
     k \in DOMAIN chunks}

(* Everything in the file that has an id.                                  *)
Heads(riff, chunks) ==
  LET inside(k) ==
        LET start == Starts(12, chunks)[k] + 8
        IN  IF chunks[k].type = "" THEN {}
            ELSE {Mark(start, chunks[k].type, 0, 0)} \cup ChunkHeads(start + 4, chunks[k].items)
  IN  {Mark(0, "RIFF", riff, 0), Mark(8, "WAVE", 0, 0)}
        \cup ChunkHeads(12, chunks) \cup UNION {inside(k) : k \in DOMAIN chunks}

(* What the reader is known to cope with: see its 512-byte buffer and the  *)
(* 20 cues it steps over.                                                  *)
Plain(chunk) ==
  /\ chunk.said = chunk.body
  /\ chunk.id # "RIFF"
  /\ chunk.type # "" => chunk.body = Starts(4, chunk.items)[Len(chunk.items) + 1]
  /\ chunk.id = "cue" => chunk.count <= 20 /\ chunk.body = 4 + 24 * chunk.count
  /\ chunk.id = "fmt" => chunk.body >= 16
  /\ \A k \in DOMAIN chunk.items :
       /\ chunk.items[k].said = chunk.items[k].body
       /\ Padded(chunk.items[k].body) < 512

(* One fmt chunk, and behind it one data chunk.                            *)
InOrderOfChunks(chunks) ==
  \E f, d \in DOMAIN chunks :
    /\ f < d
    /\ \A k \in DOMAIN chunks :
         (chunks[k].id = "fmt" <=> k = f) /\ (chunks[k].id = "data" <=> k = d)

DataOf(chunks) == CHOOSE k \in DOMAIN chunks : chunks[k].id = "data"

(* A file that says it has `riff' bytes behind the first eight, and that   *)
(* has lost the last `cut' of its bytes.  It is intact if all its sizes    *)
(* are right, or if it is as a writer leaves it that was killed before it  *)
(* could write them (wav_write_header without wav_close).                  *)
WavFile(width, channels, riff, chunks, cut) ==
  LET end == Starts(12, chunks)[Len(chunks) + 1]
      d == DataOf(chunks)
      frame == width * channels
      tidy == InOrderOfChunks(chunks) /\ \A k \in DOMAIN chunks \ {d} : Plain(chunks[k])
  IN  [kind |-> IF end - cut < 12 THEN "other" ELSE "wav", channels |-> channels, width |-> width,
       heads |-> Heads(riff, chunks),
       length |-> end - cut,
       first |-> Starts(12, chunks)[d] + 8,
       sound |-> channels * (chunks[d].body \div frame),
       intact |-> /\ tidy /\ channels < 1024 /\ chunks[d].type = ""
                  /\ \/ /\ riff = end - 8 /\ cut = 0
                        /\ chunks[d].said = chunks[d].body /\ chunks[d].body % frame = 0
                     \/ riff = 8 /\ chunks[d].said = 0 /\ d = Len(chunks) /\ cut = chunks[d].body % 2]
=============================================================================
