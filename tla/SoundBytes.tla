----------------------------- MODULE SoundBytes -----------------------------
(***************************************************************************)
(* The bytes of a sound file, and what a reader finds in them.             *)
(*                                                                         *)
(* A byte is <<"h", x>>, of a header that claims x frames (WAV),           *)
(* <<"p", from, to>>, the head of a page or frame with these samples, or   *)
(* <<"s", x>>, of sample x.  A WAV sample has two bytes; on a page one     *)
(* stands for each sample, and one for the head.                           *)
(***************************************************************************)
EXTENDS Integers, Sequences

Header(size, frames) == [k \in 1 .. size |-> <<"h", frames>>]

(* Samples from .. to - 1 as they are, and on a page of their own.         *)
Raw(from, to) == [k \in 1 .. 2 * (to - from) |-> <<"s", from + (k - 1) \div 2>>]
PageHead(from, to) == << <<"p", from, to>> >>
PageBody(from, to) == [k \in 1 .. to - from |-> <<"s", from + k - 1>>]

Is(kind, bs, k) == k \in 1 .. Len(bs) /\ bs[k][1] = kind

(* In a WAV file the samples begin where the header ends, and both bytes   *)
(* of a sample must be there.                                              *)
HeaderEnd(bs) == CHOOSE a \in 0 .. Len(bs) : (\A k \in 1 .. a : Is("h", bs, k)) /\ ~Is("h", bs, a + 1)

HeardRaw(bs) ==
  {k \in HeaderEnd(bs) + 2 .. Len(bs) :
     (k - HeaderEnd(bs)) % 2 = 0 /\ Is("s", bs, k) /\ bs[k - 1] = bs[k]}

(* A page counts if all of its bytes follow its head: its checksum is in   *)
(* the head.                                                               *)
PageSize(bs, k) == bs[k][3] - bs[k][2]

WholePage(bs, k) ==
  /\ Is("p", bs, k)
  /\ \A j \in 1 .. PageSize(bs, k) : Is("s", bs, k + j) /\ bs[k + j][2] = bs[k][2] + j - 1

HeardOnPages(bs) ==
  {n \in 1 .. Len(bs) : \E k \in 1 .. n - 1 : WholePage(bs, k) /\ n - k <= PageSize(bs, k)}

(* The samples of the bytes at the places in H.                            *)
SamplesAt(H, bs) ==
  LET upTo[n \in 0 .. Len(bs)] ==
        IF n = 0 THEN <<>>
        ELSE IF n \in H THEN Append(upTo[n - 1], bs[n][2]) ELSE upTo[n - 1]
  IN  upTo[Len(bs)]

Heard(form, bs) == SamplesAt(IF form = "wav" THEN HeardRaw(bs) ELSE HeardOnPages(bs), bs)
=============================================================================
