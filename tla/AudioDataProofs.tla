--------------------------- MODULE AudioDataProofs ---------------------------
(***************************************************************************)
(* The growable buffer, for any number of Audio objects, any memory, any   *)
(* chunk size and any speeds: sizes and positions agree, every block has   *)
(* exactly one owner, unwritten memory gets into a list in two ways only,  *)
(* and every Audio is a list of its own.                                   *)
(***************************************************************************)
EXTENDS AudioData, NatFacts, SequenceTheorems, TLAPS

(* The memory each object points to, and the samples it has.               *)
Held == [o \in Object |-> Cells(o)]

Content == [o \in Object |-> [k \in 1 .. pos[o] |-> Held[o][k]]]

-----------------------------------------------------------------------------
(* The inductive invariant.                                                *)

(* Ownership for all objects at all times, the parked newbuf included.     *)
OneOwner ==
  /\ \A o \in Object : samples[o] \in live \cup {Null}
  /\ \A o, q \in Object : o # q /\ samples[o] = samples[q] => samples[o] = Null
  /\ \A b \in live : \E o \in Object : samples[o] = b

Parked ==
  /\ ~Changing => samples[newbuf] = Null
  /\ pc = "exited" => \A o \in Object : samples[o] = Null

HeapOK ==
  /\ live \subseteq Block
  /\ cell \in [Block -> Seq(Cell)]
  /\ samples \in [Object -> Block \cup {Null}]
  /\ samplesize \in [Object -> Nat]
  /\ pos \in [Object -> Nat]
  /\ \A o \in Object : samplesize[o] = Len(Held[o]) /\ pos[o] <= samplesize[o]
  /\ OneOwner

OperationOK ==
  /\ pc \in Phase
  /\ self \in Holder \cup {Null}
  /\ pc \notin {"idle", "exited"} => self \in Holder
  /\ want \in Nat
  /\ rate \in Speed
  /\ oidx \in Nat

(* The speed is one that was asked for, as far as the clamp allows.        *)
Asked(e) == \E d \in Rates : e = Clamped(d)

(* The size that the operation in progress has asked for is the size of    *)
(* the buffer it is about to fill.                                         *)
SizeKnown ==
  /\ pc \in {"open", "create", "read"} => pos[self] = 0
  /\ pc = "read" => samplesize[self] = want
  /\ pc \in {"copy", "shift"} => want = pos[self]
  /\ pc = "shift" => samplesize[newbuf] = want
  /\ pc \in {"stretch", "left", "right"} =>
       /\ Asked(rate)
       /\ rate[1] > 0
       /\ want = NewCount(pos[self], rate)

(* Where the loop is in the old list: at the frame whose left sample was   *)
(* added last, or not yet past the one that comes next.                    *)
SourceKnown ==
  /\ pc = "stretch" => oidx = 0
  /\ pc = "left" => /\ pos[newbuf] % 2 = 0
                    /\ oidx % 2 = 0
                    /\ oidx <= SourceOf(pos[newbuf], rate) + 1
                    /\ pos[newbuf] <= want
  /\ pc = "right" => /\ pos[newbuf] % 2 = 1
                     /\ pos[newbuf] < want
                     /\ oidx = FrameOf((pos[newbuf] - 1) \div 2, rate)

(* What newbuf holds is the old list at the positions of Origin, where     *)
(* there is a sample.                                                      *)
Copied ==
  pc \in {"left", "right"} =>
    \A p \in 1 .. pos[newbuf] :
      Origin(p, rate) <= pos[self] => Held[newbuf][p] = Held[self][Origin(p, rate)]

Replacement ==
  pc = "swap" =>
    \/ Asked(rate) /\ rate[1] > 0 /\ ResampledBy(Content[newbuf], Content[self], rate)
    \/ /\ pos[newbuf] = pos[self]
       /\ \A k \in 1 .. pos[newbuf] : Held[newbuf][k] \in Value

IInv ==
  HeapOK /\ Parked /\ OperationOK /\ SizeKnown /\ SourceKnown /\ Copied /\ Replacement

-----------------------------------------------------------------------------
(* The members of AudioData.                                               *)

(* What the other objects hold is not touched.                             *)
OthersKept(o) ==
  \A q \in Object \ {o} :
    /\ samples'[q] = samples[q]
    /\ Held'[q] = Held[q]
    /\ samplesize'[q] = samplesize[q]
    /\ pos'[q] = pos[q]

LEMMA Tabulated ==
  ASSUME NEW S, NEW n \in Nat, NEW f, DOMAIN f = 1 .. n, \A k \in 1 .. n : f[k] \in S,
         f = [k \in 1 .. n |-> f[k]]
  PROVE  f \in Seq(S) /\ Len(f) = n
<1>1. f \in [1 .. n -> S]
  OBVIOUS
<1>2. f \in Seq(S)
  BY <1>1, SeqDef
<1> QED
  BY <1>2, LenProperties

(* An object is pointed to a block that no other object owns.              *)
LEMMA Repointed ==
  ASSUME HeapOK, NEW o \in Object,
         NEW b \in (Block \ LiveWithout(o)) \cup {Null},
         NEW content \in Seq(Cell), b = Null => content = <<>>,
         Repoint(o, b, content)
  PROVE  /\ live' \subseteq Block
         /\ cell' \in [Block -> Seq(Cell)]
         /\ samples' \in [Object -> Block \cup {Null}]
         /\ OneOwner'
         /\ samples'[o] = b
         /\ Held'[o] = content
         /\ \A q \in Object \ {o} : samples'[q] = samples[q] /\ Held'[q] = Held[q]
<1>1. /\ live \subseteq Block /\ samples \in [Object -> Block \cup {Null}]
      /\ cell \in [Block -> Seq(Cell)]
      /\ \A q \in Object : samples[q] \in live \cup {Null}
      /\ \A p, q \in Object : p # q /\ samples[p] = samples[q] => samples[p] = Null
      /\ \A c \in live : \E q \in Object : samples[q] = c
  BY DEF HeapOK, OneOwner
<1>2. /\ live' = (live \ {samples[o]}) \cup ({b} \ {Null})
      /\ b \in (Block \ (live \ {samples[o]})) \cup {Null}
      /\ samples' = [samples EXCEPT ![o] = b]
  BY DEF Repoint, LiveWithout
<1>3. cell' = [c \in Block |-> IF c = b THEN content
                               ELSE IF c \in live \ {samples[o]} THEN cell[c] ELSE <<>>]
  BY DEF Repoint, LiveWithout
<1>4. live' \subseteq Block /\ samples' \in [Object -> Block \cup {Null}]
  BY <1>1, <1>2
<1>5. cell' \in [Block -> Seq(Cell)]
  BY <1>1, <1>3, EmptySeq
<1>6. samples'[o] = b /\ \A q \in Object \ {o} : samples'[q] = samples[q]
  BY <1>1, <1>2
<1>7. Held'[o] = content
  BY <1>2, <1>3, <1>6 DEF Held, Cells
<1>8. ASSUME NEW q \in Object \ {o} PROVE Held'[q] = Held[q]
  <2>1. CASE samples[q] = Null
    BY <1>6, <2>1 DEF Held, Cells
  <2>2. CASE samples[q] # Null
    <3>1. samples[q] \in live \ {samples[o]} /\ samples[q] # b /\ samples[q] \in Block
      BY <1>1, <1>2, <2>2
    <3> QED
      BY <1>3, <1>6, <3>1 DEF Held, Cells
  <2> QED
    BY <2>1, <2>2
<1>9. OneOwner'
  <2>1. \A q \in Object : samples'[q] \in live' \cup {Null}
    BY <1>1, <1>2, <1>6
  <2>2. \A p, q \in Object : p # q /\ samples'[p] = samples'[q] => samples'[p] = Null
    BY <1>1, <1>2, <1>6
  <2>3. \A c \in live' : \E q \in Object : samples'[q] = c
    BY <1>1, <1>2, <1>6
  <2> QED
    BY <2>1, <2>2, <2>3 DEF OneOwner
<1> QED
  BY <1>4, <1>5, <1>6, <1>7, <1>8, <1>9

LEMMA GarbageIsContent ==
  ASSUME NEW n \in Nat
  PROVE  /\ Garbage(n) \in Seq(Cell)
         /\ Len(Garbage(n)) = n
         /\ n = 0 => Garbage(n) = <<>>
<1>1. Garbage(n) \in Seq(Cell) /\ Len(Garbage(n)) = n
  BY Tabulated DEF Garbage, Cell
<1> QED
  BY <1>1, EmptySeq

(* Create(size): a new, empty list of that capacity.                       *)
LEMMA CreateKeeps ==
  ASSUME HeapOK, NEW o \in Object, NEW size \in Nat, Create(o, size)
  PROVE  HeapOK' /\ pos'[o] = 0 /\ samplesize'[o] = size /\ OthersKept(o)
<1>1. PICK b \in Malloc(o, size) :
        /\ Repoint(o, b, Garbage(size))
        /\ samplesize' = [samplesize EXCEPT ![o] = size]
        /\ pos' = [pos EXCEPT ![o] = 0]
  BY DEF Create
<1>2. b \in (Block \ LiveWithout(o)) \cup {Null} /\ (b = Null => size = 0)
  BY NullAssumption DEF Malloc
<1> DEFINE g == Garbage(size)
<1>3. g \in Seq(Cell) /\ Len(g) = size /\ (b = Null => g = <<>>)
  BY <1>2, GarbageIsContent
<1> HIDE DEF g
<1>4. Repoint(o, b, g)
  BY <1>1 DEF g
<1>5. /\ live' \subseteq Block
      /\ cell' \in [Block -> Seq(Cell)]
      /\ samples' \in [Object -> Block \cup {Null}]
      /\ OneOwner'
      /\ Held'[o] = g
      /\ \A q \in Object \ {o} : samples'[q] = samples[q] /\ Held'[q] = Held[q]
  BY <1>2, <1>3, <1>4, Repointed
<1>6. /\ samplesize \in [Object -> Nat] /\ pos \in [Object -> Nat]
      /\ \A q \in Object : samplesize[q] = Len(Held[q]) /\ pos[q] <= samplesize[q]
  BY DEF HeapOK
<1>7. /\ samplesize' \in [Object -> Nat] /\ pos' \in [Object -> Nat]
      /\ samplesize'[o] = size /\ pos'[o] = 0
      /\ \A q \in Object \ {o} : samplesize'[q] = samplesize[q] /\ pos'[q] = pos[q]
  BY <1>1, <1>6
<1>8. \A q \in Object : samplesize'[q] = Len(Held'[q]) /\ pos'[q] <= samplesize'[q]
  <2>1. samplesize'[o] = Len(Held'[o]) /\ pos'[o] <= samplesize'[o]
    BY <1>3, <1>5, <1>7
  <2>2. \A q \in Object \ {o} : samplesize'[q] = Len(Held'[q]) /\ pos'[q] <= samplesize'[q]
    BY <1>5, <1>6, <1>7
  <2> QED
    BY <2>1, <2>2
<1> QED
  BY <1>5, <1>7, <1>8 DEF HeapOK, OthersKept

(* Add(v): the list is one longer, in place or in a larger block.          *)
LEMMA AddKeeps ==
  ASSUME HeapOK, NEW o \in Object, NEW v \in Cell, Add(o, v)
  PROVE  /\ HeapOK'
         /\ pos'[o] = pos[o] + 1
         /\ Held'[o][pos[o] + 1] = v
         /\ \A k \in 1 .. pos[o] : Held'[o][k] = Held[o][k]
         /\ OthersKept(o)
<1> DEFINE size == IF Full(o) THEN samplesize[o] + CHUNKSIZE ELSE samplesize[o]
           old == Held[o]
           new == [k \in 1 .. size |-> IF k = pos[o] + 1 THEN v
                                       ELSE IF k <= Len(old) THEN old[k] ELSE Junk]
<1>1. PICK b \in IF Full(o) THEN Malloc(o, size) ELSE {samples[o]} :
        /\ Repoint(o, b, new)
        /\ samplesize' = [samplesize EXCEPT ![o] = size]
        /\ pos' = [pos EXCEPT ![o] = pos[o] + 1]
  BY DEF Add, Held
<1>2. /\ samplesize \in [Object -> Nat] /\ pos \in [Object -> Nat]
      /\ \A q \in Object : samplesize[q] = Len(Held[q]) /\ pos[q] <= samplesize[q]
  BY DEF HeapOK, Held
<1>3. old \in Seq(Cell) /\ Len(old) = samplesize[o]
  BY <1>2, EmptySeq DEF HeapOK, Held, Cells
<1>4. size \in Nat /\ pos[o] + 1 <= size /\ pos[o] \in Nat
  BY <1>2, ChunkAssumption DEF Full
<1>5. new \in Seq(Cell) /\ Len(new) = size
  <2> HIDE DEF size
  <2>1. \A k \in 1 .. size : new[k] \in Cell
    <3>1. \A k \in 1 .. Len(old) : old[k] \in Cell
      BY <1>3, ElementOfSeq
    <3> QED
      BY <1>3, <3>1 DEF Cell
  <2> QED
    BY <1>4, <2>1, Tabulated
<1>6. /\ \A k \in 1 .. pos[o] : new[k] = old[k]
      /\ new[pos[o] + 1] = v
  BY <1>2, <1>3, <1>4
<1>7. b \in (Block \ LiveWithout(o)) \cup {Null} /\ b # Null
  <2>1. CASE Full(o)
    BY <1>1, <1>4, <2>1, NullAssumption DEF Malloc
  <2>2. CASE ~Full(o)
    <3>1. Len(Held[o]) > 0
      BY <1>2, <2>2 DEF Full
    <3>2. samples[o] # Null
      BY <3>1, EmptySeq DEF Held, Cells
    <3> QED
      BY <1>1, <2>2, <3>2 DEF HeapOK, LiveWithout
  <2> QED
    BY <2>1, <2>2
<1> HIDE DEF size, old, new
<1>8. /\ live' \subseteq Block
      /\ cell' \in [Block -> Seq(Cell)]
      /\ samples' \in [Object -> Block \cup {Null}]
      /\ OneOwner'
      /\ Held'[o] = new
      /\ \A q \in Object \ {o} : samples'[q] = samples[q] /\ Held'[q] = Held[q]
  BY <1>1, <1>5, <1>7, Repointed
<1>9. /\ samplesize' \in [Object -> Nat] /\ pos' \in [Object -> Nat]
      /\ samplesize'[o] = size /\ pos'[o] = pos[o] + 1
      /\ \A q \in Object \ {o} : samplesize'[q] = samplesize[q] /\ pos'[q] = pos[q]
  BY <1>1, <1>2, <1>4
<1>10. \A q \in Object : samplesize'[q] = Len(Held'[q]) /\ pos'[q] <= samplesize'[q]
  <2>1. samplesize'[o] = Len(Held'[o]) /\ pos'[o] <= samplesize'[o]
    BY <1>4, <1>5, <1>8, <1>9
  <2>2. \A q \in Object \ {o} : samplesize'[q] = Len(Held'[q]) /\ pos'[q] <= samplesize'[q]
    BY <1>2, <1>8, <1>9
  <2> QED
    BY <2>1, <2>2
<1> QED
  BY <1>6, <1>8, <1>9, <1>10 DEF HeapOK, OthersKept, old

(* SetSampleCount(n) within the buffer, whose first elements are written.  *)
LEMMA FillKeeps ==
  ASSUME HeapOK, NEW o \in Object, NEW n \in Nat, n <= samplesize[o],
         NEW S \in SUBSET Cell, NEW m \in Nat, NEW f \in [1 .. m -> S], Fill(o, n, f)
  PROVE  /\ HeapOK'
         /\ pos'[o] = n
         /\ \A k \in 1 .. n : k <= m => Held'[o][k] \in S
         /\ OthersKept(o)
<1> DEFINE old == Held[o]
           new == [k \in 1 .. Len(old) |-> IF k <= m THEN f[k] ELSE old[k]]
<1>1. /\ samplesize \in [Object -> Nat] /\ pos \in [Object -> Nat]
      /\ \A q \in Object : samplesize[q] = Len(Held[q]) /\ pos[q] <= samplesize[q]
  BY DEF HeapOK, Held
<1>2. old \in Seq(Cell) /\ Len(old) = samplesize[o] /\ DOMAIN old = 1 .. Len(old)
      /\ Len(old) \in Nat
  BY <1>1, EmptySeq, LenProperties DEF HeapOK, Held, Cells
<1>3. f \in Seq(S) /\ Len(f) = m
  BY Tabulated
<1>4. /\ Repoint(o, samples[o], new)
      /\ samplesize' = samplesize
      /\ pos' = [pos EXCEPT ![o] = n]
  <2>1. new = [k \in DOMAIN Cells(o) |-> IF k <= Len(f) THEN f[k] ELSE Cells(o)[k]]
    BY <1>2, <1>3 DEF Held
  <2> HIDE DEF new
  <2> QED
    BY <2>1 DEF Fill
<1>5. new \in Seq(Cell) /\ Len(new) = Len(old)
  <2>1. \A k \in 1 .. Len(old) : new[k] \in Cell
    <3>1. \A k \in 1 .. Len(old) : old[k] \in Cell
      BY <1>2, ElementOfSeq
    <3> QED
      BY <3>1
  <2> HIDE DEF old
  <2> QED
    BY <1>2, <2>1, Tabulated
<1>6. \A k \in 1 .. n : k <= m => new[k] \in S
  BY <1>1, <1>2
<1>7. samples[o] \in (Block \ LiveWithout(o)) \cup {Null}
  BY DEF HeapOK, LiveWithout
<1>8. samples[o] = Null => new = <<>>
  <2>1. samples[o] = Null => old = <<>> /\ Len(old) = 0
    BY EmptySeq DEF Held, Cells
  <2> HIDE DEF old
  <2> QED
    BY <1>5, <2>1, EmptySeq
<1> HIDE DEF old, new
<1>9. PICK b \in (Block \ LiveWithout(o)) \cup {Null} : b = samples[o]
  BY <1>7
<1>10. /\ live' \subseteq Block
       /\ cell' \in [Block -> Seq(Cell)]
       /\ samples' \in [Object -> Block \cup {Null}]
       /\ OneOwner'
       /\ Held'[o] = new
       /\ \A q \in Object \ {o} : samples'[q] = samples[q] /\ Held'[q] = Held[q]
  BY <1>4, <1>5, <1>8, <1>9, Repointed
<1>11. /\ samplesize' \in [Object -> Nat] /\ pos' \in [Object -> Nat]
       /\ samplesize'[o] = samplesize[o] /\ pos'[o] = n
       /\ \A q \in Object \ {o} : samplesize'[q] = samplesize[q] /\ pos'[q] = pos[q]
  BY <1>1, <1>4
<1>12. \A q \in Object : samplesize'[q] = Len(Held'[q]) /\ pos'[q] <= samplesize'[q]
  <2>1. samplesize'[o] = Len(Held'[o]) /\ pos'[o] <= samplesize'[o]
    BY <1>2, <1>5, <1>10, <1>11
  <2>2. \A q \in Object \ {o} : samplesize'[q] = Len(Held'[q]) /\ pos'[q] <= samplesize'[q]
    BY <1>1, <1>10, <1>11
  <2> QED
    BY <2>1, <2>2
<1> QED
  BY <1>6, <1>10, <1>11, <1>12 DEF HeapOK, OthersKept

(* The lists of the objects that are kept, and of one that is emptied.     *)
LEMMA ContentKept ==
  ASSUME NEW o \in Object, OthersKept(o)
  PROVE  \A q \in Object \ {o} : Content'[q] = Content[q]
<1> SUFFICES ASSUME NEW q \in Object \ {o} PROVE Content'[q] = Content[q]
  OBVIOUS
<1>1. Held'[q] = Held[q] /\ pos'[q] = pos[q]
  BY DEF OthersKept
<1>2. Content'[q] = [k \in 1 .. pos'[q] |-> Held'[q][k]]
  BY DEF Content
<1>3. Content[q] = [k \in 1 .. pos[q] |-> Held[q][k]]
  BY DEF Content
<1> QED
  BY <1>1, <1>2, <1>3

LEMMA EmptyContent ==
  ASSUME NEW o \in Object
  PROVE  /\ pos[o] = 0 => Content[o] = <<>>
         /\ pos'[o] = 0 => Content'[o] = <<>>
<1>1. /\ Content[o] = [k \in 1 .. pos[o] |-> Held[o][k]]
      /\ Content'[o] = [k \in 1 .. pos'[o] |-> Held'[o][k]]
  BY DEF Content
<1>2. \A f : [k \in 1 .. 0 |-> f[k]] = <<>>
  OBVIOUS
<1> QED
  BY <1>1, <1>2

LEMMA ContentIsList ==
  ASSUME HeapOK, NEW o \in Object
  PROVE  /\ Content[o] \in Seq(Cell)
         /\ Len(Content[o]) = pos[o]
         /\ \A k \in 1 .. pos[o] : Content[o][k] = Held[o][k]
<1>1. /\ pos[o] \in Nat /\ Len(Held[o]) \in Nat /\ pos[o] <= Len(Held[o])
      /\ Held[o] \in Seq(Cell)
  BY EmptySeq DEF HeapOK, Held, Cells
<1>2. \A k \in 1 .. pos[o] : Held[o][k] \in Cell
  BY <1>1, ElementOfSeq
<1>3. Content[o] = [k \in 1 .. pos[o] |-> Held[o][k]]
  BY DEF Content
<1> QED
  BY <1>1, <1>2, <1>3, Tabulated

LEMMA NextContentIsList ==
  ASSUME HeapOK', NEW o \in Object
  PROVE  /\ Content'[o] \in Seq(Cell)
         /\ Len(Content'[o]) = pos'[o]
         /\ \A k \in 1 .. pos'[o] : Content'[o][k] = Held'[o][k]
<1>1. /\ pos'[o] \in Nat /\ Len(Held'[o]) \in Nat /\ pos'[o] <= Len(Held'[o])
      /\ Held'[o] \in Seq(Cell)
  BY EmptySeq DEF HeapOK, Held, Cells
<1>2. \A k \in 1 .. pos'[o] : Held'[o][k] \in Cell
  BY <1>1, ElementOfSeq
<1>3. Content'[o] = [k \in 1 .. pos'[o] |-> Held'[o][k]]
  BY DEF Content
<1> QED
  BY <1>1, <1>2, <1>3, Tabulated

-----------------------------------------------------------------------------
(* The operations on one Audio.                                            *)

OnlyOf(h) == \A g \in Holder \ {h} : Content'[g] = Content[g]

(* A step on one Audio outside ChangeRate and ChangePitch leaves newbuf as *)
(* it is, parked.                                                          *)
LEMMA HolderStep ==
  ASSUME IInv, NEW h \in Holder, HeapOK', OthersKept(h), OperationOK', SizeKnown',
         pc \in {"idle", "open", "read", "create"},
         pc' \in {"idle", "open", "read", "create"}
  PROVE  IInv' /\ OnlyOf(h)
<1>1. h \in Object /\ newbuf \in Object \ {h} /\ Holder \subseteq Object
  BY NewbufAssumption DEF Object
<1>2. samples'[newbuf] = Null
  BY <1>1 DEF IInv, Parked, Changing, OthersKept
<1>3. Parked' /\ SourceKnown' /\ Copied' /\ Replacement'
  BY <1>2 DEF Parked, Changing, SourceKnown, Copied, Replacement
<1>4. OnlyOf(h)
  BY <1>1, ContentKept DEF OnlyOf
<1> QED
  BY <1>3, <1>4 DEF IInv

(* The operations that begin or end with an empty list.                    *)
LEMMA EmptyingStep ==
  ASSUME IInv, NEW h \in Holder, NEW size \in Nat, Create(h, size), OperationOK',
         pc \in {"idle", "open", "create"},
         pc' \in {"idle", "open", "read", "create"},
         pc' # "idle" => self' = h,
         pc' = "read" => want' = size
  PROVE  IInv' /\ OnlyOf(h) /\ Content'[h] = <<>>
<1>1. h \in Object
  BY DEF Object
<1>2. HeapOK' /\ pos'[h] = 0 /\ samplesize'[h] = size /\ OthersKept(h)
  BY <1>1, CreateKeeps DEF IInv
<1>3. SizeKnown'
  BY <1>2 DEF SizeKnown
<1>4. Content'[h] = <<>>
  BY <1>1, <1>2, EmptyContent
<1> QED
  BY <1>2, <1>3, <1>4, HolderStep

LEMMA SpeedOne == <<1, 1>> \in Speed
BY DEF Speed

LEMMA ReleaseStep ==
  ASSUME IInv, NEW h \in Holder, Release(h)
  PROVE  IInv' /\ OnlyOf(h) /\ Content'[h] = <<>>
<1>1. OperationOK'
  BY DEF Release, opVars, IInv, OperationOK
<1> QED
  BY <1>1, EmptyingStep, ChunkAssumption DEF Release

LEMMA LoadFileStep ==
  ASSUME IInv, NEW h \in Holder, LoadFile(h)
  PROVE  IInv' /\ OnlyOf(h) /\ Content'[h] = <<>>
<1>1. OperationOK'
  BY DEF LoadFile, IInv, OperationOK, Phase
<1> QED
  BY <1>1, EmptyingStep, ChunkAssumption DEF LoadFile

LEMMA CreateAudioStep ==
  ASSUME IInv, NEW h \in Holder, CreateAudio(h)
  PROVE  IInv' /\ OnlyOf(h) /\ Content'[h] = <<>>
<1>1. OperationOK'
  BY DEF CreateAudio, IInv, OperationOK, Phase
<1> QED
  BY <1>1, EmptyingStep, ChunkAssumption DEF CreateAudio

LEMMA OpenedStep ==
  ASSUME IInv, NEW n \in 0 .. MaxCount, Opened(n)
  PROVE  IInv' /\ self \in Holder /\ OnlyOf(self) /\ Content'[self] = <<>>
<1>1. self \in Holder /\ n \in Nat
  BY MaxCountAssumption DEF Opened, IInv, OperationOK
<1>2. OperationOK'
  BY <1>1 DEF Opened, IInv, OperationOK, Phase
<1>3. PICK h \in Holder : h = self
  BY <1>1
<1>4. Create(h, n) /\ self' = h
  BY <1>3 DEF Opened
<1>5. IInv' /\ OnlyOf(h) /\ Content'[h] = <<>>
  BY <1>1, <1>2, <1>4, EmptyingStep DEF Opened
<1> QED
  BY <1>3, <1>5

LEMMA CreateBufferStep ==
  ASSUME IInv, NEW n \in 0 .. MaxCount, CreateBuffer(n)
  PROVE  IInv' /\ self \in Holder /\ OnlyOf(self) /\ Content'[self] = <<>>
<1>1. self \in Holder /\ n \in Nat
  BY MaxCountAssumption DEF CreateBuffer, IInv, OperationOK
<1>2. OperationOK'
  BY <1>1, SpeedOne DEF CreateBuffer, Returned, IInv, OperationOK, Phase
<1>3. PICK h \in Holder : h = self
  BY <1>1
<1>4. Create(h, n)
  BY <1>3 DEF CreateBuffer
<1>5. IInv' /\ OnlyOf(h) /\ Content'[h] = <<>>
  BY <1>1, <1>2, <1>4, EmptyingStep DEF CreateBuffer
<1> QED
  BY <1>3, <1>5

LEMMA OpenFailsStep ==
  ASSUME IInv, OpenFails
  PROVE  IInv' /\ Content' = Content
<1>1. UNCHANGED <<live, cell, samples, samplesize, pos>>
  BY DEF OpenFails, heapVars, objVars
<1>2. Held' = Held /\ Content' = Content
  BY <1>1 DEF Held, Cells, Content
<1>3. HeapOK'
  BY <1>1, <1>2 DEF IInv, HeapOK, OneOwner
<1>4. OperationOK'
  BY SpeedOne DEF OpenFails, Returned, IInv, OperationOK, Phase
<1>5. samples'[newbuf] = Null
  BY <1>1 DEF OpenFails, IInv, Parked, Changing
<1>6. Parked' /\ SizeKnown' /\ SourceKnown' /\ Copied' /\ Replacement'
  BY <1>5 DEF OpenFails, Parked, Changing, SizeKnown, SourceKnown, Copied, Replacement
<1> QED
  BY <1>2, <1>3, <1>4, <1>6 DEF IInv

(* The list that is read into is empty, its buffer as long as the header   *)
(* said.                                                                   *)
LEMMA ReadFileStep ==
  ASSUME IInv, ReadFile
  PROVE  IInv' /\ \E h \in Holder : /\ h = self
                                    /\ OnlyOf(h)
                                    /\ Content[h] = <<>>
                                    /\ Content'[h] \in Seq(Cell)
<1>1. pc = "read" /\ pc' = "idle" /\ self \in Holder
  BY DEF ReadFile, IInv, OperationOK
<1>2. PICK h \in Holder : h = self
  BY <1>1
<1>3. h \in Object /\ pos[h] = 0 /\ samplesize[h] = want /\ want \in Nat
  BY <1>1, <1>2 DEF Object, IInv, SizeKnown, OperationOK
<1>4. PICK got \in 0 .. want : \E f \in [1 .. got -> Value] : Fill(self, want, f)
  BY DEF ReadFile
<1>5. PICK f \in [1 .. got -> Value] : Fill(h, want, f)
  BY <1>2, <1>4
<1>6. Value \in SUBSET Cell /\ got \in Nat /\ want <= samplesize[h] /\ HeapOK
  BY <1>3 DEF Cell, IInv
<1>7. PICK n \in Nat : n = want
  BY <1>3
<1>8. n <= samplesize[h] /\ Fill(h, n, f)
  BY <1>5, <1>6, <1>7
<1>9. HeapOK' /\ OthersKept(h)
  BY <1>3, <1>6, <1>8, FillKeeps
<1>10. OperationOK'
  BY SpeedOne DEF ReadFile, Returned, IInv, OperationOK, Phase
<1>11. SizeKnown'
  BY <1>1 DEF SizeKnown
<1>12. IInv' /\ OnlyOf(h)
  BY <1>1, <1>9, <1>10, <1>11, HolderStep
<1>13. Content[h] = <<>>
  BY <1>3, EmptyContent
<1>14. Content'[h] \in Seq(Cell)
  BY <1>3, <1>9, NextContentIsList
<1> QED
  BY <1>2, <1>12, <1>13, <1>14

(* A list that is one element longer than another.                         *)
LEMMA ListIsAppend ==
  ASSUME NEW s \in Seq(Cell), NEW t \in Seq(Cell), NEW v \in Cell,
         Len(t) = Len(s) + 1, t[Len(s) + 1] = v,
         \A k \in 1 .. Len(s) : t[k] = s[k]
  PROVE  t = Append(s, v)
<1>1. /\ Append(s, v) \in Seq(Cell) /\ Len(Append(s, v)) = Len(s) + 1
      /\ \A k \in 1 .. Len(s) : Append(s, v)[k] = s[k]
      /\ Append(s, v)[Len(s) + 1] = v
  BY AppendProperties
<1>2. Len(s) \in Nat
  BY LenProperties
<1>3. \A k \in 1 .. Len(s) + 1 : t[k] = Append(s, v)[k]
  BY <1>1, <1>2
<1> QED
  BY <1>1, <1>3, SeqEqual

LEMMA AddSampleStep ==
  ASSUME IInv, NEW h \in Holder, NEW v \in Value, AddSample(h, v)
  PROVE  IInv' /\ OnlyOf(h) /\ Content'[h] = Append(Content[h], v)
<1>1. h \in Object /\ v \in Cell /\ HeapOK
  BY DEF Object, Cell, IInv
<1>2. /\ HeapOK'
      /\ pos'[h] = pos[h] + 1
      /\ Held'[h][pos[h] + 1] = v
      /\ \A k \in 1 .. pos[h] : Held'[h][k] = Held[h][k]
      /\ OthersKept(h)
  BY <1>1, AddKeeps DEF AddSample
<1>3. OperationOK' /\ SizeKnown'
  BY DEF AddSample, opVars, IInv, OperationOK, SizeKnown
<1>4. IInv' /\ OnlyOf(h)
  BY <1>2, <1>3, HolderStep DEF AddSample, IInv
<1>5. /\ Content[h] \in Seq(Cell)
      /\ Len(Content[h]) = pos[h]
      /\ \A k \in 1 .. pos[h] : Content[h][k] = Held[h][k]
  BY <1>1, ContentIsList
<1>6. /\ Content'[h] \in Seq(Cell)
      /\ Len(Content'[h]) = pos'[h]
      /\ \A k \in 1 .. pos'[h] : Content'[h][k] = Held'[h][k]
  BY <1>1, <1>2, NextContentIsList
<1>7. pos[h] \in Nat
  BY <1>1 DEF HeapOK
<1>8. /\ Content'[h][Len(Content[h]) + 1] = v
      /\ \A k \in 1 .. Len(Content[h]) : Content'[h][k] = Content[h][k]
  BY <1>2, <1>5, <1>6, <1>7
<1>9. Len(Content'[h]) = Len(Content[h]) + 1
  BY <1>2, <1>5, <1>6
<1> DEFINE s == Content[h]
           t == Content'[h]
<1>10. /\ s \in Seq(Cell) /\ t \in Seq(Cell) /\ Len(t) = Len(s) + 1
       /\ t[Len(s) + 1] = v /\ \A k \in 1 .. Len(s) : t[k] = s[k]
  BY <1>5, <1>6, <1>8, <1>9
<1> HIDE DEF s, t
<1>11. t = Append(s, v)
  BY <1>1, <1>10, ListIsAppend
<1> QED
  BY <1>4, <1>11 DEF s, t

-----------------------------------------------------------------------------
(* ChangeRate and ChangePitch build newbuf, and no list of an Audio changes *)
(* meanwhile.                                                              *)
LEMMA NewbufStep ==
  ASSUME OthersKept(newbuf)
  PROVE  \A h \in Holder : /\ Content'[h] = Content[h]
                           /\ Held'[h] = Held[h]
                           /\ pos'[h] = pos[h]
<1>1. newbuf \in Object /\ \A h \in Holder : h \in Object \ {newbuf}
  BY NewbufAssumption DEF Object
<1> QED
  BY <1>1, ContentKept DEF OthersKept

LEMMA ChangeRateStep ==
  ASSUME IInv, NEW h \in Holder, NEW d \in Rates, ChangeRate(h, d)
  PROVE  IInv' /\ \A g \in Holder : Content'[g] = Content[g]
<1>1. newbuf \in Object /\ h \in Object /\ CHUNKSIZE \in Nat
  BY ChunkAssumption DEF Object
<1>2. HeapOK' /\ OthersKept(newbuf)
  BY <1>1, CreateKeeps DEF ChangeRate, IInv
<1>3. d \in Speed
  BY RatesAssumption
<1>4. PICK e : e = Clamped(d)
  OBVIOUS
<1>5. e \in Speed /\ e[1] > 0 /\ Asked(e)
  BY <1>3, <1>4, ClampedPositive DEF Asked
<1>6. pos'[h] = pos[h] /\ pos[h] \in Nat
  BY <1>1, <1>2, NewbufStep DEF IInv, HeapOK
<1>7. want' = NewCount(pos[h], e) /\ rate' = e /\ self' = h /\ pc' = "stretch" /\ oidx' = 0
  BY <1>4 DEF ChangeRate
<1>8. want' \in Nat
  BY <1>5, <1>6, <1>7, NewCountBounds
<1>9. OperationOK'
  BY <1>5, <1>7, <1>8 DEF OperationOK, Phase
<1>10. SizeKnown'
  BY <1>5, <1>6, <1>7 DEF SizeKnown, Asked
<1>11. Parked' /\ SourceKnown' /\ Copied' /\ Replacement'
  BY <1>7 DEF Parked, Changing, SourceKnown, Copied, Replacement
<1> QED
  BY <1>2, <1>9, <1>10, <1>11, NewbufStep DEF IInv

LEMMA CreateStretchedStep ==
  ASSUME IInv, CreateStretched
  PROVE  IInv' /\ \A g \in Holder : Content'[g] = Content[g]
<1>1. newbuf \in Object /\ want \in Nat /\ self \in Holder
      /\ pc = "stretch" /\ pc' = "left"
      /\ UNCHANGED <<self, want, rate, oidx>>
  BY DEF Object, CreateStretched, opVars, IInv, OperationOK
<1>2. HeapOK' /\ pos'[newbuf] = 0 /\ OthersKept(newbuf)
  BY <1>1, CreateKeeps DEF CreateStretched, IInv
<1>3. pos'[self] = pos[self]
  BY <1>1, <1>2, NewbufStep
<1>4. OperationOK'
  BY <1>1 DEF IInv, OperationOK, Phase
<1>5. SizeKnown'
  BY <1>1, <1>3 DEF IInv, SizeKnown, Asked
<1>6. SourceKnown'
  <2>1. oidx' = 0 /\ rate \in Speed /\ rate' = rate
    BY <1>1 DEF IInv, SourceKnown, OperationOK
  <2>2. SourceOf(0, rate) \in Nat
    BY <2>1, SourceMonotone
  <2> QED
    BY <1>1, <1>2, <2>1, <2>2 DEF SourceKnown
<1>7. Copied'
  BY <1>2 DEF Copied
<1>8. Parked' /\ Replacement'
  BY <1>1 DEF Parked, Changing, Replacement
<1> QED
  BY <1>2, <1>4, <1>5, <1>6, <1>7, <1>8, NewbufStep DEF IInv

(* Whatever is read, it is what a cell may hold, and the sample itself     *)
(* where there is one.                                                     *)
LEMMA ReadIsCell ==
  ASSUME HeapOK, NEW o \in Object, NEW k \in Nat \ {0}, NEW v \in Read(o, k)
  PROVE  v \in Cell /\ (k <= pos[o] => v = Held[o][k])
<1>1. /\ Held[o] \in Seq(Cell) /\ Len(Held[o]) \in Nat
      /\ pos[o] \in Nat /\ pos[o] <= Len(Held[o]) /\ DOMAIN Held[o] = 1 .. Len(Held[o])
  BY EmptySeq, LenProperties DEF HeapOK, Held, Cells
<1>2. v \in IF k \in DOMAIN Held[o] THEN {Held[o][k]} ELSE Cell
  BY DEF Read, Held
<1>3. k \in 1 .. Len(Held[o]) => Held[o][k] \in Cell
  BY <1>1, ElementOfSeq
<1> QED
  BY <1>1, <1>2, <1>3

(* One sample more in newbuf: what was copied stays, and the new one comes *)
(* from where it should.                                                   *)
LEMMA OneMoreCopied ==
  ASSUME IInv, pc \in {"left", "right"}, NEW h \in Holder, h = self,
         NEW j \in Nat, j = pos[newbuf],
         NEW e \in Speed, e = rate, rate' = rate, self' = self,
         NEW k \in Nat \ {0}, k = Origin(j + 1, e),
         NEW v \in Read(h, k), Add(newbuf, v)
  PROVE  /\ HeapOK'
         /\ pos'[newbuf] = j + 1
         /\ pos'[h] = pos[h]
         /\ Copied'
         /\ \A g \in Holder : Content'[g] = Content[g]
<1>1. newbuf \in Object /\ h \in Object /\ HeapOK /\ pos[h] \in Nat
  BY DEF Object, IInv, HeapOK
<1>2. v \in Cell /\ (k <= pos[h] => v = Held[h][k])
  BY <1>1, ReadIsCell
<1>3. /\ HeapOK'
      /\ pos'[newbuf] = j + 1
      /\ Held'[newbuf][j + 1] = v
      /\ \A i \in 1 .. j : Held'[newbuf][i] = Held[newbuf][i]
      /\ OthersKept(newbuf)
  BY <1>1, <1>2, AddKeeps
<1>4. /\ \A g \in Holder : Content'[g] = Content[g]
      /\ Held'[h] = Held[h] /\ pos'[h] = pos[h]
  BY <1>3, NewbufStep
<1>5. \A p \in 1 .. j : Origin(p, e) <= pos[h] => Held[newbuf][p] = Held[h][Origin(p, e)]
  BY DEF IInv, Copied
<1>6. ASSUME NEW p \in 1 .. j + 1, Origin(p, e) <= pos[h]
      PROVE  Held'[newbuf][p] = Held'[h][Origin(p, e)]
  <2>1. CASE p = j + 1
    BY <1>2, <1>3, <1>4, <1>6, <2>1
  <2>2. CASE p \in 1 .. j
    BY <1>3, <1>4, <1>5, <1>6, <2>2
  <2> QED
    BY <2>1, <2>2
<1>7. Copied'
  BY <1>3, <1>4, <1>6 DEF Copied
<1> QED
  BY <1>3, <1>4, <1>7

LEMMA CopyLeftStep ==
  ASSUME IInv, CopyLeft
  PROVE  IInv' /\ \A g \in Holder : Content'[g] = Content[g]
<1>1. /\ newbuf \in Object /\ self \in Holder /\ self \in Object
      /\ pc = "left" /\ pc' = "right"
      /\ UNCHANGED <<self, want, rate>>
  BY DEF Object, CopyLeft, IInv, OperationOK
<1>2. PICK h \in Holder : h = self
  BY <1>1
<1>3. PICK j \in Nat : j = pos[newbuf]
  BY <1>1 DEF IInv, HeapOK
<1>4. PICK e \in Speed : e = rate
  BY DEF IInv, OperationOK
<1>5. PICK src \in Nat : src = SourceOf(j, e)
  BY SourceMonotone
<1>6. j % 2 = 0 /\ oidx \in Nat /\ oidx % 2 = 0 /\ oidx <= src + 1 /\ j < want
  BY <1>1, <1>3, <1>4, <1>5 DEF IInv, SourceKnown, OperationOK, CopyLeft
<1>7. PICK x : x = oidx'
  OBVIOUS
<1>8. x = Advanced(oidx, src)
  BY <1>3, <1>4, <1>5, <1>7 DEF CopyLeft
<1>9. x \in Nat /\ x % 2 = 0 /\ src <= x /\ x <= src + 1
  BY <1>6, <1>8, AdvancedLands
<1>10. x = FrameOf(j \div 2, e)
  <2>1. PICK k \in Nat : k = j \div 2
    OBVIOUS
  <2>2. 2 * k = j
    BY <1>6, <2>1
  <2> QED
    BY <1>5, <1>9, <2>1, <2>2, FrameIsNear
<1>11. x + 1 \in Nat \ {0} /\ x + 1 = Origin(j + 1, e)
  BY <1>6, <1>9, <1>10, OriginOfFrame
<1>12. PICK v \in Read(h, x + 1) : Add(newbuf, v)
  BY <1>2, <1>7 DEF CopyLeft
<1>13. /\ HeapOK'
       /\ pos'[newbuf] = j + 1
       /\ pos'[h] = pos[h]
       /\ Copied'
       /\ \A g \in Holder : Content'[g] = Content[g]
  <2>1. PICK k \in Nat \ {0} : k = x + 1
    BY <1>11
  <2>2. k = Origin(j + 1, e) /\ v \in Read(h, k)
    BY <1>11, <2>1
  <2> QED
    BY <1>1, <1>2, <1>3, <1>4, <1>12, <2>2, OneMoreCopied
<1>14. OperationOK'
  BY <1>1, <1>7, <1>9 DEF IInv, OperationOK, Phase
<1>15. SizeKnown'
  BY <1>1, <1>2, <1>13 DEF IInv, SizeKnown, Asked
<1>16. SourceKnown'
  <2>1. j + 1 - 1 = j /\ (j + 1) % 2 = 1
    BY <1>6
  <2>2. j + 1 < want
    <3>1. PICK m : m = want
      OBVIOUS
    <3>2. PICK n \in Nat : n = pos[h]
      BY <1>1, <1>2 DEF IInv, HeapOK
    <3>3. m = NewCount(n, e) /\ e[1] > 0
      BY <1>1, <1>2, <1>4, <3>1, <3>2 DEF IInv, SizeKnown
    <3>4. m \in Nat /\ m % 2 = 0
      BY <3>3, NewCountBounds
    <3> QED
      BY <1>6, <3>1, <3>4
  <2> QED
    BY <1>1, <1>4, <1>7, <1>10, <1>13, <2>1, <2>2 DEF SourceKnown
<1>17. Parked' /\ Replacement'
  BY <1>1 DEF Parked, Changing, Replacement
<1> QED
  BY <1>13, <1>14, <1>15, <1>16, <1>17 DEF IInv

LEMMA CopyRightStep ==
  ASSUME IInv, CopyRight
  PROVE  IInv' /\ \A g \in Holder : Content'[g] = Content[g]
<1>1. /\ newbuf \in Object /\ self \in Holder /\ self \in Object
      /\ pc = "right" /\ pc' = "left"
      /\ UNCHANGED <<self, want, rate, oidx>>
  BY DEF Object, CopyRight, opVars, IInv, OperationOK
<1>2. PICK h \in Holder : h = self
  BY <1>1
<1>3. PICK j \in Nat : j = pos[newbuf]
  BY <1>1 DEF IInv, HeapOK
<1>4. PICK e \in Speed : e = rate
  BY DEF IInv, OperationOK
<1>5. PICK x \in Nat : x = oidx
  BY DEF IInv, OperationOK
<1>6. j % 2 = 1 /\ j < want /\ x = FrameOf((j - 1) \div 2, e)
  BY <1>1, <1>3, <1>4, <1>5 DEF IInv, SourceKnown
<1>7. x + 2 \in Nat \ {0} /\ x + 2 = Origin(j + 1, e)
  BY <1>6, OriginOfFrame
<1>8. PICK v \in Read(h, x + 2) : Add(newbuf, v)
  BY <1>2, <1>5 DEF CopyRight
<1>9. /\ HeapOK'
      /\ pos'[newbuf] = j + 1
      /\ pos'[h] = pos[h]
      /\ Copied'
      /\ \A g \in Holder : Content'[g] = Content[g]
  <2>1. PICK k \in Nat \ {0} : k = x + 2
    BY <1>7
  <2>2. k = Origin(j + 1, e) /\ v \in Read(h, k)
    BY <1>7, <2>1
  <2> QED
    BY <1>1, <1>2, <1>3, <1>4, <1>8, <2>2, OneMoreCopied
<1>10. OperationOK'
  BY <1>1 DEF IInv, OperationOK, Phase
<1>11. SizeKnown'
  BY <1>1, <1>2, <1>9 DEF IInv, SizeKnown, Asked
<1>12. SourceKnown'
  <2>1. PICK k \in Nat : k = (j - 1) \div 2
    BY <1>6
  <2>2. 2 * k = j - 1 /\ j - 1 \in Nat /\ j - 1 <= j + 1 /\ (j + 1) % 2 = 0
    BY <1>6, <2>1
  <2>3. x % 2 = 0 /\ x <= SourceOf(2 * k, e) + 1
    BY <1>6, <2>1, FrameIsNear
  <2>4. /\ SourceOf(j - 1, e) \in Nat /\ SourceOf(j + 1, e) \in Nat
        /\ SourceOf(j - 1, e) <= SourceOf(j + 1, e)
    BY <2>2, SourceMonotone
  <2>5. x <= SourceOf(j + 1, e) + 1
    BY <2>2, <2>3, <2>4
  <2>6. j + 1 <= want
    BY <1>6 DEF IInv, OperationOK
  <2> QED
    BY <1>1, <1>4, <1>5, <1>9, <2>2, <2>3, <2>5, <2>6 DEF SourceKnown
<1>13. Parked' /\ Replacement'
  BY <1>1 DEF Parked, Changing, Replacement
<1> QED
  BY <1>9, <1>10, <1>11, <1>12, <1>13 DEF IInv

LEMMA EndStretchStep ==
  ASSUME IInv, EndStretch
  PROVE  IInv' /\ Content' = Content
<1>1. UNCHANGED <<live, cell, samples, samplesize, pos, self, want, rate, oidx>>
      /\ pc = "left" /\ pc' = "swap" /\ newbuf \in Object /\ self \in Object
  BY DEF EndStretch, heapVars, objVars, opVars, IInv, OperationOK, Object
<1>2. Held' = Held /\ Content' = Content
  BY <1>1 DEF Held, Cells, Content
<1>3. HeapOK'
  BY <1>1, <1>2 DEF IInv, HeapOK, OneOwner
<1>4. OperationOK'
  BY <1>1 DEF IInv, OperationOK, Phase
<1>5. /\ Len(Content[newbuf]) = pos[newbuf]
      /\ \A k \in 1 .. pos[newbuf] : Content[newbuf][k] = Held[newbuf][k]
      /\ Len(Content[self]) = pos[self]
      /\ \A k \in 1 .. pos[self] : Content[self][k] = Held[self][k]
      /\ pos[newbuf] \in Nat /\ pos[self] \in Nat
  BY <1>1, ContentIsList DEF IInv, HeapOK
<1>6. /\ Asked(rate) /\ rate[1] > 0 /\ rate \in Speed /\ want \in Nat
      /\ want = NewCount(pos[self], rate) /\ pos[newbuf] = want
  BY <1>1, <1>5 DEF IInv, SizeKnown, SourceKnown, OperationOK, EndStretch
<1>7. ResampledBy(Content[newbuf], Content[self], rate)
  <2>1. ASSUME NEW p \in 1 .. pos[newbuf], Origin(p, rate) <= pos[self]
        PROVE  Content[newbuf][p] = Content[self][Origin(p, rate)]
    <3>1. Held[newbuf][p] = Held[self][Origin(p, rate)]
      BY <1>1, <2>1 DEF IInv, Copied
    <3>2. Origin(p, rate) \in 1 .. pos[self] + 2
      BY <1>5, <1>6, OriginInReach
    <3> QED
      BY <1>5, <2>1, <3>1, <3>2
  <2> QED
    BY <1>5, <1>6, <2>1 DEF ResampledBy
<1>8. Replacement'
  BY <1>1, <1>2, <1>6, <1>7 DEF Replacement, ResampledBy, Asked
<1>9. Parked' /\ SizeKnown' /\ SourceKnown' /\ Copied'
  BY <1>1 DEF Parked, Changing, SizeKnown, SourceKnown, Copied
<1> QED
  BY <1>2, <1>3, <1>4, <1>8, <1>9 DEF IInv

LEMMA ChangePitchStep ==
  ASSUME IInv, NEW h \in Holder, ChangePitch(h)
  PROVE  IInv' /\ \A g \in Holder : Content'[g] = Content[g]
<1>1. newbuf \in Object /\ h \in Object /\ CHUNKSIZE \in Nat
  BY ChunkAssumption DEF Object
<1>2. HeapOK' /\ OthersKept(newbuf)
  BY <1>1, CreateKeeps DEF ChangePitch, IInv
<1>3. pos'[h] = pos[h] /\ pos[h] \in Nat
  BY <1>1, <1>2, NewbufStep DEF IInv, HeapOK
<1>4. /\ pc = "idle" /\ pc' = "copy" /\ self' = h /\ want' = pos[h]
      /\ UNCHANGED <<rate, oidx>>
  BY DEF ChangePitch
<1>5. OperationOK'
  BY <1>3, <1>4 DEF IInv, OperationOK, Phase
<1>6. SizeKnown'
  BY <1>3, <1>4 DEF SizeKnown
<1>7. Parked' /\ SourceKnown' /\ Copied' /\ Replacement'
  BY <1>4 DEF Parked, Changing, SourceKnown, Copied, Replacement
<1> QED
  BY <1>2, <1>5, <1>6, <1>7, NewbufStep DEF IInv

LEMMA CreateShiftedStep ==
  ASSUME IInv, CreateShifted
  PROVE  IInv' /\ \A g \in Holder : Content'[g] = Content[g]
<1>1. newbuf \in Object /\ want \in Nat /\ self \in Holder
      /\ pc = "copy" /\ pc' = "shift"
      /\ UNCHANGED <<self, want, rate, oidx>>
  BY DEF Object, CreateShifted, opVars, IInv, OperationOK
<1>2. HeapOK' /\ samplesize'[newbuf] = want /\ OthersKept(newbuf)
  BY <1>1, CreateKeeps DEF CreateShifted, IInv
<1>3. pos'[self] = pos[self]
  BY <1>1, <1>2, NewbufStep
<1>4. OperationOK'
  BY <1>1 DEF IInv, OperationOK, Phase
<1>5. SizeKnown'
  BY <1>1, <1>2, <1>3 DEF IInv, SizeKnown
<1>6. Parked' /\ SourceKnown' /\ Copied' /\ Replacement'
  BY <1>1 DEF Parked, Changing, SourceKnown, Copied, Replacement
<1> QED
  BY <1>2, <1>4, <1>5, <1>6, NewbufStep DEF IInv

LEMMA ShiftStep ==
  ASSUME IInv, Shift
  PROVE  IInv' /\ \A g \in Holder : Content'[g] = Content[g]
<1>1. newbuf \in Object /\ want \in Nat /\ self \in Holder
      /\ pc = "shift" /\ pc' = "swap"
      /\ UNCHANGED <<self, want, rate, oidx>>
  BY DEF Object, Shift, opVars, IInv, OperationOK
<1>2. PICK n \in Nat : n = want
  BY <1>1
<1>3. PICK f \in [1 .. n -> Value] : Fill(newbuf, n, f)
  BY <1>2 DEF Shift
<1>4. Value \in SUBSET Cell /\ n <= samplesize[newbuf] /\ HeapOK /\ n = pos[self]
  <2>1. samplesize[newbuf] \in Nat /\ samplesize[newbuf] = n /\ n = pos[self]
    BY <1>1, <1>2 DEF IInv, HeapOK, SizeKnown
  <2> QED
    BY <2>1 DEF Cell, IInv
<1>5. /\ HeapOK' /\ OthersKept(newbuf)
      /\ pos'[newbuf] = n
      /\ \A k \in 1 .. n : k <= n => Held'[newbuf][k] \in Value
  BY <1>1, <1>3, <1>4, FillKeeps
<1>6. pos'[self] = pos[self]
  BY <1>1, <1>5, NewbufStep
<1>7. OperationOK'
  BY <1>1 DEF IInv, OperationOK, Phase
<1>8. Replacement'
  <2>1. \A k \in 1 .. n : Held'[newbuf][k] \in Value
    BY <1>5
  <2>2. pos'[newbuf] = pos'[self']
    BY <1>1, <1>4, <1>5, <1>6
  <2> QED
    BY <1>5, <2>1, <2>2 DEF Replacement
<1>9. Parked' /\ SizeKnown' /\ SourceKnown' /\ Copied'
  BY <1>1 DEF Parked, Changing, SizeKnown, SourceKnown, Copied
<1> QED
  BY <1>5, <1>7, <1>8, <1>9, NewbufStep DEF IInv

(* What ChangeRate does to the list of h.                                  *)
Stretched(h) ==
  /\ pc = "swap" /\ h = self
  /\ rate \in Speed /\ rate[1] > 0 /\ Asked(rate)
  /\ Content'[h] \in Seq(Cell)
  /\ ResampledBy(Content'[h], Content[h], rate)

(* `buf = *newbuf': the Audio has newbuf's block, newbuf has none.         *)
LEMMA SwapStep ==
  ASSUME IInv, Swap
  PROVE  IInv' /\ \E h \in Holder :
           /\ OnlyOf(h)
           /\ \/ Stretched(h)
              \/ Content'[h] \in Seq(Value) /\ Len(Content'[h]) = Len(Content[h])
<1>1. pc = "swap" /\ pc' = "idle" /\ self \in Holder
  BY DEF Swap, IInv, OperationOK
<1>2. PICK h \in Holder : h = self
  BY <1>1
<1>3. h \in Object /\ newbuf \in Object /\ h # newbuf
  BY NewbufAssumption DEF Object
<1>4. /\ live \subseteq Block /\ cell \in [Block -> Seq(Cell)]
      /\ samples \in [Object -> Block \cup {Null}]
      /\ samplesize \in [Object -> Nat] /\ pos \in [Object -> Nat]
      /\ \A o \in Object : samplesize[o] = Len(Held[o]) /\ pos[o] <= samplesize[o]
      /\ \A o \in Object : samples[o] \in live \cup {Null}
      /\ \A o, q \in Object : o # q /\ samples[o] = samples[q] => samples[o] = Null
      /\ \A b \in live : \E o \in Object : samples[o] = b
  BY DEF IInv, HeapOK, OneOwner
<1>5. /\ live' = live \ {samples[h]}
      /\ cell' = [c \in Block |-> IF c \in live' THEN cell[c] ELSE <<>>]
  BY <1>2 DEF Swap, LiveWithout
<1>6. /\ samples' = [samples EXCEPT ![h] = samples[newbuf], ![newbuf] = Null]
      /\ samplesize' = [samplesize EXCEPT ![h] = samplesize[newbuf], ![newbuf] = 0]
      /\ pos' = [pos EXCEPT ![h] = pos[newbuf], ![newbuf] = 0]
  BY <1>2 DEF Swap
<1>7. /\ samples' = [o \in Object |-> IF o = newbuf THEN Null
                                      ELSE IF o = h THEN samples[newbuf] ELSE samples[o]]
      /\ samplesize' = [o \in Object |-> IF o = newbuf THEN 0
                                         ELSE IF o = h THEN samplesize[newbuf] ELSE samplesize[o]]
      /\ pos' = [o \in Object |-> IF o = newbuf THEN 0
                                  ELSE IF o = h THEN pos[newbuf] ELSE pos[o]]
  BY <1>3, <1>4, <1>6
<1>8. samples'[newbuf] = Null /\ samplesize'[newbuf] = 0 /\ pos'[newbuf] = 0
  BY <1>3, <1>7
<1>9. samples'[h] = samples[newbuf] /\ samplesize'[h] = samplesize[newbuf] /\ pos'[h] = pos[newbuf]
  BY <1>3, <1>7
<1>10. \A q \in Object \ {h, newbuf} :
         samples'[q] = samples[q] /\ samplesize'[q] = samplesize[q] /\ pos'[q] = pos[q]
  BY <1>7
<1>11. Held'[newbuf] = <<>>
  BY <1>3, <1>8 DEF Held, Cells
<1>12. Held'[h] = Held[newbuf]
  <2>1. CASE samples[newbuf] = Null
    BY <1>3, <1>9, <2>1 DEF Held, Cells
  <2>2. CASE samples[newbuf] # Null
    <3>1. samples[newbuf] \in live' /\ samples[newbuf] \in Block
      BY <1>3, <1>4, <1>5, <2>2
    <3> QED
      BY <1>3, <1>5, <1>9, <2>2, <3>1 DEF Held, Cells
  <2> QED
    BY <2>1, <2>2
<1>13. ASSUME NEW q \in Object \ {h, newbuf} PROVE Held'[q] = Held[q]
  <2>1. CASE samples[q] = Null
    BY <1>10, <2>1 DEF Held, Cells
  <2>2. CASE samples[q] # Null
    <3>1. samples[q] \in live' /\ samples[q] \in Block
      BY <1>3, <1>4, <1>5, <2>2
    <3> QED
      BY <1>5, <1>10, <2>2, <3>1 DEF Held, Cells
  <2> QED
    BY <2>1, <2>2
<1>14. OneOwner'
  <2>1. \A o \in Object : samples'[o] \in live' \cup {Null}
    BY <1>3, <1>4, <1>5, <1>7
  <2>2. \A o, q \in Object : o # q /\ samples'[o] = samples'[q] => samples'[o] = Null
    BY <1>3, <1>4, <1>7
  <2>3. ASSUME NEW b \in live' PROVE \E o \in Object : samples'[o] = b
    <3>1. b \in live /\ b # samples[h] /\ b # Null
      BY <1>4, <1>5, NullAssumption
    <3>2. PICK o \in Object : samples[o] = b
      BY <1>4, <3>1
    <3>3. CASE o = newbuf
      BY <1>3, <1>9, <3>2, <3>3
    <3>4. CASE o # newbuf
      BY <1>10, <3>1, <3>2, <3>4
    <3> QED
      BY <3>3, <3>4
  <2> QED
    BY <2>1, <2>2, <2>3 DEF OneOwner
<1>15. HeapOK'
  <2>1. live' \subseteq Block /\ cell' \in [Block -> Seq(Cell)]
    BY <1>4, <1>5, EmptySeq
  <2>2. /\ samples' \in [Object -> Block \cup {Null}]
        /\ samplesize' \in [Object -> Nat] /\ pos' \in [Object -> Nat]
    BY <1>3, <1>4, <1>7
  <2>3. ASSUME NEW o \in Object
        PROVE  samplesize'[o] = Len(Held'[o]) /\ pos'[o] <= samplesize'[o]
    <3>1. CASE o = newbuf
      BY <1>8, <1>11, <3>1, EmptySeq
    <3>2. CASE o = h
      BY <1>3, <1>4, <1>9, <1>12, <3>2
    <3>3. CASE o \in Object \ {h, newbuf}
      BY <1>4, <1>10, <1>13, <3>3
    <3> QED
      BY <3>1, <3>2, <3>3
  <2> QED
    BY <1>14, <2>1, <2>2, <2>3 DEF HeapOK
<1>16. OperationOK'
  BY SpeedOne DEF Swap, Returned, IInv, OperationOK, Phase
<1>17. IInv'
  BY <1>1, <1>8, <1>15, <1>16
     DEF IInv, Parked, Changing, SizeKnown, SourceKnown, Copied, Replacement
<1>18. OnlyOf(h)
  <2> SUFFICES ASSUME NEW g \in Holder \ {h} PROVE Content'[g] = Content[g]
    BY DEF OnlyOf
  <2>1. g \in Object \ {h, newbuf}
    BY NewbufAssumption DEF Object
  <2>2. Held'[g] = Held[g] /\ pos'[g] = pos[g]
    BY <1>10, <1>13, <2>1
  <2>3. /\ Content'[g] = [k \in 1 .. pos'[g] |-> Held'[g][k]]
        /\ Content[g] = [k \in 1 .. pos[g] |-> Held[g][k]]
    BY <2>1 DEF Content
  <2> QED
    BY <2>2, <2>3
<1>19. Content'[h] = Content[newbuf]
  <2>1. /\ Content'[h] = [k \in 1 .. pos'[h] |-> Held'[h][k]]
        /\ Content[newbuf] = [k \in 1 .. pos[newbuf] |-> Held[newbuf][k]]
    BY <1>3 DEF Content
  <2> QED
    BY <1>9, <1>12, <2>1
<1>20. CASE Asked(rate) /\ rate[1] > 0 /\ ResampledBy(Content[newbuf], Content[h], rate)
  <2>1. Content'[h] \in Seq(Cell)
    BY <1>3, <1>15, NextContentIsList
  <2>2. rate \in Speed
    BY DEF IInv, OperationOK
  <2>3. Stretched(h)
    BY <1>1, <1>2, <1>19, <1>20, <2>1, <2>2 DEF Stretched
  <2> QED
    BY <1>17, <1>18, <2>3
<1>21. CASE /\ pos[newbuf] = pos[h]
            /\ \A k \in 1 .. pos[newbuf] : Held[newbuf][k] \in Value
  <2>1. Content[newbuf] = [k \in 1 .. pos[newbuf] |-> Held[newbuf][k]]
    BY <1>3 DEF Content
  <2>2. Content[newbuf] \in Seq(Value) /\ Len(Content[newbuf]) = pos[newbuf]
    <3>1. PICK n \in Nat : n = pos[newbuf]
      BY <1>3, <1>4
    <3>2. PICK s : s = Content[newbuf]
      OBVIOUS
    <3>3. DOMAIN s = 1 .. n /\ (\A k \in 1 .. n : s[k] \in Value) /\ s = [k \in 1 .. n |-> s[k]]
      BY <1>21, <2>1, <3>1, <3>2
    <3>4. s \in Seq(Value) /\ Len(s) = n
      BY <3>3, Tabulated
    <3> QED
      BY <3>1, <3>2, <3>4
  <2>3. Len(Content[h]) = pos[h]
    BY <1>3, ContentIsList DEF IInv
  <2> QED
    BY <1>17, <1>18, <1>19, <1>21, <2>2, <2>3
<1> QED
  BY <1>1, <1>2, <1>20, <1>21 DEF IInv, Replacement

LEMMA DestroyStep ==
  ASSUME IInv, Destroy
  PROVE  IInv' /\ \A h \in Holder : Content'[h] = <<>>
<1>1. /\ pc = "idle" /\ pc' = "exited"
      /\ UNCHANGED <<self, want, rate, oidx>>
      /\ live' = live \ {samples[h] : h \in Holder}
      /\ cell' = [c \in Block |-> IF c \in live' THEN cell[c] ELSE <<>>]
      /\ samples' = [o \in Object |-> Null]
      /\ samplesize' = [o \in Object |-> 0]
      /\ pos' = [o \in Object |-> 0]
  BY DEF Destroy, opVars
<1>2. /\ live \subseteq Block /\ cell \in [Block -> Seq(Cell)]
      /\ \A b \in live : \E o \in Object : samples[o] = b
  BY DEF IInv, HeapOK, OneOwner
<1>3. samples[newbuf] = Null
  BY <1>1 DEF IInv, Parked, Changing
<1>4. live' = {}
  BY <1>1, <1>2, <1>3, NullAssumption DEF Object
<1>5. \A o \in Object : Held'[o] = <<>>
  BY <1>1 DEF Held, Cells
<1>6. HeapOK'
  <2>1. cell' \in [Block -> Seq(Cell)]
    BY <1>1, <1>2, EmptySeq
  <2>2. OneOwner'
    BY <1>1, <1>4 DEF OneOwner
  <2>3. \A o \in Object : samplesize'[o] = Len(Held'[o]) /\ pos'[o] <= samplesize'[o]
    BY <1>1, <1>5, EmptySeq
  <2> QED
    BY <1>1, <1>4, <2>1, <2>2, <2>3 DEF HeapOK
<1>7. OperationOK'
  BY <1>1 DEF IInv, OperationOK, Phase
<1>8. IInv'
  BY <1>1, <1>6, <1>7
     DEF IInv, Parked, Changing, Object, SizeKnown, SourceKnown, Copied, Replacement
<1>9. \A h \in Holder : h \in Object /\ pos'[h] = 0
  BY <1>1 DEF Object
<1> QED
  BY <1>8, <1>9, EmptyContent

-----------------------------------------------------------------------------
(* Every step, and what it does to the lists.                              *)
ListEffect ==
  \/ \A h \in Holder : Content'[h] = Content[h]
  \/ \A h \in Holder : Content'[h] = <<>>
  \/ \E h \in Holder :
       /\ OnlyOf(h)
       /\ \/ Content'[h] = <<>>
          \/ \E v \in Value : Content'[h] = Append(Content[h], v)
          \/ /\ pc = "read" /\ h = self
             /\ Content[h] = <<>> /\ Content'[h] \in Seq(Cell)
          \/ Stretched(h)
          \/ Content'[h] \in Seq(Value) /\ Len(Content'[h]) = Len(Content[h])

LEMMA StepOnLists ==
  ASSUME IInv, Next
  PROVE  IInv' /\ ListEffect
<1>1. ASSUME NEW h \in Holder, Release(h) \/ LoadFile(h) \/ CreateAudio(h)
      PROVE  IInv' /\ ListEffect
  BY <1>1, ReleaseStep, LoadFileStep, CreateAudioStep DEF ListEffect
<1>2. ASSUME NEW h \in Holder, ChangePitch(h) PROVE IInv' /\ ListEffect
  BY <1>2, ChangePitchStep DEF ListEffect
<1>3. CASE OpenFails
  BY <1>3, OpenFailsStep DEF ListEffect
<1>4. ASSUME NEW n \in 0 .. MaxCount, Opened(n) PROVE IInv' /\ ListEffect
  BY <1>4, OpenedStep DEF ListEffect
<1>5. ASSUME NEW n \in 0 .. MaxCount, CreateBuffer(n) PROVE IInv' /\ ListEffect
  BY <1>5, CreateBufferStep DEF ListEffect
<1>6. CASE ReadFile
  BY <1>6, ReadFileStep DEF ListEffect, ReadFile
<1>7. ASSUME NEW h \in Holder, NEW v \in Value, AddSample(h, v) PROVE IInv' /\ ListEffect
  BY <1>7, AddSampleStep DEF ListEffect
<1>8. ASSUME NEW h \in Holder, NEW d \in Rates, ChangeRate(h, d) PROVE IInv' /\ ListEffect
  BY <1>8, ChangeRateStep DEF ListEffect
<1>9. CASE CreateStretched
  BY <1>9, CreateStretchedStep DEF ListEffect
<1>10. CASE CopyLeft
  BY <1>10, CopyLeftStep DEF ListEffect
<1>11. CASE CopyRight
  BY <1>11, CopyRightStep DEF ListEffect
<1>12. CASE EndStretch
  BY <1>12, EndStretchStep DEF ListEffect
<1>13. CASE CreateShifted
  BY <1>13, CreateShiftedStep DEF ListEffect
<1>14. CASE Shift
  BY <1>14, ShiftStep DEF ListEffect
<1>15. CASE Swap
  BY <1>15, SwapStep DEF ListEffect
<1>16. CASE Destroy
  BY <1>16, DestroyStep DEF ListEffect
<1> QED
  BY <1>1, <1>2, <1>3, <1>4, <1>5, <1>6, <1>7, <1>8, <1>9, <1>10, <1>11, <1>12,
     <1>13, <1>14, <1>15, <1>16 DEF Next

LEMMA StutterOnLists ==
  ASSUME IInv, UNCHANGED vars
  PROVE  IInv' /\ Content' = Content
<1>1. UNCHANGED <<live, cell, samples, samplesize, pos, pc, self, want, rate, oidx>>
  BY DEF vars
<1>2. Held' = Held /\ Content' = Content
  BY <1>1 DEF Held, Cells, Content
<1>3. HeapOK' /\ Parked' /\ OperationOK'
  BY <1>1, <1>2 DEF IInv, HeapOK, OneOwner, Parked, Changing, OperationOK
<1>4. SizeKnown' /\ SourceKnown' /\ Copied'
  BY <1>1, <1>2 DEF IInv, SizeKnown, SourceKnown, Copied, Asked
<1>5. Replacement'
  BY <1>1, <1>2 DEF IInv, Replacement, ResampledBy, Asked
<1> QED
  BY <1>2, <1>3, <1>4, <1>5 DEF IInv

LEMMA InitIsIInv ==
  ASSUME Init
  PROVE  IInv /\ \A h \in Holder : Content[h] = <<>>
<1>1. /\ samples \in [Object -> Block \cup {Null}]
      /\ samples[newbuf] = Null
      /\ \A h \in Holder : samples[h] # Null
      /\ \A g, h \in Holder : g # h => samples[g] # samples[h]
      /\ live = {samples[h] : h \in Holder}
      /\ samplesize = [o \in Object |-> IF o = newbuf THEN 0 ELSE CHUNKSIZE]
      /\ pos = [o \in Object |-> 0]
      /\ pc = "idle" /\ self = Null /\ want = 0 /\ rate = <<1, 1>> /\ oidx = 0
  BY DEF Init, NoOperation
<1>2. cell = [b \in Block |-> IF b \in live THEN Garbage(CHUNKSIZE) ELSE <<>>]
  BY DEF Init
<1>3. newbuf \in Object /\ newbuf \notin Holder /\ Object = Holder \cup {newbuf}
  BY NewbufAssumption DEF Object
<1>4. CHUNKSIZE \in Nat
  BY ChunkAssumption
<1>5. Garbage(CHUNKSIZE) \in Seq(Cell) /\ Len(Garbage(CHUNKSIZE)) = CHUNKSIZE
  BY <1>4, GarbageIsContent
<1>6. live \subseteq Block
  BY <1>1, <1>3
<1>7. cell \in [Block -> Seq(Cell)]
  BY <1>2, <1>5, EmptySeq
<1>8. OneOwner
  BY <1>1, <1>3 DEF OneOwner
<1>9. \A o \in Object : samplesize[o] = Len(Held[o]) /\ pos[o] <= samplesize[o]
  <2>1. samplesize[newbuf] = Len(Held[newbuf]) /\ pos[newbuf] <= samplesize[newbuf]
    BY <1>1, <1>3, EmptySeq DEF Held, Cells
  <2>2. ASSUME NEW h \in Holder PROVE samplesize[h] = Len(Held[h]) /\ pos[h] <= samplesize[h]
    <3>1. samples[h] \in live /\ samples[h] \in Block /\ samples[h] # Null
      BY <1>1, <1>6
    <3>2. Held[h] = Garbage(CHUNKSIZE)
      BY <1>2, <1>3, <3>1 DEF Held, Cells
    <3> QED
      BY <1>1, <1>3, <1>4, <1>5, <3>2
  <2> QED
    BY <1>3, <2>1, <2>2
<1>10. HeapOK
  BY <1>1, <1>4, <1>6, <1>7, <1>8, <1>9 DEF HeapOK
<1>11. OperationOK
  BY <1>1, SpeedOne DEF OperationOK, Phase
<1>12. IInv
  BY <1>1, <1>10, <1>11
     DEF IInv, Parked, Changing, SizeKnown, SourceKnown, Copied, Replacement
<1>13. \A h \in Holder : h \in Object /\ pos[h] = 0
  BY <1>1, <1>3
<1> QED
  BY <1>12, <1>13, EmptyContent

LEMMA IInvHolds == Spec => []IInv
<1>1. Init => IInv
  BY InitIsIInv
<1>2. IInv /\ [Next]_vars => IInv'
  BY StepOnLists, StutterOnLists
<1> QED
  BY <1>1, <1>2, PTL DEF Spec

-----------------------------------------------------------------------------
(* Sizes, positions and the locals of the operations are what the code     *)
(* takes them for (audio.h:39-41): samplesize is the size of the block and *)
(* pos does not exceed it.                                                 *)
THEOREM SizesAgree == Spec => []TypeOK
<1>1. IInv => TypeOK
  <2> SUFFICES ASSUME IInv PROVE TypeOK
    OBVIOUS
  <2>1. \A o \in Object : samplesize[o] = Len(Cells(o)) /\ pos[o] <= samplesize[o]
    BY DEF IInv, HeapOK, Held
  <2> QED
    BY <2>1 DEF IInv, HeapOK, OperationOK, TypeOK
<1> QED
  BY <1>1, IInvHolds, PTL

(* Every block has exactly one owner that can be reached: the member-wise  *)
(* copies of ChangeRate and ChangePitch (audio.cpp:142-143, 156-157) free   *)
(* nothing twice, leave nothing behind and share nothing.                  *)
THEOREM EveryBlockHasOneOwner == Spec => []Ownership
<1>1. IInv => Ownership
  <2> SUFFICES ASSUME IInv PROVE Ownership
    OBVIOUS
  <2>1. /\ \A o \in Object : samples[o] \in live \cup {Null}
        /\ \A o, q \in Object : o # q /\ samples[o] = samples[q] => samples[o] = Null
        /\ \A b \in live : \E o \in Object : samples[o] = b
        /\ live \subseteq Block
    BY DEF IInv, HeapOK, OneOwner
  <2>2. Alive \subseteq Object
    BY DEF Alive, Object
  <2>3. ASSUME NEW b \in live PROVE \E o \in Alive : samples[o] = b
    <3>1. PICK o \in Object : samples[o] = b
      BY <2>1
    <3>2. samples[o] # Null
      BY <2>1, <3>1, NullAssumption
    <3>3. o \in Alive
      BY <3>2 DEF IInv, Parked, Alive, Object
    <3> QED
      BY <3>1, <3>3
  <2> QED
    BY <2>1, <2>2, <2>3 DEF Ownership
<1> QED
  BY <1>1, IInvHolds, PTL

(* In the words of the lists: which of them hold junk.                     *)
LEMMA JunkIsInContent ==
  ASSUME NEW h \in Holder
  PROVE  /\ HeapOK => (HasJunk(h) <=> \E k \in 1 .. Len(Content[h]) : Content[h][k] = Junk)
         /\ HeapOK' =>
              (HasJunk(h)' <=> \E k \in 1 .. Len(Content'[h]) : Content'[h][k] = Junk)
<1>1. h \in Object
  BY DEF Object
<1>2. ASSUME HeapOK
      PROVE  HasJunk(h) <=> \E k \in 1 .. Len(Content[h]) : Content[h][k] = Junk
  BY <1>1, <1>2, ContentIsList DEF HasJunk, Held
<1>3. ASSUME HeapOK'
      PROVE  HasJunk(h)' <=> \E k \in 1 .. Len(Content'[h]) : Content'[h][k] = Junk
  BY <1>1, <1>3, NextContentIsList DEF HasJunk, Held
<1> QED
  BY <1>2, <1>3

(* Memory that nobody has written enters a list only through a short file  *)
(* (audio.cpp:22-25), or when the list is resampled at a speed that leaves *)
(* it (audio.cpp:135-136); at any other speed each sample of the new list  *)
(* is one of the old list, a shifted list is written throughout, and a     *)
(* list that grows does so by samples.                                     *)
THEOREM JunkDoesNotSpread == Spec => NoNewJunk
<1>1. ASSUME IInv, [Next]_vars, NEW h \in Holder, HasJunk(h)', ~TakesJunk(h)
      PROVE  HasJunk(h)
  <2>1. IInv' /\ (ListEffect \/ Content' = Content)
    BY <1>1, StepOnLists, StutterOnLists
  <2>2. HeapOK /\ HeapOK'
    BY <1>1, <2>1 DEF IInv
  <2> DEFINE Dirty(s) == \E k \in 1 .. Len(s) : s[k] = Junk
  <2>3. (HasJunk(h) <=> Dirty(Content[h])) /\ (HasJunk(h)' <=> Dirty(Content'[h]))
    BY <2>2, JunkIsInContent
  <2>4. PICK s : s = Content[h]
    OBVIOUS
  <2>5. PICK t : t = Content'[h]
    OBVIOUS
  <2>6. Dirty(t)
    BY <1>1, <2>3, <2>5
  <2>7. h \in Object /\ s \in Seq(Cell)
    BY <2>2, <2>4, ContentIsList DEF Object
  <2>8. Dirty(s)
    <3>1. PICK k \in 1 .. Len(t) : t[k] = Junk
      BY <2>6
    <3>2. CASE t = s
      BY <3>1, <3>2
    <3>3. t # <<>>
      BY <3>1, EmptySeq
    <3>4. CASE \E v \in Value : t = Append(s, v)
      <4>1. PICK v \in Value : t = Append(s, v)
        BY <3>4
      <4>2. v \in Cell /\ v # Junk
        BY JunkAssumption DEF Cell
      <4>3. /\ Len(t) = Len(s) + 1 /\ t[Len(s) + 1] = v
            /\ \A i \in 1 .. Len(s) : t[i] = s[i]
            /\ Len(s) \in Nat
        BY <2>7, <4>1, <4>2, AppendProperties, LenProperties
      <4> QED
        BY <3>1, <4>2, <4>3
    <3>5. CASE Stretched(h)
      <4>1. /\ pc = "swap" /\ h = self /\ rate \in Speed /\ rate[1] > 0
            /\ Len(t) = NewCount(Len(s), rate)
            /\ \A p \in 1 .. Len(t) :
                 Origin(p, rate) <= Len(s) => t[p] = s[Origin(p, rate)]
        BY <2>4, <2>5, <3>5 DEF Stretched, ResampledBy
      <4>2. Len(s) \in Nat /\ Len(s) = pos[h]
        BY <2>2, <2>4, <2>7, ContentIsList, LenProperties
      <4>3. StaysInList(Len(s), rate)
        BY <1>1, <4>1, <4>2 DEF TakesJunk
      <4>4. Origin(k, rate) \in 1 .. Len(s)
        BY <3>1, <4>1, <4>2, <4>3, OriginInReach
      <4> QED
        BY <3>1, <4>1, <4>4
    <3>6. CASE t \in Seq(Value)
      BY <3>1, <3>6, ElementOfSeq, JunkAssumption
    <3>7. CASE Content' = Content
      BY <2>4, <2>5, <3>2, <3>7
    <3>8. CASE ListEffect
      <4>1. CASE \A g \in Holder : Content'[g] = Content[g]
        BY <2>4, <2>5, <3>2, <4>1
      <4>2. CASE \A g \in Holder : Content'[g] = <<>>
        BY <2>5, <3>3, <4>2
      <4>3. ASSUME NEW g \in Holder, OnlyOf(g), g # h PROVE t = s
        BY <2>4, <2>5, <4>3 DEF OnlyOf
      <4>4. pc = "read" => h # self
        BY <1>1 DEF TakesJunk
      <4> QED
        BY <1>1, <2>4, <2>5, <3>2, <3>3, <3>4, <3>5, <3>6, <3>8, <4>1, <4>2, <4>3, <4>4
           DEF ListEffect
    <3> QED
      BY <2>1, <3>7, <3>8
  <2> QED
    BY <2>3, <2>4, <2>8
<1>2. IInv /\ [Next]_vars =>
        [\A h \in Holder : HasJunk(h)' => HasJunk(h) \/ TakesJunk(h)]_vars
  BY <1>1
<1> QED
  BY <1>2, IInvHolds, PTL DEF Spec, NoNewJunk

-----------------------------------------------------------------------------
(* The buffer implements the list.                                         *)
Lists == [h \in Holder |-> [k \in 1 .. pos[h] |-> Cells(h)[k]]]

LEMMA ListIsContent ==
  /\ \A h \in Holder : Lists[h] = Content[h]
  /\ \A h \in Holder : Lists'[h] = Content'[h]
<1>1. \A h \in Holder : h \in Object
  BY DEF Object
<1>2. ASSUME NEW h \in Holder PROVE Lists[h] = Content[h]
  <2>1. Lists[h] = [k \in 1 .. pos[h] |-> Cells(h)[k]]
    BY DEF Lists
  <2>2. Content[h] = [k \in 1 .. pos[h] |-> Held[h][k]] /\ Held[h] = Cells(h)
    BY <1>1 DEF Content, Held
  <2> QED
    BY <2>1, <2>2
<1>3. ASSUME NEW h \in Holder PROVE Lists'[h] = Content'[h]
  <2>1. Lists'[h] = [k \in 1 .. pos'[h] |-> Cells(h)'[k]]
    BY DEF Lists
  <2>2. Content'[h] = [k \in 1 .. pos'[h] |-> Held'[h][k]] /\ Held'[h] = Cells(h)'
    BY <1>1 DEF Content, Held
  <2> QED
    BY <2>1, <2>2
<1> QED
  BY <1>2, <1>3

(* Module SampleList means by resampling what this module does.            *)
LEMMA SameResampling ==
  ASSUME NEW t, NEW r, NEW e
  PROVE  ResampledBy(t, r, e) => List!ResampledBy(t, r, e)
BY DEF ResampledBy, NewCount, Origin, FrameOf, SourceOf,
       List!ResampledBy, List!NewCount, List!Origin, List!FrameOf, List!SourceOf

LEMMA SameClamp ==
  ASSUME NEW e
  PROVE  List!Clamped(e) = Clamped(e)
BY DEF Clamped, Faster, List!Clamped, List!Faster

LEMMA EffectIsListStep ==
  ASSUME IInv, IInv', ListEffect
  PROVE  [List!Next]_Lists
<1>1. DOMAIN Lists = Holder /\ DOMAIN Lists' = Holder
  BY DEF Lists
<1>2. /\ Lists = [h \in Holder |-> Lists[h]]
      /\ Lists' = [h \in Holder |-> Lists'[h]]
  BY DEF Lists
<1>3. CASE \A h \in Holder : Content'[h] = Content[h]
  <2>1. \A h \in Holder : Lists'[h] = Lists[h]
    BY <1>3, ListIsContent
  <2>2. Lists' = Lists
    BY <1>2, <2>1
  <2> QED
    BY <2>2
<1>4. CASE \A h \in Holder : Content'[h] = <<>>
  <2>1. \A h \in Holder : Lists'[h] = <<>>
    BY <1>4, ListIsContent
  <2>2. Lists' = [h \in Holder |-> <<>>]
    BY <1>2, <2>1
  <2> QED
    BY <2>2 DEF List!Next, List!Drop, Lists
<1>5. ASSUME NEW h \in Holder, OnlyOf(h),
             \/ Content'[h] = <<>>
             \/ \E v \in Value : Content'[h] = Append(Content[h], v)
             \/ Content[h] = <<>> /\ Content'[h] \in Seq(Cell)
             \/ Stretched(h)
             \/ Content'[h] \in Seq(Value) /\ Len(Content'[h]) = Len(Content[h])
      PROVE  List!Next
  <2>1. List!Only(h)
    <3>1. \A g \in Holder \ {h} : Lists'[g] = Lists[g]
      BY <1>5, ListIsContent DEF OnlyOf
    <3> QED
      BY <3>1 DEF List!Only, Lists
  <2>2. Lists[h] = Content[h] /\ Lists'[h] = Content'[h]
    BY ListIsContent
  <2>3. CASE Content'[h] = <<>>
    BY <2>1, <2>2, <2>3 DEF List!Next, List!Empty, Lists
  <2>4. CASE \E v \in Value : Content'[h] = Append(Content[h], v)
    <3>1. \E v \in Cell : Lists'[h] = Append(Lists[h], v)
      BY <2>2, <2>4 DEF Cell
    <3> QED
      BY <2>1, <3>1 DEF List!Next, List!Append1, Lists
  <2>5. CASE Content[h] = <<>> /\ Content'[h] \in Seq(Cell)
    BY <2>1, <2>2, <2>5 DEF List!Next, List!Load, Lists
  <2>6. CASE Stretched(h)
    <3>1. PICK d \in Rates : rate = Clamped(d)
      BY <2>6 DEF Stretched, Asked
    <3>2. Lists'[h] \in Seq(Cell) /\ ResampledBy(Lists'[h], Lists[h], Clamped(d))
      BY <2>2, <2>6, <3>1 DEF Stretched
    <3>3. List!ResampledBy(Lists'[h], Lists[h], List!Clamped(d))
      BY <3>2, SameResampling, SameClamp
    <3>4. List!Resample(h)
      BY <2>1, <3>2, <3>3 DEF List!Resample, Lists
    <3> QED
      BY <3>4 DEF List!Next, Lists
  <2>7. CASE Content'[h] \in Seq(Value) /\ Len(Content'[h]) = Len(Content[h])
    <3>1. \A s \in Seq(Value) : s \in Seq(Cell)
      BY SeqDef DEF Cell
    <3>2. Lists'[h] \in Seq(Cell) /\ Len(Lists'[h]) = Len(Lists[h])
      BY <2>2, <2>7, <3>1
    <3> QED
      BY <2>1, <3>2 DEF List!Next, List!Reshape, Lists
  <2> QED
    BY <1>5, <2>3, <2>4, <2>5, <2>6, <2>7
<1> QED
  BY <1>3, <1>4, <1>5 DEF ListEffect

(* Audio is a list of samples of its own (module SampleList): whatever     *)
(* malloc returns, an operation on one Audio changes that list alone, and  *)
(* to what the operation is for.                                           *)
THEOREM AudioIsList == Spec => ImplementsSampleList
<1>1. Init => List!Init
  <2> SUFFICES ASSUME Init PROVE List!Init
    OBVIOUS
  <2>1. \A h \in Holder : Lists[h] = <<>>
    BY InitIsIInv, ListIsContent
  <2>2. Lists = [h \in Holder |-> <<>>]
    BY <2>1 DEF Lists
  <2> QED
    BY <2>2 DEF List!Init, Lists
<1>2. IInv /\ [Next]_vars => [List!Next]_Lists
  <2> SUFFICES ASSUME IInv, [Next]_vars PROVE [List!Next]_Lists
    OBVIOUS
  <2>1. CASE Next
    BY <2>1, StepOnLists, EffectIsListStep
  <2>2. CASE UNCHANGED vars
    <3>1. UNCHANGED <<live, cell, samples, samplesize, pos>>
      BY <2>2 DEF vars
    <3>2. Lists' = Lists
      BY <3>1 DEF Lists, Cells
    <3> QED
      BY <3>2
  <2> QED
    BY <2>1, <2>2
<1>3. IInv /\ [Next]_vars =>
        [List!Next]_([h \in Holder |-> [k \in 1 .. pos[h] |-> Cells(h)[k]]])
  BY <1>2 DEF Lists
<1> QED
  BY <1>1, <1>3, IInvHolds, PTL DEF Spec, ImplementsSampleList, List!Spec
=============================================================================
