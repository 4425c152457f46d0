--------------------------- MODULE SaveFileProofs ---------------------------
(***************************************************************************)
(* Proofs about SaveFile, for buffers and pieces of any size, and about    *)
(* SndFile, for pieces, headers, disks and encoders of any size: the       *)
(* promise SaveFile relies on is kept by the library.                      *)
(***************************************************************************)
EXTENDS SaveFile, SndFile, NatFacts, TLAPS

(* As long as nothing was lost the file is a prefix of what was handed     *)
(* over, and what was handed over is a prefix of the buffer.               *)
Prefixes ==
  /\ stream = Positions(0, handed)
  /\ disk # "relieved" => file = Positions(0, Len(file)) /\ Len(file) <= handed

(* The loop's index stands between two frames as long as there is more to  *)
(* write (the pieces before the last one are even) and goes together with  *)
(* what was accepted; a WAV file keeps up with it.                         *)
LoopInv ==
  /\ pc = "open" =>
       handle = "unopened" /\ i = 0 /\ handed = 0 /\ good /\ file = <<>> /\ disk = "fits"
  /\ pc \in {"loop", "write"} =>
       /\ good /\ i % 2 = 0
       /\ \/ handle = "null" /\ ~opened /\ i = 0 /\ handed = 0 /\ file = <<>>
          \/ handle \in {"open", "crashed"} /\ opened
  /\ pc = "loop" =>
       /\ handle # "crashed"
       /\ handle = "open" => handed = i
       /\ format = "wav" /\ disk # "relieved" => Len(file) = handed
  /\ pc = "write" =>
       /\ i < sample /\ asked = nchunk
       /\ handle # "null" => handed = IF asked % 2 = 0 THEN i + asked ELSE i
  /\ pc # "write" => asked = 0 /\ handle # "crashed"

(* The result is decided before the file is closed, and true afterwards.   *)
ResultInv ==
  /\ pc = "destroy" => handle \in {"null", "open"}
  /\ pc = "destroying" => handle \in {"closing", "closed"}
  /\ pc = "returned" => handle = "closed"
  /\ handle = "closed" /\ disk = "fits" => Len(file) = handed
  /\ handle = "null" => file = <<>> /\ handed = 0
  /\ pc \in {"destroy", "destroying", "returned"} =>
       /\ result => /\ handed = sample
                    /\ format = "wav" /\ disk # "relieved" => Len(file) = handed
       /\ ~result => ~opened \/ disk # "fits" \/ sample % 2 # 0

PcOK == pc \in {"open", "loop", "write", "destroy", "destroying", "returned"}

IInv == TypeOK /\ PcOK /\ Prefixes /\ LoopInv /\ ResultInv

-----------------------------------------------------------------------------

(* Consecutive stretches make one stretch.                                 *)
LEMMA PositionsJoin ==
  ASSUME NEW n \in Nat, NEW r \in Nat
  PROVE  Positions(0, n) \o Positions(n, n + r) = Positions(0, n + r)
  BY DEF Positions

LEMMA PositionsType ==
  ASSUME NEW n \in Nat, NEW m \in Nat, n <= m
  PROVE  /\ Positions(n, m) \in Seq(Nat)
         /\ Len(Positions(n, m)) = m - n
         /\ \A k \in 1 .. m - n : Positions(n, m)[k] = n + k - 1
<1>1. Positions(n, m) = [k \in 1 .. m - n |-> n + k - 1]
  BY DEF Positions
<1>2. m - n \in Nat /\ \A k \in 1 .. m - n : n + k - 1 \in Nat
  OBVIOUS
<1> QED
  BY <1>1, <1>2

LEMMA SumOfEven ==
  ASSUME NEW m \in Nat, NEW n \in Nat, m % 2 = 0, n % 2 = 0
  PROVE  (m + n) % 2 = 0
  OBVIOUS

(* A piece is not empty, does not go beyond the buffer, and ends between   *)
(* two frames unless it is the last one of an odd buffer.                  *)
LEMMA PieceFits ==
  ASSUME sample \in Nat, i \in 0 .. sample, i < sample, i % 2 = 0
  PROVE  /\ nchunk \in Nat \ {0} /\ i + nchunk <= sample
         /\ nchunk % 2 # 0 => sample % 2 # 0
  BY ChunkAssumption DEF nchunk

LEMMA Initially == Init => IInv
<1> SUFFICES ASSUME Init PROVE IInv
  OBVIOUS
<1>1. /\ file = <<>> /\ i = 0 /\ pc = "open" /\ result = FALSE /\ opened = FALSE /\ stream = <<>>
      /\ handle = "unopened" /\ handed = 0 /\ asked = 0 /\ good = TRUE /\ disk = "fits"
      /\ format \in Formats
  BY DEF Init, S!Init, S!Formats, Formats
<1>2. Positions(0, 0) = <<>>
  BY DEF Positions
<1>3. file \in Seq(Nat) /\ Len(file) = 0 /\ sample \in Nat
  BY <1>1 DEF Init
<1>4. TypeOK /\ PcOK
  <2>1. good \in BOOLEAN /\ opened \in BOOLEAN /\ result \in BOOLEAN
    BY <1>1, Zenon
  <2>2. handed \in Nat /\ asked \in Nat /\ i \in 0 .. sample
    BY <1>1, <1>3
  <2>3. disk \in {"fits", "full", "relieved"} /\ format \in Formats /\ PcOK
    BY <1>1 DEF PcOK
  <2> QED
    BY <2>1, <2>2, <2>3, <1>3, Zenon DEF TypeOK
<1>5. Prefixes
  BY <1>1, <1>2, <1>3 DEF Prefixes
<1>6. LoopInv /\ ResultInv
  BY <1>1, <1>3 DEF LoopInv, ResultInv
<1> QED
  BY <1>4, <1>5, <1>6 DEF IInv

-----------------------------------------------------------------------------
(* The steps of the loop.                                                  *)

LEMMA OpenKeeps == IInv /\ Open => IInv'
<1> SUFFICES ASSUME IInv, Open PROVE IInv'
  OBVIOUS
<1>1. /\ pc = "open" /\ pc' = "loop" /\ handle' \in {"null", "open"} /\ disk' \in {"fits", "full"}
      /\ opened' = (handle' = "open") /\ handle = "unopened"
      /\ UNCHANGED <<sample, i, stream, result, format, handed, asked, good, file>>
  BY DEF Open, S!Open, IInv, LoopInv
<1>2. /\ i = 0 /\ handed = 0 /\ good /\ file = <<>> /\ disk = "fits" /\ asked = 0
  BY <1>1 DEF IInv, LoopInv
<1>3. Len(file) = 0
  BY <1>2
<1>4. TypeOK' /\ Prefixes'
  BY <1>1, <1>2, <1>3 DEF IInv, TypeOK, Prefixes
<1>5. asked' = 0 /\ i' = 0 /\ handed' = 0 /\ good' /\ file' = <<>> /\ Len(file') = 0
  BY <1>1, <1>2, <1>3
<1>6. LoopInv'
  <2>1. CASE handle' = "null"
    <3>1. ~opened'
      BY <2>1, <1>1
    <3> QED
      BY <3>1, <2>1, <1>1, <1>5 DEF LoopInv
  <2>2. CASE handle' = "open"
    <3>1. opened'
      BY <2>2, <1>1
    <3> QED
      BY <3>1, <2>2, <1>1, <1>5 DEF LoopInv
  <2> QED
    BY <2>1, <2>2, <1>1
<1>7. ResultInv' /\ PcOK'
  BY <1>1, <1>5 DEF ResultInv, PcOK
<1> QED
  BY <1>4, <1>6, <1>7 DEF IInv

LEMMA WriteKeeps == IInv /\ Write => IInv'
<1> SUFFICES ASSUME IInv, Write PROVE IInv'
  OBVIOUS
<1>1. /\ pc = "loop" /\ i < sample /\ pc' = "write" /\ asked' = nchunk
      /\ handed' = IF handle = "open" /\ nchunk % 2 = 0 THEN handed + nchunk ELSE handed
      /\ stream' = IF handed' = handed THEN stream ELSE stream \o Piece
      /\ UNCHANGED <<sample, i, opened, result, format, handle, good, file, disk>>
  BY DEF Write, S!Call
<1>2. /\ sample \in Nat /\ i \in 0 .. sample /\ i % 2 = 0 /\ handed \in Nat
      /\ handle \in {"null", "open"} /\ (handle = "open" => handed = i)
      /\ stream = Positions(0, handed)
  BY <1>1 DEF IInv, TypeOK, LoopInv, Prefixes
<1>3. nchunk \in Nat \ {0} /\ i + nchunk <= sample
  BY <1>1, <1>2, PieceFits
<1>4. handed' \in Nat /\ handed <= handed' /\ (handle = "open" /\ nchunk % 2 = 0 => handed' = handed + nchunk)
  BY <1>1, <1>2, <1>3
<1>5. stream' = Positions(0, handed')
  <2>1. CASE handed' = handed
    BY <2>1, <1>1, <1>2
  <2>2. CASE handed' # handed
    <3>1. handle = "open" /\ handed' = handed + nchunk /\ handed = i
      BY <2>2, <1>1, <1>2
    <3>2. stream' = Positions(0, i) \o Positions(i, i + nchunk)
      BY <2>2, <3>1, <1>1, <1>2 DEF Piece
    <3>3. i \in Nat /\ nchunk \in Nat
      BY <1>2, <1>3
    <3>4. Positions(0, i) \o Positions(i, i + nchunk) = Positions(0, i + nchunk)
      BY <3>3, PositionsJoin
    <3> QED
      BY <3>1, <3>2, <3>4
  <2> QED
    BY <2>1, <2>2
<1>6. nchunk' = nchunk
  BY <1>1 DEF nchunk
<1>7. TypeOK'
  BY <1>1, <1>2, <1>3, <1>4 DEF IInv, TypeOK
<1>8. Prefixes'
  <2>1. Len(file) \in Nat /\ file' = file /\ disk' = disk
    BY <1>1 DEF IInv, TypeOK
  <2>2. disk # "relieved" => file = Positions(0, Len(file)) /\ Len(file) <= handed
    BY DEF IInv, Prefixes
  <2>3. Len(file) <= handed => Len(file) <= handed'
    BY <2>1, <1>2, <1>4
  <2> QED
    BY <2>1, <2>2, <2>3, <1>5 DEF Prefixes
<1>9. LoopInv'
  BY <1>1, <1>2, <1>3, <1>4, <1>6 DEF IInv, LoopInv
<1>10. ResultInv' /\ PcOK'
  BY <1>1, <1>2, <1>4 DEF IInv, ResultInv, PcOK
<1> QED
  BY <1>7, <1>8, <1>9, <1>10 DEF IInv

LEMMA CheckKeeps == IInv /\ CheckCount => IInv'
<1> SUFFICES ASSUME IInv, CheckCount PROVE IInv'
  OBVIOUS
<1> PICK r \in 0 .. asked :
      /\ S!Return(r)
      /\ IF r # nchunk
         THEN pc' = "destroy" /\ result' = FALSE /\ UNCHANGED i
         ELSE i' = i + nchunk /\ pc' = "loop" /\ UNCHANGED result
  BY DEF CheckCount
<1>1. /\ pc = "write" /\ asked' = 0 /\ good' = (r = asked) /\ handle \in {"null", "open"}
      /\ UNCHANGED <<sample, stream, opened, format, handle, handed, file, disk>>
      /\ \/ (handle = "null" \/ asked % 2 # 0) /\ r = 0
         \/ handle = "open" /\ asked % 2 = 0 /\ S!Takes(r)
  BY DEF CheckCount, S!Return
<1>2. /\ sample \in Nat /\ i \in 0 .. sample /\ i % 2 = 0 /\ i < sample /\ asked = nchunk
      /\ handed \in Nat /\ file \in Seq(Nat)
      /\ (handle # "null" => opened /\ handed = IF asked % 2 = 0 THEN i + asked ELSE i)
      /\ \/ handle = "null" /\ ~opened /\ i = 0 /\ handed = 0 /\ file = <<>>
         \/ handle \in {"open", "crashed"} /\ opened
  BY <1>1 DEF IInv, TypeOK, LoopInv
<1>3. /\ nchunk \in Nat \ {0} /\ i + nchunk <= sample
      /\ nchunk % 2 # 0 => sample % 2 # 0
  BY <1>2, PieceFits
<1>4. Prefixes' /\ PcOK'
  BY <1>1 DEF IInv, Prefixes, PcOK
<1>5. CASE r = nchunk
  <2>1. handle = "open" /\ asked % 2 = 0 /\ S!Takes(r) /\ handed = i + nchunk
    BY <1>1, <1>2, <1>3, <1>5
  <2>2. i' = i + nchunk /\ pc' = "loop" /\ result' = result /\ good'
    BY <1>1, <1>2, <1>5
  <2>3. i' \in 0 .. sample /\ i' % 2 = 0
    BY <2>1, <2>2, <1>2, <1>3, SumOfEven
  <2>4. format = "wav" /\ disk # "relieved" => Len(file) = handed
    BY <2>1, <1>2, <1>5 DEF S!Takes
  <2>5. TypeOK'
    BY <2>2, <2>3, <1>1, <1>2 DEF IInv, TypeOK
  <2>6. LoopInv' /\ ResultInv'
    BY <2>1, <2>2, <2>3, <2>4, <1>1, <1>2 DEF IInv, LoopInv, ResultInv
  <2> QED
    BY <2>5, <2>6, <1>4 DEF IInv
<1>6. CASE r # nchunk
  <2>1. pc' = "destroy" /\ result' = FALSE /\ i' = i
    BY <1>6
  <2>2. ~opened \/ disk # "fits" \/ sample % 2 # 0
    <3>1. CASE handle = "open" /\ asked % 2 = 0 /\ S!Takes(r)
      BY <3>1, <1>2, <1>6 DEF S!Takes
    <3>2. CASE handle = "null" \/ asked % 2 # 0
      BY <3>2, <1>2, <1>3
    <3> QED
      BY <3>1, <3>2, <1>1
  <2>3. handle \in {"null", "open"}
    BY <1>1
  <2>4. TypeOK'
    BY <2>1, <1>1, <1>2 DEF IInv, TypeOK
  <2>5. LoopInv' /\ ResultInv'
    BY <2>1, <2>2, <2>3, <1>1, <1>2 DEF IInv, LoopInv, ResultInv
  <2> QED
    BY <2>4, <2>5, <1>4 DEF IInv
<1> QED
  BY <1>5, <1>6

LEMMA ReturnTrueKeeps == IInv /\ ReturnTrue => IInv'
<1> SUFFICES ASSUME IInv, ReturnTrue PROVE IInv'
  OBVIOUS
<1>1. /\ pc = "loop" /\ i >= sample /\ result' = TRUE /\ pc' = "destroy"
      /\ UNCHANGED <<library, sample, i, stream, opened>>
  BY DEF ReturnTrue
<1>2. i = sample /\ handle \in {"null", "open"}
  BY <1>1 DEF IInv, TypeOK, LoopInv
<1>3. handed = sample
  BY <1>1, <1>2 DEF IInv, LoopInv
<1> QED
  BY <1>1, <1>2, <1>3 DEF IInv, TypeOK, PcOK, Prefixes, LoopInv, ResultInv, library

LEMMA DestroyKeeps == IInv /\ Destroy => IInv'
<1> SUFFICES ASSUME IInv, Destroy PROVE IInv'
  OBVIOUS
<1>1. /\ pc = "destroy" /\ pc' = "destroying" /\ handle \in {"null", "open"}
      /\ handle' = IF handle = "open" THEN "closing" ELSE "closed"
      /\ UNCHANGED <<sample, i, stream, opened, result, format, handed, asked, good, file, disk>>
  BY DEF Destroy, S!Close
<1>2. handle = "null" => Len(file) = handed
  BY DEF IInv, ResultInv
<1> QED
  BY <1>1, <1>2 DEF IInv, TypeOK, PcOK, Prefixes, LoopInv, ResultInv

LEMMA LeaveKeeps == IInv /\ Leave => IInv'
  BY DEF Leave, IInv, TypeOK, PcOK, Prefixes, LoopInv, ResultInv, library, nchunk

-----------------------------------------------------------------------------
(* What the library does by itself.                                        *)

LEMMA StoreKeeps == IInv /\ Inside /\ S!Store => IInv'
<1> SUFFICES ASSUME IInv, Inside, S!Store PROVE IInv'
  OBVIOUS
<1> PICK m \in Len(file) .. handed : file' = Positions(0, m)
  BY DEF S!Store, S!Positions, Positions
<1>1. /\ handle = "closing" \/ (handle = "open" /\ asked > 0)
      /\ disk = "fits" /\ disk' \in {"fits", "full"}
      /\ UNCHANGED <<format, handle, handed, asked, good, sample, i, stream, opened, result, pc>>
  BY DEF S!Store, Inside
<1>2. Len(file) \in Nat /\ handed \in Nat
  BY DEF IInv, TypeOK
<1>3. m \in Nat /\ m <= handed /\ Len(file) <= m
  BY <1>2
<1>4. file' \in Seq(Nat) /\ Len(file') = m
  BY <1>3, PositionsType
<1>5. Len(file) = handed => m = handed
  BY <1>2, <1>3
<1>6. TypeOK' /\ Prefixes' /\ PcOK'
  BY <1>1, <1>3, <1>4 DEF IInv, TypeOK, Prefixes, PcOK
<1>7. pc \in {"write", "destroying"}
  BY <1>1 DEF IInv, PcOK, LoopInv, ResultInv
<1>8. LoopInv'
  BY <1>1, <1>7 DEF IInv, LoopInv, nchunk
<1>9. ResultInv'
  BY <1>1, <1>4, <1>5, <1>7 DEF IInv, ResultInv
<1> QED
  BY <1>6, <1>8, <1>9 DEF IInv

LEMMA StoreAnyhowKeeps == IInv /\ Inside /\ S!StoreAnyhow => IInv'
<1> SUFFICES ASSUME IInv, Inside, S!StoreAnyhow PROVE IInv'
  OBVIOUS
<1> PICK kept \in {<<>>, file}, m \in 0 .. handed :
      \E k \in m .. handed :
        /\ \A p \in DOMAIN kept : kept[p] < m
        /\ file' = kept \o Positions(m, k)
  BY DEF S!StoreAnyhow, S!Positions, Positions
<1> PICK k \in m .. handed : file' = kept \o Positions(m, k)
  OBVIOUS
<1>1. /\ handle = "closing" \/ (handle = "open" /\ asked > 0)
      /\ disk = "relieved" /\ disk' = disk
      /\ UNCHANGED <<format, handle, handed, asked, good, sample, i, stream, opened, result, pc>>
  BY DEF S!StoreAnyhow, Inside
<1> handed \in Nat /\ file \in Seq(Nat)
  BY DEF IInv, TypeOK
<1>2. kept \in Seq(Nat) /\ m \in Nat /\ k \in Nat /\ m <= k
  <2>1. kept \in Seq(Nat)
    <3>1. CASE kept = file
      BY <3>1
    <3>2. CASE kept = <<>>
      BY <3>2
    <3> QED
      BY <3>1, <3>2
  <2>2. m \in Nat /\ k \in Nat /\ m <= k
    OBVIOUS
  <2> QED
    BY <2>1, <2>2
<1>3. Positions(m, k) \in Seq(Nat)
  BY <1>2, PositionsType
<1>4. file' \in Seq(Nat)
  BY <1>2, <1>3
<1>5. pc \in {"write", "destroying"}
  BY <1>1 DEF IInv, PcOK, LoopInv, ResultInv
<1> QED
  BY <1>1, <1>4, <1>5 DEF IInv, TypeOK, PcOK, Prefixes, LoopInv, ResultInv, nchunk

LEMMA RelieveKeeps == IInv /\ Inside /\ S!Relieve => IInv'
  BY DEF Inside, S!Relieve, IInv, TypeOK, PcOK, Prefixes, LoopInv, ResultInv, nchunk

LEMMA CrashKeeps == IInv /\ Inside /\ S!Crash => IInv'
<1> SUFFICES ASSUME IInv, Inside, S!Crash PROVE IInv'
  OBVIOUS
<1>1. /\ handle = "open" /\ asked > 0 /\ handle' = "crashed"
      /\ UNCHANGED <<format, handed, asked, good, file, disk, sample, i, stream, opened, result, pc>>
  BY DEF Inside, S!Crash
<1>2. pc = "write"
  BY <1>1 DEF IInv, LoopInv
<1> QED
  BY <1>1, <1>2 DEF IInv, TypeOK, PcOK, Prefixes, LoopInv, ResultInv, nchunk

LEMMA ClosedKeeps == IInv /\ Inside /\ S!Closed => IInv'
<1> SUFFICES ASSUME IInv, Inside, S!Closed PROVE IInv'
  OBVIOUS
<1>1. /\ handle = "closing" /\ handle' = "closed" /\ (disk = "fits" => Len(file) = handed)
      /\ UNCHANGED <<format, handed, asked, good, file, disk, sample, i, stream, opened, result, pc>>
  BY DEF Inside, S!Closed
<1>2. pc = "destroying"
  BY <1>1 DEF IInv, PcOK, LoopInv, ResultInv
<1> QED
  BY <1>1, <1>2 DEF IInv, TypeOK, PcOK, Prefixes, LoopInv, ResultInv

LEMMA StepKeeps == IInv /\ [Next]_vars => IInv'
<1> SUFFICES ASSUME IInv, [Next]_vars PROVE IInv'
  OBVIOUS
<1>1. CASE Inside
  BY <1>1, StoreKeeps, StoreAnyhowKeeps, RelieveKeeps, CrashKeeps, ClosedKeeps DEF Inside, S!Inside
<1>2. CASE UNCHANGED vars
  BY <1>2 DEF vars, library, IInv, TypeOK, PcOK, Prefixes, LoopInv, ResultInv, nchunk
<1> QED
  BY <1>1, <1>2, OpenKeeps, WriteKeeps, CheckKeeps, ReturnTrueKeeps, DestroyKeeps, LeaveKeeps DEF Next

LEMMA Inductive == Spec => []IInv
<1> QED
  BY Initially, StepKeeps, PTL DEF Spec

-----------------------------------------------------------------------------

LEMMA PrefixOfBuffer == IInv => HoldsPrefix
<1> SUFFICES ASSUME IInv, disk # "relieved" PROVE Music = Positions(0, Len(file))
  BY DEF HoldsPrefix
<1> DEFINE n == Len(file)
<1>1. n \in Nat /\ handed \in Nat /\ n <= handed /\ file = Positions(0, n) /\ stream = Positions(0, handed)
  BY DEF IInv, TypeOK, Prefixes
<1> HIDE DEF n
<1>2. DOMAIN file = 1 .. n /\ \A k \in 1 .. n : file[k] = k - 1
  BY <1>1 DEF Positions
<1>3. \A k \in 1 .. n : stream[k] = k - 1
  BY <1>1 DEF Positions
<1>4. \A k \in 1 .. n : stream[file[k] + 1] = k - 1
  BY <1>1, <1>2, <1>3
<1>5. Music = [k \in 1 .. n |-> k - 1]
  BY <1>2, <1>4 DEF Music
<1>6. Positions(0, n) = [k \in 1 .. n |-> k - 1]
  BY <1>1 DEF Positions
<1> QED
  BY <1>5, <1>6 DEF n

(* The file holds a prefix of the music at every moment of SaveFile        *)
(* (audio.cpp:62-71) and of what the encoders write on closing, for every  *)
(* buffer, format and size of the pieces, unless a full disk is relieved.  *)
THEOREM FileHoldsPrefix == Spec => []HoldsPrefix
<1> QED
  BY PrefixOfBuffer, Inductive, PTL

(* The value SaveFile returns (audio.cpp:66-73) is true of the file up to  *)
(* what the encoders lose after it is decided, and a failure has a cause   *)
(* outside the loop unless the music ends in mid-frame.                    *)
THEOREM ReturnIsHonest == Spec => []ResultIsHonest
<1>1. IInv => ResultIsHonest
  BY DEF IInv, TypeOK, ResultInv, ResultIsHonest
<1> QED
  BY <1>1, Inductive, PTL

-----------------------------------------------------------------------------
(* The library.                                                            *)

(* The bytes of a file.                                                    *)
Bytes == ({"h"} \X Nat) \cup ({"s"} \X Nat) \cup ({"p"} \X Nat \X Nat)

LibType ==
  /\ format \in Formats
  /\ handle \in {"unopened", "null", "open", "closing", "closed", "crashed"}
  /\ tagged \in BOOLEAN /\ have_written \in BOOLEAN /\ good \in BOOLEAN
  /\ encoder \in {"none", "ready", "failed"}
  /\ disk \in {"fits", "full", "relieved"}
  /\ write_current \in Nat /\ paged \in Nat /\ count \in Nat /\ handed \in Nat /\ asked \in Nat
  /\ pos \in Nat /\ room \in Nat
  /\ bytes \in Seq(Bytes) /\ queue \in Seq(Seq(Bytes))
  /\ at \in {"idle", "header", "samples", "return", "close", "finish", "fclose"}

(* What a call may count on, wherever it is.                               *)
CallInv ==
  /\ at = "idle" => asked = 0 /\ handle \in {"unopened", "null", "open", "closed"}
  /\ at \in {"header", "samples"} =>
       handle \in {"open", "crashed"} /\ asked > 0 /\ asked % 2 = 0 /\ asked <= handed /\ good
  /\ at = "header" => ~have_written /\ handle = "open"
  /\ at = "samples" => have_written
  /\ at = "return" =>
       /\ handle \in {"null", "open"} /\ asked > 0 /\ count <= asked
       /\ handle = "null" \/ asked % 2 # 0 => count = 0
       /\ handle = "open" /\ asked % 2 = 0 => have_written
  /\ at \in {"close", "finish", "fclose"} => handle = "closing" /\ asked = 0
  /\ handle = "crashed" => format = "flac" /\ encoder = "none" /\ at = "samples"
  /\ handle = "unopened" => bytes = <<>> /\ pos = 0 /\ disk = "fits" /\ good
  /\ handle \in {"unopened", "null"} => ~have_written /\ ~tagged
  /\ ~have_written => handed = IF at = "header" THEN asked ELSE 0
  /\ disk = "full" => room = 0
  /\ paged <= handed /\ handed % 2 = 0

(* A WAV file is a bytes of header that claim c frames, and then the bytes *)
(* of consecutive samples; sample 0 would be behind the first o bytes.     *)
WavShape(bs, a, o, c) ==
  /\ \A k \in 1 .. a : bs[k] = <<"h", c>>
  /\ \A k \in a + 1 .. Len(bs) : bs[k] = <<"s", (k - 1 - o) \div 2>>

(* The position is at the end, where sample n belongs.                     *)
InStep(o, n) == pos = Len(bytes) /\ Len(bytes) = o + 2 * n

Wav(a, o, c) ==
  /\ WavShape(bytes, a, o, c)
  /\ a <= HeaderSize
  /\ a = Len(bytes) \/ Len(bytes) <= o + 2 * handed
  /\ ~have_written => a = Len(bytes)
  /\ at = "samples" => InStep(o, handed - asked)
  /\ at = "idle" /\ handle = "open" /\ good /\ have_written => InStep(o, handed)
  /\ at = "return" /\ handle = "open" /\ count = asked => InStep(o, handed)
  /\ disk = "fits" =>
       /\ handle \notin {"unopened", "null"} =>
            Len(bytes) = a + 2 * (IF at \in {"header", "samples"} THEN handed - asked ELSE handed)
       /\ at = "return" /\ handle = "open" /\ asked % 2 = 0 => count = asked
  /\ disk # "relieved" =>
       /\ a < Len(bytes) => o = a
       /\ have_written /\ a < Len(bytes) => a = HeaderSize
       /\ have_written /\ disk = "fits" => a = HeaderSize
       /\ 4 * write_current <= Len(bytes) - a
       /\ c = IF at = "fclose" \/ handle = "closed" THEN write_current ELSE 0
  /\ disk = "full" => (at = "return" /\ handle = "open" => count < asked)

WavInv ==
  format = "wav" =>
    /\ encoder = "none" /\ paged = 0 /\ queue = <<>>
    /\ handle = "open" /\ ~have_written => disk = "fits"
    /\ handle = "null" => write_current = 0
    /\ at # "finish"
    /\ \E a \in 0 .. Len(bytes) : \E o \in 0 .. a : \E c \in Nat : Wav(a, o, c)

(* What is in the queue: pages up to sample f are behind it.               *)
QueueIs(f) ==
  \/ f = paged /\ queue = <<>>
  \/ f = paged /\ queue \in {OggHeader, <<Header(PlainHeader, 0)>>} /\ format = "ogg"
  \/ f < paged /\ queue = Page(f, paged)
  \/ f < paged /\ queue = <<PageBody(f, paged)>> /\ format = "ogg"

(* The head of the page whose body is about to be written is the last byte.*)
HeadIsLast(f, k) == k = Len(bytes) /\ f < paged /\ queue = <<PageBody(f, paged)>> /\ bytes[k] = <<"p", f, paged>>

Codec(f) ==
  /\ QueueIs(f)
  /\ \A k \in 1 .. Len(bytes) : bytes[k][1] = "p" => bytes[k][3] <= f \/ HeadIsLast(f, k)
  /\ \A j \in DOMAIN InFile : InFile[j] < f
  /\ \A j, k \in DOMAIN InFile : j < k => InFile[j] < InFile[k]
  /\ disk = "fits" =>
       /\ InFile = Positions(0, f)
       /\ f < paged /\ queue = <<PageBody(f, paged)>> /\ format = "ogg" => bytes # <<>> /\ HeadIsLast(f, Len(bytes))

CodecInv ==
  format # "wav" =>
    /\ pos = Len(bytes)
    /\ queue # <<>> => at \in {"samples", "finish"}
    /\ \E f \in 0 .. paged : Codec(f)

FlacInv ==
  format = "flac" =>
    /\ encoder # "ready" => queue = <<>>
    /\ disk # "fits" <=> have_written /\ encoder # "ready"
    /\ disk = "fits" => encoder # "failed"
    /\ encoder = "none" => paged = 0
    /\ encoder # "none" => have_written
    /\ at = "return" /\ handle = "open" /\ asked % 2 = 0 =>
         IF encoder = "ready" THEN count = asked ELSE count < asked
    /\ at = "fclose" => encoder # "ready"

OggInv ==
  format = "ogg" =>
    /\ encoder = "none"
    /\ at = "return" /\ handle = "open" /\ asked % 2 = 0 => count = asked
    /\ at # "fclose"

LibInv == LibType /\ CallInv /\ WavInv /\ CodecInv /\ FlacInv /\ OggInv

-----------------------------------------------------------------------------
(* What is read from the bytes: the recursive function of SamplesAt.       *)

IsReading(u, H, bs, N) ==
  u = [n \in 0 .. N |-> IF n = 0 THEN <<>>
                        ELSE IF n \in H THEN Append(u[n - 1], bs[n][2]) ELSE u[n - 1]]

(* The samples of the places in H are numbers.                             *)
Readable(H, bs, N) == \A n \in 1 .. N : n \in H => bs[n][2] \in Nat

(* Two files agree on their first N bytes, as far as they are read.        *)
ReadAlike(H, bs, G, cs, N) ==
  \A n \in 1 .. N : (n \in H <=> n \in G) /\ (n \in H => bs[n][2] = cs[n][2])

(* What is read of bytes up to n: the recursive function of SamplesAt is   *)
(* total.                                                                  *)
LEMMA ReadingExists ==
  ASSUME NEW N \in Nat, NEW H, NEW bs, Readable(H, bs, N)
  PROVE  \E u \in [0 .. N -> Seq(Nat)] : IsReading(u, H, bs, N)
<1> DEFINE T == {m \in Nat : m <= N => \E u \in [0 .. m -> Seq(Nat)] : IsReading(u, H, bs, m)}
<1>1. 0 \in T
  <2>1. [n \in 0 .. 0 |-> <<>>] \in [0 .. 0 -> Seq(Nat)]
    OBVIOUS
  <2>2. IsReading([n \in 0 .. 0 |-> <<>>], H, bs, 0)
    BY DEF IsReading
  <2> QED
    BY <2>1, <2>2
<1>2. ASSUME NEW m \in Nat, m \in T PROVE m + 1 \in T
  <2> SUFFICES ASSUME m + 1 <= N
               PROVE  \E u \in [0 .. m + 1 -> Seq(Nat)] : IsReading(u, H, bs, m + 1)
    OBVIOUS
  <2>1. PICK u \in [0 .. m -> Seq(Nat)] : IsReading(u, H, bs, m)
    BY <1>2
  <2> DEFINE v == [n \in 0 .. m + 1 |-> IF n <= m THEN u[n]
                                        ELSE IF n \in H THEN Append(u[m], bs[n][2]) ELSE u[m]]
  <2>2. u[m] \in Seq(Nat) /\ (m + 1 \in H => bs[m + 1][2] \in Nat)
    BY <2>1 DEF Readable
  <2>3. v \in [0 .. m + 1 -> Seq(Nat)]
    BY <2>1, <2>2
  <2>4. \A n \in 0 .. m : u[n] = IF n = 0 THEN <<>>
                                 ELSE IF n \in H THEN Append(u[n - 1], bs[n][2]) ELSE u[n - 1]
    BY <2>1 DEF IsReading
  <2>5. \A n \in 0 .. m + 1 : v[n] = IF n = 0 THEN <<>>
                                     ELSE IF n \in H THEN Append(v[n - 1], bs[n][2]) ELSE v[n - 1]
    <3> SUFFICES ASSUME NEW n \in 0 .. m + 1
                 PROVE  v[n] = IF n = 0 THEN <<>>
                               ELSE IF n \in H THEN Append(v[n - 1], bs[n][2]) ELSE v[n - 1]
      OBVIOUS
    <3>1. CASE n <= m
      <4>1. v[n] = u[n] /\ (n # 0 => v[n - 1] = u[n - 1]) /\ n \in 0 .. m
        BY <3>1
      <4> HIDE DEF v
      <4> QED
        BY <4>1, <2>4
    <3>2. CASE n = m + 1
      <4>1. v[n - 1] = u[m] /\ n # 0
        BY <3>2
      <4>2. v[n] = IF n \in H THEN Append(u[m], bs[n][2]) ELSE u[m]
        BY <3>2
      <4> HIDE DEF v
      <4> QED
        BY <4>1, <4>2
    <3> QED
      BY <3>1, <3>2
  <2>6. IsReading(v, H, bs, m + 1)
    BY <2>3, <2>5 DEF IsReading
  <2> QED
    BY <2>3, <2>6
<1>3. \A m \in Nat : m \in T
  <2> HIDE DEF T
  <2> QED
    BY <1>1, <1>2, InductionOverSet
<1> QED
  BY <1>3

(* Two readings agree as far as the bytes and the places do.               *)
LEMMA ReadingsAgree ==
  ASSUME NEW N \in Nat, NEW M \in Nat, M <= N, NEW H, NEW G, NEW bs, NEW cs, NEW u, NEW w,
         IsReading(u, H, bs, N), IsReading(w, G, cs, M), ReadAlike(H, bs, G, cs, M)
  PROVE  \A n \in 0 .. M : u[n] = w[n]
<1> DEFINE T == {n \in Nat : n <= M => u[n] = w[n]}
<1>0. /\ \A n \in 0 .. N : u[n] = IF n = 0 THEN <<>>
                                  ELSE IF n \in H THEN Append(u[n - 1], bs[n][2]) ELSE u[n - 1]
      /\ \A n \in 0 .. M : w[n] = IF n = 0 THEN <<>>
                                  ELSE IF n \in G THEN Append(w[n - 1], cs[n][2]) ELSE w[n - 1]
  BY DEF IsReading
<1>1. 0 \in T
  BY <1>0
<1>2. ASSUME NEW m \in Nat, m \in T PROVE m + 1 \in T
  <2> SUFFICES ASSUME m + 1 <= M
               PROVE  u[m + 1] = w[m + 1]
    OBVIOUS
  <2>1. u[m] = w[m] /\ (m + 1) - 1 = m /\ m + 1 \in 1 .. M /\ m + 1 \in 0 .. N /\ m + 1 \in 0 .. M /\ m + 1 # 0
    BY <1>2
  <2>2. (m + 1 \in H <=> m + 1 \in G) /\ (m + 1 \in H => bs[m + 1][2] = cs[m + 1][2])
    BY <2>1 DEF ReadAlike
  <2>3. u[m + 1] = IF m + 1 \in H THEN Append(u[m], bs[m + 1][2]) ELSE u[m]
    BY <1>0, <2>1
  <2>4. w[m + 1] = IF m + 1 \in G THEN Append(w[m], cs[m + 1][2]) ELSE w[m]
    BY <1>0, <2>1
  <2> QED
    BY <2>1, <2>2, <2>3, <2>4
<1>3. \A m \in Nat : m \in T
  <2> HIDE DEF T
  <2> QED
    BY <1>1, <1>2, InductionOverSet
<1> QED
  BY <1>3

(* SamplesAt is the last of a reading's values.                            *)
LEMMA ReadingIsSamplesAt ==
  ASSUME NEW H, NEW bs, Len(bs) \in Nat, NEW u, IsReading(u, H, bs, Len(bs))
  PROVE  SamplesAt(H, bs) = u[Len(bs)]
<1>1. SamplesAt(H, bs) = (CHOOSE w : IsReading(w, H, bs, Len(bs)))[Len(bs)]
  BY Zenon DEF SamplesAt, IsReading
<1>2. IsReading(CHOOSE w : IsReading(w, H, bs, Len(bs)), H, bs, Len(bs))
  BY Zenon
<1> DEFINE w == CHOOSE w : IsReading(w, H, bs, Len(bs))
<1> HIDE DEF w
<1>3. ReadAlike(H, bs, H, bs, Len(bs))
  BY DEF ReadAlike
<1>4. \A n \in 0 .. Len(bs) : u[n] = w[n]
  BY <1>2, <1>3, ReadingsAgree DEF w
<1> QED
  BY <1>1, <1>4 DEF w

LEMMA SamplesAreRead ==
  ASSUME NEW H, NEW bs, Len(bs) \in Nat, Readable(H, bs, Len(bs))
  PROVE  \E u \in [0 .. Len(bs) -> Seq(Nat)] :
           IsReading(u, H, bs, Len(bs)) /\ SamplesAt(H, bs) = u[Len(bs)]
<1>1. PICK u \in [0 .. Len(bs) -> Seq(Nat)] : IsReading(u, H, bs, Len(bs))
  BY ReadingExists
<1> QED
  BY <1>1, ReadingIsSamplesAt

LEMMA SeqEqual ==
  ASSUME NEW x \in Seq(Nat), NEW y \in Seq(Nat), Len(x) = Len(y), \A k \in 1 .. Len(x) : x[k] = y[k]
  PROVE  x = y
OBVIOUS

LEMMA AppendedLater ==
  ASSUME NEW x \in Seq(Nat), NEW y \in Seq(Nat), NEW e \in Nat
  PROVE  Append(x \o y, e) = x \o Append(y, e)
<1> DEFINE p == Append(x \o y, e)
           q == x \o Append(y, e)
<1>1. x \o y \in Seq(Nat) /\ Len(x \o y) = Len(x) + Len(y) /\ Len(x) \in Nat /\ Len(y) \in Nat
  OBVIOUS
<1>2. Append(y, e) \in Seq(Nat) /\ Len(Append(y, e)) = Len(y) + 1
  OBVIOUS
<1>3. p \in Seq(Nat) /\ Len(p) = Len(x) + Len(y) + 1
  BY <1>1
<1>4. q \in Seq(Nat) /\ Len(q) = Len(x) + Len(y) + 1
  BY <1>1, <1>2
<1>5. ASSUME NEW k \in 1 .. Len(x) + Len(y) + 1 PROVE p[k] = q[k]
  <2>1. CASE k <= Len(x)
    <3>1. p[k] = x[k]
      BY <2>1, <1>1
    <3>2. q[k] = x[k]
      BY <2>1, <1>1, <1>2
    <3> QED
      BY <3>1, <3>2
  <2>2. CASE k > Len(x) /\ k <= Len(x) + Len(y)
    <3>1. p[k] = y[k - Len(x)]
      BY <2>2, <1>1
    <3>2. q[k] = Append(y, e)[k - Len(x)]
      BY <2>2, <1>1, <1>2
    <3>3. Append(y, e)[k - Len(x)] = y[k - Len(x)]
      BY <2>2, <1>1
    <3> QED
      BY <3>1, <3>2, <3>3
  <2>3. CASE k = Len(x) + Len(y) + 1
    <3>1. p[k] = e
      BY <2>3, <1>1
    <3>2. q[k] = Append(y, e)[k - Len(x)]
      BY <2>3, <1>1, <1>2
    <3>3. Append(y, e)[k - Len(x)] = e
      BY <2>3, <1>1
    <3> QED
      BY <3>1, <3>2, <3>3
  <2> QED
    BY <2>1, <2>2, <2>3, <1>1
<1> HIDE DEF p, q
<1>6. p = q
  BY <1>3, <1>4, <1>5, SeqEqual
<1> QED
  BY <1>6 DEF p, q

LEMMA AppendedAt ==
  ASSUME NEW y \in Seq(Nat), NEW e \in Nat
  PROVE  /\ Append(y, e) \in Seq(Nat) /\ Len(Append(y, e)) = Len(y) + 1 /\ Append(y, e)[Len(y) + 1] = e
         /\ \A k \in 1 .. Len(y) : Append(y, e)[k] = y[k]
  OBVIOUS

(* The next position goes to the end of a stretch.                         *)
LEMMA OnePositionMore ==
  ASSUME NEW x \in Seq(Nat), NEW f \in Nat, NEW m \in Nat
  PROVE  /\ Append(x \o Positions(f, f + m), f + m) = x \o Positions(f, f + (m + 1))
         /\ x \o Positions(f, f + m) \in Seq(Nat)
<1>0. f + m \in Nat /\ f <= f + m /\ f + (m + 1) \in Nat /\ f <= f + (m + 1) /\ m + 1 \in Nat
      /\ (f + m) - f = m /\ (f + (m + 1)) - f = m + 1
  OBVIOUS
<1> DEFINE y == Positions(f, f + m)
           z == Positions(f, f + (m + 1))
<1> HIDE DEF y, z
<1>1. y \in Seq(Nat) /\ Len(y) = m /\ \A k \in 1 .. m : y[k] = f + k - 1
  <2>1. y \in Seq(Nat) /\ Len(y) = (f + m) - f /\ \A k \in 1 .. (f + m) - f : y[k] = f + k - 1
    BY <1>0, PositionsType DEF y
  <2> QED
    BY <2>1, <1>0, Zenon
<1>2. z \in Seq(Nat) /\ Len(z) = m + 1 /\ \A k \in 1 .. m + 1 : z[k] = f + k - 1
  <2>1. z \in Seq(Nat) /\ Len(z) = (f + (m + 1)) - f /\ \A k \in 1 .. (f + (m + 1)) - f : z[k] = f + k - 1
    BY <1>0, PositionsType DEF z
  <2> QED
    BY <2>1, <1>0, Zenon
<1>3. z = Append(y, f + m)
  <2> DEFINE e == f + m
  <2>0. e \in Nat /\ f + (m + 1) - 1 = e
    OBVIOUS
  <2> HIDE DEF e
  <2>1. Append(y, e) \in Seq(Nat) /\ Len(Append(y, e)) = m + 1 /\ Append(y, e)[m + 1] = e
        /\ \A k \in 1 .. m : Append(y, e)[k] = y[k]
    BY <1>1, <2>0, AppendedAt
  <2>2. z[m + 1] = e /\ \A k \in 1 .. m : z[k] = f + k - 1
    BY <1>2, <2>0
  <2>3. \A k \in 1 .. m + 1 : k = m + 1 \/ k \in 1 .. m
    OBVIOUS
  <2>4. \A k \in 1 .. m + 1 : z[k] = Append(y, e)[k]
    BY <1>1, <2>1, <2>2, <2>3, Zenon
  <2>5. z = Append(y, e)
    BY <1>2, <2>1, <2>4, SeqEqual
  <2> QED
    BY <2>5 DEF e
<1>4. Append(x \o y, f + m) = x \o Append(y, f + m)
  BY <1>0, <1>1, AppendedLater
<1>5. x \o y \in Seq(Nat)
  BY <1>1
<1> QED
  BY <1>3, <1>4, <1>5, Zenon DEF y, z

(* What was appended is read behind what was there: the places up to s are *)
(* not read, those behind it hold the samples from f on.                   *)
IsAppended(H, bs, G, cs, s, f, p) ==
  /\ p = f + (Len(cs) - s)
  /\ Len(bs) \in Nat /\ Len(cs) \in Nat /\ s \in Len(bs) .. Len(cs) /\ f \in Nat
  /\ Readable(H, bs, Len(bs)) /\ ReadAlike(H, bs, G, cs, Len(bs))
  /\ \A n \in Len(bs) + 1 .. s : n \notin G
  /\ \A n \in s + 1 .. Len(cs) : n \in G /\ cs[n][2] = f + (n - s - 1)

(* If the bytes that were added are heard as samples f .. p - 1, these are *)
(* behind what was heard before.                                           *)
LEMMA SamplesAppended ==
  ASSUME NEW H, NEW bs, NEW G, NEW cs, NEW s, NEW f, NEW p, IsAppended(H, bs, G, cs, s, f, p)
  PROVE  /\ SamplesAt(H, bs) \in Seq(Nat)
         /\ SamplesAt(G, cs) = SamplesAt(H, bs) \o Positions(f, p)
<1> USE DEF IsAppended
<1>0. Len(bs) \in Nat /\ Len(cs) \in Nat /\ s \in Nat /\ Len(bs) <= s /\ s <= Len(cs) /\ f \in Nat
  OBVIOUS
<1>01. Readable(H, bs, Len(bs)) /\ ReadAlike(H, bs, G, cs, Len(bs))
  OBVIOUS
<1>00. p = f + (Len(cs) - s)
  OBVIOUS
<1>02. \A n \in Len(bs) + 1 .. s : n \notin G
  OBVIOUS
<1>03. \A n \in s + 1 .. Len(cs) : n \in G /\ cs[n][2] = f + (n - s - 1)
  OBVIOUS
<1> HIDE DEF IsAppended
<1> USE <1>0, <1>01
<1>1. PICK u \in [0 .. Len(bs) -> Seq(Nat)] :
             IsReading(u, H, bs, Len(bs)) /\ SamplesAt(H, bs) = u[Len(bs)]
  BY SamplesAreRead
<1> DEFINE x == u[Len(bs)]
           w == [n \in 0 .. Len(cs) |-> IF n <= Len(bs) THEN u[n]
                                        ELSE IF n <= s THEN x ELSE x \o Positions(f, f + (n - s))]
<1>2. x \in Seq(Nat) /\ s \in Nat /\ Len(bs) <= s /\ s <= Len(cs)
  BY <1>1
<1>3. \A n \in 0 .. Len(bs) : u[n] = IF n = 0 THEN <<>>
                                     ELSE IF n \in H THEN Append(u[n - 1], bs[n][2]) ELSE u[n - 1]
  BY <1>1 DEF IsReading
<1>4. x \o Positions(f, f + 0) = x
  <2>1. Positions(f, f + 0) = <<>>
    BY DEF Positions
  <2> QED
    BY <2>1, <1>2
<1>5. ASSUME NEW n \in 0 .. Len(cs)
      PROVE  w[n] = IF n = 0 THEN <<>>
                    ELSE IF n \in G THEN Append(w[n - 1], cs[n][2]) ELSE w[n - 1]
  <2>1. CASE n <= Len(bs)
    <3>1. w[n] = u[n] /\ (n # 0 => w[n - 1] = u[n - 1]) /\ n \in 0 .. Len(bs)
      BY <2>1
    <3>2. n # 0 => (n \in H <=> n \in G) /\ (n \in H => bs[n][2] = cs[n][2])
      BY <3>1 DEF ReadAlike
    <3> HIDE DEF w
    <3> QED
      BY <3>1, <3>2, <1>3
  <2>2. CASE Len(bs) < n /\ n <= s
    <3>0. w[n] = x /\ n # 0 /\ n - 1 \in 0 .. Len(cs)
      BY <2>2, <1>2
    <3>1. w[n - 1] = x
      <4>1. CASE n - 1 = Len(bs)
        BY <4>1, <3>0
      <4>2. CASE n - 1 > Len(bs) /\ n - 1 <= s
        BY <4>2, <3>0
      <4> QED
        BY <4>1, <4>2, <2>2, <1>2
    <3>2. n \notin G
      BY <2>2, <1>2, <1>02
    <3> HIDE DEF w, x
    <3> QED
      BY <3>0, <3>1, <3>2
  <2>3. CASE s < n
    <3> DEFINE m == n - s - 1
    <3>1. m \in Nat /\ n - s = m + 1 /\ n # 0 /\ n \in s + 1 .. Len(cs) /\ n > Len(bs)
      BY <2>3, <1>2
    <3>2. w[n] = x \o Positions(f, f + (m + 1))
      BY <2>3, <3>1, <1>2
    <3>3. w[n - 1] = x \o Positions(f, f + m)
      <4>1. CASE m = 0
        <5>1. w[n - 1] = x
          BY <4>1, <3>1, <1>2
        <5> HIDE DEF w, m
        <5> QED
          BY <5>1, <4>1, <1>4
      <4>2. CASE m > 0
        <5>1. n - 1 > s /\ (n - 1) - s = m /\ n - 1 > Len(bs) /\ n - 1 \in 0 .. Len(cs)
          BY <4>2, <3>1, <1>2
        <5>2. w[n - 1] = x \o Positions(f, f + ((n - 1) - s))
          BY <5>1
        <5> HIDE DEF w, m
        <5> QED
          BY <5>1, <5>2
      <4> QED
        BY <4>1, <4>2, <3>1
    <3> HIDE DEF w, m, x
    <3>4. n \in G /\ cs[n][2] = f + m
      <4>1. n - s - 1 = m
        BY <3>1, <1>2
      <4> QED
        BY <3>1, <4>1, <1>03
    <3>6. Append(x \o Positions(f, f + m), f + m) = x \o Positions(f, f + (m + 1))
      BY <3>1, <1>2, OnePositionMore
    <3>5. w[n] = Append(w[n - 1], f + m)
      BY <3>2, <3>3, <3>6
    <3> QED
      BY <3>1, <3>4, <3>5
  <2> QED
    BY <2>1, <2>2, <2>3, <1>2
<1>6. IsReading(w, G, cs, Len(cs))
  BY <1>5 DEF IsReading
<1>7. SamplesAt(G, cs) = w[Len(cs)]
  <2> HIDE DEF w
  <2> QED
    BY <1>6, ReadingIsSamplesAt
<1>8. w[Len(cs)] = x \o Positions(f, f + (Len(cs) - s))
  <2>1. CASE s = Len(cs)
    <3>1. Len(cs) - s = 0
      BY <2>1
    <3>2. w[Len(cs)] = x
      BY <2>1, <1>2
    <3> HIDE DEF w, x
    <3> QED
      BY <3>1, <3>2, <1>4
  <2>2. CASE s < Len(cs)
    BY <2>2, <1>2
  <2> QED
    BY <2>1, <2>2, <1>2
<1> HIDE DEF w
<1> QED
  BY <1>00, <1>1, <1>2, <1>7, <1>8

(* Bytes that are not read change nothing.                                 *)
LEMMA SamplesSame ==
  ASSUME NEW H, NEW bs, NEW G, NEW cs, Len(bs) \in Nat, Len(cs) \in Nat, Len(bs) <= Len(cs),
         Readable(H, bs, Len(bs)), ReadAlike(H, bs, G, cs, Len(bs)),
         \A n \in Len(bs) + 1 .. Len(cs) : n \notin G
  PROVE  SamplesAt(G, cs) = SamplesAt(H, bs)
<1>1. IsAppended(H, bs, G, cs, Len(cs), 0, 0)
  BY DEF IsAppended
<1>2. /\ SamplesAt(H, bs) \in Seq(Nat)
      /\ SamplesAt(G, cs) = SamplesAt(H, bs) \o Positions(0, 0)
  BY <1>1, SamplesAppended
<1>3. Positions(0, 0) = <<>>
  BY DEF Positions
<1> QED
  BY <1>2, <1>3

(* Every other place behind the first a is read, with the samples from f.  *)
LEMMA SamplesAtEven ==
  ASSUME NEW H, NEW bs, Len(bs) \in Nat, NEW a \in 0 .. Len(bs), NEW f \in Nat,
         \A n \in 1 .. Len(bs) : n \in H <=> n > a /\ (n - a) % 2 = 0,
         \A n \in a + 1 .. Len(bs) : (n - a) % 2 = 0 => bs[n][2] = f + ((n - a) \div 2 - 1)
  PROVE  SamplesAt(H, bs) = Positions(f, f + (Len(bs) - a) \div 2)
<1> DEFINE half(n) == IF n <= a THEN 0 ELSE (n - a) \div 2
           w == [n \in 0 .. Len(bs) |-> Positions(f, f + half(n))]
<1>0. a \in Nat /\ a <= Len(bs)
  OBVIOUS
<1>1. \A n \in 0 .. Len(bs) : half(n) \in Nat
  BY <1>0
<1>2. \A m \in Nat : Positions(f, f + (m + 1)) = Append(Positions(f, f + m), f + m)
  <2> SUFFICES ASSUME NEW m \in Nat
               PROVE  Positions(f, f + (m + 1)) = Append(Positions(f, f + m), f + m)
    OBVIOUS
  <2> DEFINE y == Positions(f, f + m)
             z == Positions(f, f + (m + 1))
  <2>0. <<>> \in Seq(Nat)
    OBVIOUS
  <2>1. PICK x \in Seq(Nat) : x = <<>>
    BY <2>0, Zenon
  <2>2. Append(x \o y, f + m) = x \o z
    BY OnePositionMore
  <2>3. f + m \in Nat /\ f <= f + m /\ f + (m + 1) \in Nat /\ f <= f + (m + 1)
    OBVIOUS
  <2>4. y \in Seq(Nat) /\ z \in Seq(Nat)
    BY <2>3, PositionsType
  <2> HIDE DEF y, z
  <2>5. x \o y = y /\ x \o z = z
    BY <2>1, <2>4
  <2>6. Append(y, f + m) = z
    BY <2>2, <2>5, Zenon
  <2> QED
    BY <2>6 DEF y, z
<1>3. ASSUME NEW n \in 0 .. Len(bs)
      PROVE  w[n] = IF n = 0 THEN <<>>
                    ELSE IF n \in H THEN Append(w[n - 1], bs[n][2]) ELSE w[n - 1]
  <2>1. CASE n = 0
    <3>1. half(n) = 0
      BY <2>1, <1>0
    <3>2. Positions(f, f + 0) = <<>>
      BY DEF Positions
    <3> QED
      BY <2>1, <3>1, <3>2
  <2>2. CASE n # 0 /\ ~(n > a /\ (n - a) % 2 = 0)
    <3>1. n \notin H
      BY <2>2
    <3>2. half(n) = half(n - 1) /\ n - 1 \in 0 .. Len(bs)
      BY <2>2, <1>0
    <3> QED
      BY <2>2, <3>1, <3>2
  <2>3. CASE n > a /\ (n - a) % 2 = 0
    <3>1. n \in H /\ n # 0 /\ n - 1 \in 0 .. Len(bs)
      BY <2>3, <1>0
    <3>2. half(n) = half(n - 1) + 1 /\ half(n) - 1 = half(n - 1) /\ half(n) = (n - a) \div 2
      <4>1. PICK k \in Nat : k = n - a
        BY <2>3, <1>0
      <4>2. k >= 2 /\ k % 2 = 0 /\ n - 1 - a = k - 1 /\ n - 1 > a
        BY <2>3, <1>0, <4>1
      <4>3. (k - 1) \div 2 = k \div 2 - 1 /\ k \div 2 \in Nat
        BY <4>2
      <4> QED
        BY <2>3, <1>0, <4>1, <4>2, <4>3
    <3>3. bs[n][2] = f + half(n - 1)
      BY <2>3, <1>0, <3>2
    <3>4. half(n - 1) \in Nat
      BY <1>1, <3>1
    <3>5. w[n] = Positions(f, f + half(n)) /\ w[n - 1] = Positions(f, f + half(n - 1))
      BY <3>1
    <3> HIDE DEF w, half
    <3>6. Positions(f, f + (half(n - 1) + 1)) = Append(Positions(f, f + half(n - 1)), f + half(n - 1))
      BY <1>2, <3>4
    <3> QED
      BY <3>1, <3>2, <3>3, <3>5, <3>6
  <2> QED
    BY <2>1, <2>2, <2>3, <1>0
<1>4. IsReading(w, H, bs, Len(bs))
  BY <1>3 DEF IsReading
<1>5. SamplesAt(H, bs) = w[Len(bs)]
  <2> HIDE DEF w
  <2> QED
    BY <1>4, ReadingIsSamplesAt
<1>6. half(Len(bs)) = (Len(bs) - a) \div 2
  BY <1>0
<1> QED
  BY <1>5, <1>6

-----------------------------------------------------------------------------
(* What is heard of a WAV file.                                            *)

(* Where no place counts nothing is heard.                                 *)
LEMMA NoneHeard ==
  ASSUME NEW H, NEW bs, Len(bs) \in Nat, \A n \in 1 .. Len(bs) : n \notin H
  PROVE  SamplesAt(H, bs) = <<>>
<1>1. PICK a \in 0 .. Len(bs), f \in Nat : a = Len(bs) /\ f = 0
  OBVIOUS
<1>2. /\ \A n \in 1 .. Len(bs) : n \in H <=> n > a /\ (n - a) % 2 = 0
      /\ \A n \in a + 1 .. Len(bs) : (n - a) % 2 = 0 => bs[n][2] = f + ((n - a) \div 2 - 1)
  BY <1>1
<1>3. SamplesAt(H, bs) = Positions(f, f + (Len(bs) - a) \div 2)
  BY <1>2, SamplesAtEven
<1>4. (Len(bs) - a) \div 2 = 0
  BY <1>1
<1> QED
  BY <1>1, <1>3, <1>4 DEF Positions

(* The header of a WAV file ends where its samples begin.                  *)
LEMMA HeaderEnds ==
  ASSUME NEW bs, Len(bs) \in Nat, NEW a \in 0 .. Len(bs), NEW o, NEW c, WavShape(bs, a, o, c)
  PROVE  HeaderEnd(bs) = a
<1>1. \A k \in 1 .. a : Is("h", bs, k)
  BY DEF WavShape, Is
<1>2. ~Is("h", bs, a + 1)
  BY DEF WavShape, Is
<1>3. ASSUME NEW b \in 0 .. Len(bs), \A k \in 1 .. b : Is("h", bs, k), ~Is("h", bs, b + 1)
      PROVE  b = a
  <2>1. CASE b < a
    <3>1. b + 1 \in 1 .. a
      BY <2>1
    <3> QED
      BY <3>1, <1>1, <1>3
  <2>2. CASE b > a
    <3>1. a + 1 \in 1 .. b
      BY <2>2
    <3> QED
      BY <3>1, <1>2, <1>3
  <2> QED
    BY <2>1, <2>2
<1> DEFINE P(b) == (\A k \in 1 .. b : Is("h", bs, k)) /\ ~Is("h", bs, b + 1)
<1>4. P(a) /\ \A b \in 0 .. Len(bs) : P(b) => b = a
  BY <1>1, <1>2, <1>3
<1>5. HeaderEnd(bs) = CHOOSE b \in 0 .. Len(bs) : P(b)
  BY DEF HeaderEnd
<1> HIDE DEF P
<1> QED
  BY <1>4, <1>5

(* What is heard in a WAV file: its samples, if they begin between two     *)
(* samples, and else nothing.                                              *)
LEMMA WavHeard ==
  ASSUME NEW bs, Len(bs) \in Nat, NEW a \in 0 .. Len(bs), NEW o \in 0 .. a, NEW c, WavShape(bs, a, o, c)
  PROVE  Heard("wav", bs) = IF (a - o) % 2 = 0
                            THEN Positions((a - o) \div 2, (a - o) \div 2 + (Len(bs) - a) \div 2)
                            ELSE <<>>
<1> DEFINE H == HeardRaw(bs)
           f == (a - o) \div 2
<1>1. H = {k \in a + 2 .. Len(bs) : (k - a) % 2 = 0 /\ Is("s", bs, k) /\ bs[k - 1] = bs[k]}
  BY HeaderEnds DEF HeardRaw
<1>2. \A k \in a + 1 .. Len(bs) : bs[k] = <<"s", (k - 1 - o) \div 2>>
  BY DEF WavShape
<1>3. a \in Nat /\ o \in Nat /\ o <= a /\ a <= Len(bs) /\ f \in Nat
  OBVIOUS
<1>4. ASSUME NEW n \in a + 2 .. Len(bs), (n - a) % 2 = 0
      PROVE  n \in H <=> (a - o) % 2 = 0
  <2>1. bs[n] = <<"s", (n - 1 - o) \div 2>> /\ bs[n - 1] = <<"s", (n - 1 - 1 - o) \div 2>>
    BY <1>2, <1>3
  <2>2. bs[n - 1] = bs[n] <=> (n - 1 - 1 - o) \div 2 = (n - 1 - o) \div 2
    BY <2>1
  <2>3. (n - 1 - 1 - o) \div 2 = (n - 1 - o) \div 2 <=> (a - o) % 2 = 0
    BY <1>3, <1>4
  <2>4. Is("s", bs, n)
    BY <2>1, <1>3 DEF Is
  <2> QED
    BY <1>1, <1>4, <2>2, <2>3, <2>4
<1>5. \A n \in H : n \in a + 2 .. Len(bs) /\ (n - a) % 2 = 0
  BY <1>1
<1>6. Heard("wav", bs) = SamplesAt(H, bs)
  BY DEF Heard
<1> HIDE DEF H
<1>7. CASE (a - o) % 2 = 0
  <2>1. \A n \in 1 .. Len(bs) : n \in H <=> n > a /\ (n - a) % 2 = 0
    <3> SUFFICES ASSUME NEW n \in 1 .. Len(bs), n > a, (n - a) % 2 = 0 PROVE n \in H
      BY <1>5, <1>3
    <3>1. n \in a + 2 .. Len(bs)
      BY <1>3
    <3> QED
      BY <3>1, <1>4, <1>7
  <2>2. \A n \in a + 1 .. Len(bs) : (n - a) % 2 = 0 => bs[n][2] = f + ((n - a) \div 2 - 1)
    <3> SUFFICES ASSUME NEW n \in a + 1 .. Len(bs), (n - a) % 2 = 0
                 PROVE  bs[n][2] = f + ((n - a) \div 2 - 1)
      OBVIOUS
    <3> DEFINE y == (n - 1 - o) \div 2
    <3>0. bs[n] = <<"s", y>>
      BY <1>2
    <3>1. bs[n][2] = y
      <4> HIDE DEF y
      <4> QED
        BY <3>0
    <3>2. (n - 1 - o) \div 2 = (a - o) \div 2 + ((n - a) \div 2 - 1)
      BY <1>3, <1>7
    <3> QED
      BY <3>1, <3>2
  <2> HIDE DEF f
  <2>3. f \in Nat /\ a \in 0 .. Len(bs)
    BY <1>3
  <2>4. SamplesAt(H, bs) = Positions(f, f + (Len(bs) - a) \div 2)
    BY <2>1, <2>2, <2>3, SamplesAtEven
  <2> QED
    BY <2>4, <1>6, <1>7 DEF f
<1>8. CASE (a - o) % 2 # 0
  <2>1. \A n \in 1 .. Len(bs) : n \notin H
    BY <1>4, <1>5, <1>8
  <2> QED
    BY <2>1, <1>6, <1>8, NoneHeard
<1> QED
  BY <1>7, <1>8

-----------------------------------------------------------------------------
(* What is heard of pages.                                                 *)

Extends(bs, cs) == Len(bs) <= Len(cs) /\ \A k \in 1 .. Len(bs) : cs[k] = bs[k]

(* The three kinds of byte.                                                *)
LEMMA ByteTypes ==
  ASSUME NEW bs \in Seq(Bytes), NEW k \in 1 .. Len(bs)
  PROVE  /\ bs[k][1] \in {"h", "s", "p"}
         /\ bs[k][1] = "s" => bs[k][2] \in Nat
         /\ bs[k][1] = "p" => bs[k][2] \in Nat /\ bs[k][3] \in Nat /\ PageSize(bs, k) \in Int
<1>1. bs[k] \in Bytes
  OBVIOUS
<1>2. CASE bs[k] \in {"h"} \X Nat
  BY <1>2
<1>3. CASE bs[k] \in {"s"} \X Nat
  BY <1>3
<1>4. CASE bs[k] \in {"p"} \X Nat \X Nat
  BY <1>4 DEF PageSize
<1> QED
  BY <1>1, <1>2, <1>3, <1>4 DEF Bytes

(* On a page samples are heard and nothing else.                           *)
LEMMA PagesReadable ==
  ASSUME NEW bs \in Seq(Bytes)
  PROVE  /\ Readable(HeardOnPages(bs), bs, Len(bs))
         /\ \A n \in HeardOnPages(bs) : Is("s", bs, n)
<1>1. ASSUME NEW n \in HeardOnPages(bs)
      PROVE  Is("s", bs, n)
  <2>1. PICK k \in 1 .. n - 1 : WholePage(bs, k) /\ n - k <= PageSize(bs, k)
    BY DEF HeardOnPages
  <2>2. n \in 1 .. Len(bs)
    BY DEF HeardOnPages
  <2>3. k \in 1 .. Len(bs) /\ bs[k][1] = "p" /\ PageSize(bs, k) \in Int
    <3>1. k \in 1 .. Len(bs) /\ bs[k][1] = "p"
      BY <2>1, <2>2 DEF WholePage, Is
    <3> QED
      BY <3>1, ByteTypes
  <2>4. n - k \in 1 .. PageSize(bs, k) /\ k + (n - k) = n
    BY <2>1, <2>2, <2>3
  <2>5. Is("s", bs, k + (n - k))
    BY <2>1, <2>4 DEF WholePage
  <2> QED
    BY <2>4, <2>5
<1>2. ASSUME NEW n \in 1 .. Len(bs), n \in HeardOnPages(bs)
      PROVE  bs[n][2] \in Nat
  BY <1>1, <1>2, ByteTypes DEF Is
<1> QED
  BY <1>1, <1>2 DEF Readable

(* A page that is whole stays so when something is appended, and one that  *)
(* becomes whole reaches into what was appended.                           *)
LEMMA WholePageStays ==
  ASSUME NEW bs \in Seq(Bytes), NEW cs \in Seq(Bytes), Extends(bs, cs), NEW k \in 1 .. Len(bs)
  PROVE  /\ PageSize(cs, k) = PageSize(bs, k)
         /\ WholePage(bs, k) => WholePage(cs, k)
         /\ WholePage(cs, k) => \/ WholePage(bs, k)
                                \/ /\ bs[k][1] = "p" /\ k + PageSize(bs, k) > Len(bs)
                                   /\ k + PageSize(bs, k) <= Len(cs)
<1>1. Len(bs) \in Nat /\ Len(cs) \in Nat /\ Len(bs) <= Len(cs) /\ k \in 1 .. Len(cs)
  BY DEF Extends
<1>2. cs[k] = bs[k]
  BY DEF Extends
<1>3. PageSize(cs, k) = PageSize(bs, k)
  BY <1>2 DEF PageSize
<1>4. ASSUME WholePage(bs, k)
      PROVE  WholePage(cs, k)
  <2>1. Is("p", cs, k)
    BY <1>1, <1>2, <1>4 DEF WholePage, Is
  <2>2. ASSUME NEW j \in 1 .. PageSize(cs, k)
        PROVE  Is("s", cs, k + j) /\ cs[k + j][2] = cs[k][2] + j - 1
    <3>1. Is("s", bs, k + j) /\ bs[k + j][2] = bs[k][2] + j - 1
      BY <1>3, <1>4, <2>2 DEF WholePage
    <3>2. k + j \in 1 .. Len(bs) /\ bs[k + j][1] = "s"
      BY <3>1 DEF Is
    <3>3. cs[k + j] = bs[k + j] /\ k + j \in 1 .. Len(cs)
      BY <3>2, <1>1 DEF Extends
    <3> QED
      BY <3>1, <3>2, <3>3, <1>2 DEF Is
  <2> QED
    BY <2>1, <2>2 DEF WholePage
<1>5. ASSUME WholePage(cs, k)
      PROVE  \/ WholePage(bs, k)
             \/ /\ bs[k][1] = "p" /\ k + PageSize(bs, k) > Len(bs)
                /\ k + PageSize(bs, k) <= Len(cs)
  <2>1. Is("p", bs, k) /\ bs[k][1] = "p"
    BY <1>1, <1>2, <1>5 DEF WholePage, Is
  <2>2. PageSize(bs, k) \in Int
    BY <2>1, ByteTypes
  <2>3. CASE k + PageSize(bs, k) <= Len(bs)
    <3>1. ASSUME NEW j \in 1 .. PageSize(bs, k)
          PROVE  Is("s", bs, k + j) /\ bs[k + j][2] = bs[k][2] + j - 1
      <4>1. Is("s", cs, k + j) /\ cs[k + j][2] = cs[k][2] + j - 1
        BY <1>3, <1>5 DEF WholePage
      <4>2. k + j \in 1 .. Len(bs)
        BY <2>2, <2>3, <1>1
      <4>3. cs[k + j] = bs[k + j]
        BY <4>2 DEF Extends
      <4> QED
        BY <4>1, <4>2, <4>3, <1>2 DEF Is
    <3> QED
      BY <2>1, <3>1 DEF WholePage
  <2>4. CASE k + PageSize(bs, k) > Len(bs)
    <3>1. PageSize(bs, k) \in 1 .. PageSize(cs, k)
      BY <2>2, <2>4, <1>1, <1>3
    <3>2. Is("s", cs, k + PageSize(bs, k))
      BY <3>1, <1>5 DEF WholePage
    <3>3. k + PageSize(bs, k) <= Len(cs)
      BY <3>2, <2>2, <1>1 DEF Is
    <3> QED
      BY <2>1, <2>4, <3>3
  <2> QED
    BY <2>2, <2>3, <2>4, <1>1
<1> QED
  BY <1>3, <1>4, <1>5

(* A torn page stays torn if what follows it does not belong to it, and a  *)
(* new one that is not complete is not heard either.                       *)
LEMMA NothingHeard ==
  ASSUME NEW form, form # "wav", NEW bs \in Seq(Bytes), NEW cs \in Seq(Bytes), Extends(bs, cs), NEW f \in Nat,
         \A k \in 1 .. Len(bs) : bs[k][1] = "p" => bs[k][3] <= f \/ k + PageSize(bs, k) > Len(cs),
         Len(cs) > Len(bs) => cs[Len(bs) + 1][1] # "s" \/ cs[Len(bs) + 1][2] >= f,
         \A k \in Len(bs) + 1 .. Len(cs) :
           cs[k][1] = "p" => PageSize(cs, k) <= 0 \/ k + PageSize(cs, k) > Len(cs)
  PROVE  Heard(form, cs) = Heard(form, bs)
<1> DEFINE H == HeardOnPages(bs)
           G == HeardOnPages(cs)
<1>1. Len(bs) \in Nat /\ Len(cs) \in Nat /\ Len(bs) <= Len(cs)
  BY DEF Extends
<1>2. ASSUME NEW k \in 1 .. Len(bs), WholePage(cs, k)
      PROVE  WholePage(bs, k) /\ k + PageSize(cs, k) <= Len(bs)
  <2>0. Is("p", cs, k) /\ bs[k][1] = "p" /\ cs[k] = bs[k] /\ PageSize(cs, k) = PageSize(bs, k)
    BY <1>1, <1>2, WholePageStays DEF WholePage, Is, Extends
  <2>1. PageSize(bs, k) \in Int /\ bs[k][2] \in Nat /\ bs[k][3] \in Nat
    BY <2>0, ByteTypes
  <2>2. ~(k + PageSize(bs, k) > Len(bs) /\ k + PageSize(bs, k) <= Len(cs))
    <3> SUFFICES ASSUME k + PageSize(bs, k) > Len(bs), k + PageSize(bs, k) <= Len(cs)
                 PROVE  FALSE
      OBVIOUS
    <3>1. bs[k][3] <= f
      BY <2>0, <2>1, <1>1
    <3>2. Len(bs) + 1 - k \in 1 .. PageSize(cs, k) /\ k + (Len(bs) + 1 - k) = Len(bs) + 1 /\ Len(cs) > Len(bs)
      BY <2>0, <2>1, <1>1
    <3>3. /\ Is("s", cs, k + (Len(bs) + 1 - k))
          /\ cs[k + (Len(bs) + 1 - k)][2] = cs[k][2] + (Len(bs) + 1 - k) - 1
      BY <1>2, <3>2 DEF WholePage
    <3>4. cs[Len(bs) + 1][1] = "s" /\ cs[Len(bs) + 1][2] = bs[k][2] + (Len(bs) + 1 - k) - 1
      BY <3>2, <3>3, <2>0 DEF Is
    <3>5. PageSize(bs, k) = bs[k][3] - bs[k][2]
      BY DEF PageSize
    <3>6. cs[Len(bs) + 1][2] >= f
      BY <3>2, <3>4
    <3> DEFINE x == cs[Len(bs) + 1][2]
               b == bs[k][2]
               e == bs[k][3]
    <3>7. x >= f /\ x = b + (Len(bs) + 1 - k) - 1 /\ e <= f /\ k + (e - b) > Len(bs) /\ b \in Nat /\ e \in Nat
      BY <3>1, <3>4, <3>5, <3>6, <2>1
    <3> HIDE DEF x, b, e
    <3> QED
      BY <3>7, <1>1
  <2>3. WholePage(bs, k)
    BY <1>2, <2>2, WholePageStays
  <2>4. k + PageSize(bs, k) <= Len(bs)
    <3> SUFFICES ASSUME k + PageSize(bs, k) > Len(bs) PROVE FALSE
      BY <2>1, <1>1
    <3>1. PageSize(bs, k) \in 1 .. PageSize(bs, k)
      BY <2>1, <1>1
    <3>2. Is("s", bs, k + PageSize(bs, k))
      BY <2>3, <3>1 DEF WholePage
    <3> QED
      BY <3>2, <2>1, <1>1 DEF Is
  <2> QED
    BY <2>0, <2>3, <2>4
<1>3. ASSUME NEW k \in Len(bs) + 1 .. Len(cs), WholePage(cs, k)
      PROVE  PageSize(cs, k) <= 0
  <2>1. cs[k][1] = "p" /\ k \in 1 .. Len(cs)
    BY <1>1, <1>3 DEF WholePage, Is
  <2>2. PageSize(cs, k) \in Int
    BY <2>1, ByteTypes
  <2> SUFFICES ASSUME k + PageSize(cs, k) > Len(cs) PROVE FALSE
    BY <2>1, <2>2
  <2>3. PageSize(cs, k) \in 1 .. PageSize(cs, k)
    BY <2>2, <1>1
  <2>4. Is("s", cs, k + PageSize(cs, k))
    BY <1>3, <2>3 DEF WholePage
  <2> QED
    BY <2>2, <2>4, <1>1 DEF Is
<1>4. ASSUME NEW n \in G
      PROVE  n \in H /\ n \in 1 .. Len(bs)
  <2>1. PICK k \in 1 .. n - 1 : WholePage(cs, k) /\ n - k <= PageSize(cs, k)
    BY DEF HeardOnPages
  <2>2. n \in 1 .. Len(cs)
    BY DEF HeardOnPages
  <2>3. PageSize(cs, k) \in Int
    <3>1. cs[k][1] = "p" /\ k \in 1 .. Len(cs)
      BY <2>1 DEF WholePage, Is
    <3> QED
      BY <3>1, ByteTypes
  <2>4. k \in 1 .. Len(bs)
    <3>1. ~(PageSize(cs, k) <= 0)
      BY <2>1, <2>2, <2>3
    <3>2. k \notin Len(bs) + 1 .. Len(cs)
      BY <1>3, <2>1, <3>1
    <3> QED
      BY <3>2, <2>2, <1>1
  <2>5. WholePage(bs, k) /\ k + PageSize(cs, k) <= Len(bs) /\ PageSize(cs, k) = PageSize(bs, k)
    BY <1>2, <2>1, <2>4, WholePageStays
  <2>6. n \in 1 .. Len(bs) /\ n - k <= PageSize(bs, k)
    BY <2>1, <2>2, <2>3, <2>5, <1>1
  <2> QED
    BY <2>1, <2>5, <2>6 DEF HeardOnPages
<1>5. ASSUME NEW n \in H
      PROVE  n \in G
  <2>1. PICK k \in 1 .. n - 1 : WholePage(bs, k) /\ n - k <= PageSize(bs, k)
    BY DEF HeardOnPages
  <2>2. n \in 1 .. Len(bs) /\ n \in 1 .. Len(cs) /\ k \in 1 .. Len(bs)
    BY <1>1 DEF HeardOnPages
  <2>3. WholePage(cs, k) /\ PageSize(cs, k) = PageSize(bs, k)
    BY <2>1, <2>2, WholePageStays
  <2> QED
    BY <2>1, <2>2, <2>3 DEF HeardOnPages
<1>6. Readable(H, bs, Len(bs))
  BY PagesReadable
<1> HIDE DEF H, G
<1>7. ReadAlike(H, bs, G, cs, Len(bs))
  BY <1>4, <1>5 DEF ReadAlike, Extends
<1>8. \A n \in Len(bs) + 1 .. Len(cs) : n \notin G
  BY <1>1, <1>4
<1>9. SamplesAt(G, cs) = SamplesAt(H, bs)
  BY <1>1, <1>6, <1>7, <1>8, SamplesSame
<1> QED
  BY <1>9 DEF Heard, H, G

(* A page is heard as a whole once its last byte is there.                 *)
(* Samples f to p - 1 behind those of x.                                   *)
AndThen(x, f, p) == x \o Positions(f, p)

PageAppended(bs, cs, h, f, p) ==
  /\ Extends(bs, cs)
  /\ f < p /\ h >= 1 /\ (h = Len(bs) \/ h = Len(bs) + 1)
  /\ Len(cs) = h + (p - f)
  /\ cs[h] = <<"p", f, p>>
  /\ \A j \in 1 .. p - f : cs[h + j] = <<"s", f + j - 1>>

(* A page that was added as a whole is heard behind all others.            *)
LEMMA PageHeard ==
  ASSUME NEW form, form # "wav", NEW bs \in Seq(Bytes), NEW cs \in Seq(Bytes),
         NEW f \in Nat, NEW p \in Nat, NEW h \in Nat, PageAppended(bs, cs, h, f, p)
  PROVE  Heard(form, cs) = AndThen(Heard(form, bs), f, p)
<1> DEFINE H == HeardOnPages(bs)
           G == HeardOnPages(cs)
<1>0. Extends(bs, cs)
  BY DEF PageAppended
<1> USE <1>0
<1> USE DEF PageAppended
<1>1. Len(bs) \in Nat /\ Len(cs) \in Nat /\ Len(bs) <= Len(cs) /\ h \in 1 .. Len(cs) /\ h < Len(cs) /\ h <= Len(bs) + 1
  BY DEF Extends
<1>2. cs[h][1] = "p" /\ cs[h][2] = f /\ PageSize(cs, h) = p - f
  BY DEF PageSize
<1>3. WholePage(cs, h)
  <2>1. ASSUME NEW j \in 1 .. p - f
        PROVE  Is("s", cs, h + j) /\ cs[h + j][2] = f + j - 1
    <3> DEFINE y == f + j - 1
    <3>1. cs[h + j] = <<"s", y>>
      OBVIOUS
    <3>2. h + j \in 1 .. Len(cs)
      BY <1>1
    <3>3. cs[h + j][1] = "s" /\ cs[h + j][2] = y
      <4> HIDE DEF y
      <4> QED
        BY <3>1
    <3> QED
      BY <3>2, <3>3 DEF Is
  <2> QED
    BY <1>1, <1>2, <2>1 DEF WholePage, Is
<1>4. ASSUME NEW k \in 1 .. Len(bs), k < h, WholePage(cs, k)
      PROVE  WholePage(bs, k) /\ k + PageSize(cs, k) < h
  <2> HIDE DEF PageAppended
  <2>0. k \in 1 .. Len(cs) /\ cs[k] = bs[k]
    BY <1>1 DEF Extends
  <2>1. Is("p", cs, k) /\ PageSize(cs, k) = PageSize(bs, k) /\ bs[k][1] = "p"
    BY <1>4, <2>0, WholePageStays DEF WholePage, Is
  <2>2. PageSize(cs, k) \in Int
    BY <2>1, ByteTypes
  <2>3. k + PageSize(cs, k) < h
    <3> SUFFICES ASSUME k + PageSize(cs, k) >= h PROVE FALSE
      BY <2>2
    <3>1. h - k \in 1 .. PageSize(cs, k) /\ k + (h - k) = h
      BY <2>2, <1>4
    <3>2. Is("s", cs, k + (h - k))
      BY <1>4, <3>1 DEF WholePage
    <3> QED
      BY <3>1, <3>2, <1>2 DEF Is
  <2>4. k + PageSize(bs, k) <= Len(bs)
    BY <2>1, <2>2, <2>3, <1>1
  <2>5. ~(k + PageSize(bs, k) > Len(bs))
    BY <2>1, <2>2, <2>4, <1>1
  <2>6. WholePage(bs, k)
    BY <1>4, <2>5, WholePageStays
  <2> QED
    BY <2>3, <2>6
<1>5. ASSUME NEW n \in G, n <= h
      PROVE  n \in H /\ n \in 1 .. Len(bs)
  <2> HIDE DEF PageAppended
  <2>1. PICK k \in 1 .. n - 1 : WholePage(cs, k) /\ n - k <= PageSize(cs, k)
    BY DEF HeardOnPages
  <2>2. n \in 1 .. Len(cs) /\ k < h /\ k \in 1 .. Len(bs)
    BY <2>1, <1>1, <1>5 DEF HeardOnPages
  <2>3. PageSize(cs, k) \in Int
    <3>1. cs[k][1] = "p" /\ k \in 1 .. Len(cs)
      BY <2>1 DEF WholePage, Is
    <3> QED
      BY <3>1, ByteTypes
  <2>4. WholePage(bs, k) /\ k + PageSize(cs, k) < h
    BY <1>4, <2>1, <2>2
  <2>6. PageSize(cs, k) = PageSize(bs, k)
    BY <2>2, WholePageStays
  <2>5. n \in 1 .. Len(bs) /\ n - k <= PageSize(bs, k)
    <3>1. PICK z \in Int : z = PageSize(cs, k)
      BY <2>3
    <3>2. n - k <= z /\ k + z < h /\ z = PageSize(bs, k) /\ n \in Int /\ k \in Int /\ n >= 1
      BY <2>1, <2>2, <2>4, <2>6, <3>1
    <3> QED
      BY <3>2, <1>1
  <2> QED
    BY <2>1, <2>4, <2>5 DEF HeardOnPages
<1>6. ASSUME NEW n \in H
      PROVE  n \in G
  <2> HIDE DEF PageAppended
  <2>1. PICK k \in 1 .. n - 1 : WholePage(bs, k) /\ n - k <= PageSize(bs, k)
    BY DEF HeardOnPages
  <2>2. n \in 1 .. Len(bs) /\ n \in 1 .. Len(cs) /\ k \in 1 .. Len(bs)
    BY <1>1 DEF HeardOnPages
  <2>3. WholePage(cs, k) /\ PageSize(cs, k) = PageSize(bs, k)
    BY <2>1, <2>2, WholePageStays
  <2> QED
    BY <2>1, <2>2, <2>3 DEF HeardOnPages
<1>7. ASSUME NEW n \in h + 1 .. Len(cs)
      PROVE  n \in G /\ cs[n][2] = f + (n - h - 1)
  <2>0. Len(cs) = h + (p - f)
    OBVIOUS
  <2>1. n - h \in 1 .. p - f /\ h + (n - h) = n /\ n \in 1 .. Len(cs) /\ h \in 1 .. n - 1
    <3> HIDE DEF PageAppended
    <3> QED
      BY <1>1, <2>0
  <2>2. n \in G
    BY <2>1, <1>2, <1>3 DEF HeardOnPages
  <2>3. cs[h + (n - h)] = <<"s", f + (n - h) - 1>>
    BY <2>1
  <2>4. cs[n][2] = f + (n - h) - 1
    BY <2>1, <2>3
  <2> QED
    BY <2>1, <2>2, <2>4
<1>8. Readable(H, bs, Len(bs))
  BY PagesReadable
<1> HIDE DEF H, G
<1>9. ReadAlike(H, bs, G, cs, Len(bs))
  BY <1>1, <1>5, <1>6 DEF ReadAlike, Extends
<1>10. \A n \in Len(bs) + 1 .. h : n \notin G
  BY <1>1, <1>5
<1>11. h \in Len(bs) .. Len(cs)
  BY <1>1
<1>14. \A n \in h + 1 .. Len(cs) : n \in G /\ cs[n][2] = f + (n - h - 1)
  BY <1>7
<1>13. p = f + (Len(cs) - h)
  BY <1>1
<1> HIDE DEF PageAppended
<1>12. IsAppended(H, bs, G, cs, h, f, p)
  BY <1>1, <1>8, <1>9, <1>10, <1>11, <1>13, <1>14, Zenon DEF IsAppended
<1>15. SamplesAt(G, cs) = SamplesAt(H, bs) \o Positions(f, p)
  BY <1>12, SamplesAppended
<1> QED
  BY <1>15 DEF Heard, H, G, AndThen

-----------------------------------------------------------------------------
(* The strings of bytes that are written.                                  *)

LEMMA HeaderIsBytes ==
  ASSUME NEW n \in Nat, NEW x \in Nat
  PROVE  Header(n, x) \in Seq(Bytes) /\ Len(Header(n, x)) = n /\ \A k \in 1 .. n : Header(n, x)[k] = <<"h", x>>
<1>1. <<"h", x>> \in Bytes
  BY DEF Bytes
<1> DEFINE y == <<"h", x>>
<1>2. Header(n, x) = [k \in 1 .. n |-> y]
  BY DEF Header
<1> HIDE DEF y
<1>3. y \in Bytes
  BY <1>1 DEF y
<1>4. Header(n, x) \in Seq(Bytes) /\ Len(Header(n, x)) = n /\ \A k \in 1 .. n : Header(n, x)[k] = y
  BY <1>2, <1>3
<1> QED
  BY <1>4 DEF y

LEMMA RawIsBytes ==
  ASSUME NEW n \in Nat, NEW m \in Nat, n <= m
  PROVE  /\ Raw(n, m) \in Seq(Bytes)
         /\ Len(Raw(n, m)) = 2 * (m - n)
         /\ \A k \in 1 .. 2 * (m - n) : Raw(n, m)[k] = <<"s", n + (k - 1) \div 2>>
<1> DEFINE y(k) == <<"s", n + (k - 1) \div 2>>
<1>1. ASSUME NEW k \in 1 .. 2 * (m - n) PROVE y(k) \in Bytes
  <2>1. n + (k - 1) \div 2 \in Nat
    OBVIOUS
  <2> QED
    BY <2>1 DEF Bytes
<1>2. Raw(n, m) = [k \in 1 .. 2 * (m - n) |-> y(k)]
  BY DEF Raw
<1> HIDE DEF y
<1>3. 2 * (m - n) \in Nat
  OBVIOUS
<1>4. /\ Raw(n, m) \in Seq(Bytes)
      /\ Len(Raw(n, m)) = 2 * (m - n)
      /\ \A k \in 1 .. 2 * (m - n) : Raw(n, m)[k] = y(k)
  BY <1>1, <1>2, <1>3
<1> QED
  BY <1>4 DEF y

LEMMA PageIsBytes ==
  ASSUME NEW n \in Nat, NEW m \in Nat, n <= m
  PROVE  /\ PageBody(n, m) \in Seq(Bytes)
         /\ Len(PageBody(n, m)) = m - n
         /\ \A k \in 1 .. m - n : PageBody(n, m)[k] = <<"s", n + k - 1>>
         /\ PageHead(n, m) \in Seq(Bytes)
         /\ Len(PageHead(n, m)) = 1
         /\ PageHead(n, m)[1] = <<"p", n, m>>
<1> DEFINE y(k) == <<"s", n + k - 1>>
           z == <<"p", n, m>>
<1>1. ASSUME NEW k \in 1 .. m - n PROVE y(k) \in Bytes
  <2>1. n + k - 1 \in Nat
    OBVIOUS
  <2> QED
    BY <2>1 DEF Bytes
<1>2. PageBody(n, m) = [k \in 1 .. m - n |-> y(k)] /\ PageHead(n, m) = <<z>>
  BY DEF PageBody, PageHead
<1>3. m - n \in Nat /\ z \in Bytes
  BY DEF Bytes
<1> HIDE DEF y, z
<1>4. /\ PageBody(n, m) \in Seq(Bytes)
      /\ Len(PageBody(n, m)) = m - n
      /\ \A k \in 1 .. m - n : PageBody(n, m)[k] = y(k)
  BY <1>1, <1>2, <1>3
<1>5. PageHead(n, m) \in Seq(Bytes) /\ Len(PageHead(n, m)) = 1 /\ PageHead(n, m)[1] = z
  BY <1>2, <1>3
<1> QED
  BY <1>4, <1>5 DEF y, z

LEMMA Concatenated ==
  ASSUME NEW x \in Seq(Bytes), NEW y \in Seq(Bytes)
  PROVE  /\ x \o y \in Seq(Bytes)
         /\ Len(x \o y) = Len(x) + Len(y)
         /\ \A k \in 1 .. Len(x) : (x \o y)[k] = x[k]
         /\ \A k \in 1 .. Len(y) : (x \o y)[Len(x) + k] = y[k]
<1>1. x \o y \in Seq(Bytes) /\ Len(x \o y) = Len(x) + Len(y) /\ Len(x) \in Nat /\ Len(y) \in Nat
  OBVIOUS
<1>2. \A k \in 1 .. Len(x) : (x \o y)[k] = x[k]
  BY <1>1
<1>3. \A k \in 1 .. Len(y) : (x \o y)[Len(x) + k] = y[k]
  BY <1>1
<1> QED
  BY <1>1, <1>2, <1>3

(* A FLAC frame is one string of bytes.                                    *)
LEMMA FrameIsBytes ==
  ASSUME NEW n \in Nat, NEW m \in Nat, n <= m
  PROVE  LET s == PageHead(n, m) \o PageBody(n, m) IN
         /\ s \in Seq(Bytes)
         /\ Len(s) = 1 + (m - n)
         /\ s[1] = <<"p", n, m>>
         /\ \A k \in 1 .. m - n : s[1 + k] = <<"s", n + k - 1>>
<1> DEFINE x == PageHead(n, m)
           y == PageBody(n, m)
<1>1. /\ y \in Seq(Bytes) /\ Len(y) = m - n /\ \A k \in 1 .. m - n : y[k] = <<"s", n + k - 1>>
      /\ x \in Seq(Bytes) /\ Len(x) = 1 /\ x[1] = <<"p", n, m>>
  BY PageIsBytes
<1> HIDE DEF x, y
<1>0. x \in Seq(Bytes) /\ y \in Seq(Bytes) /\ Len(x) = 1 /\ Len(y) = m - n /\ m - n \in Nat
  BY <1>1
<1>3. /\ x \o y \in Seq(Bytes) /\ Len(x \o y) = Len(x) + Len(y)
      /\ \A k \in 1 .. Len(x) : (x \o y)[k] = x[k]
      /\ \A k \in 1 .. Len(y) : (x \o y)[Len(x) + k] = y[k]
  BY <1>0, Concatenated
<1> DEFINE z == x \o y
<1> HIDE DEF z
<1>2. z \in Seq(Bytes) /\ Len(z) = 1 + (m - n) /\ z[1] = x[1] /\ \A k \in 1 .. m - n : z[1 + k] = y[k]
  BY <1>0, <1>3 DEF z
<1>4. z[1] = <<"p", n, m>> /\ \A k \in 1 .. m - n : z[1 + k] = <<"s", n + k - 1>>
  BY <1>1, <1>2
<1> QED
  BY <1>2, <1>4 DEF x, y, z

LEMMA FrameIsNoBody ==
  ASSUME NEW n \in Nat, NEW m \in Nat, n <= m
  PROVE  <<PageHead(n, m) \o PageBody(n, m)>> # <<PageBody(n, m)>>
<1> DEFINE x == PageHead(n, m) \o PageBody(n, m)
           y == PageBody(n, m)
<1>1. Len(x) = 1 + (m - n) /\ Len(y) = m - n
  BY FrameIsBytes, PageIsBytes
<1> HIDE DEF x, y
<1>2. x # y
  BY <1>1
<1>3. <<x>> # <<y>>
  BY <1>2
<1> QED
  BY <1>3 DEF x, y

LEMMA OggHeaderType == OggHeader \in Seq(Seq(Bytes))
<1>1. PageHead(0, 0) \in Seq(Bytes) /\ Header(PlainHeader, 0) \in Seq(Bytes)
  BY HeaderAssumption, PageIsBytes, HeaderIsBytes
<1> QED
  BY <1>1 DEF OggHeader

LEMMA QueueTypes ==
  ASSUME NEW n \in Nat, NEW m \in Nat, n <= m
  PROVE  Page(n, m) \in Seq(Seq(Bytes))
<1>1. PageHead(n, m) \in Seq(Bytes) /\ PageBody(n, m) \in Seq(Bytes) /\ PageHead(n, m) \o PageBody(n, m) \in Seq(Bytes)
  BY PageIsBytes
<1> QED
  BY <1>1 DEF Page

-----------------------------------------------------------------------------
(* What psf_fwrite does.                                                   *)

(* The first n bytes of s are on the disk, at p.                           *)
Written(p, s, n) ==
  /\ n \in 0 .. Len(s) /\ n = Sent(p, s)
  /\ bytes' \in Seq(Bytes)
  /\ Len(bytes') = IF p + n > Len(bytes) THEN p + n ELSE Len(bytes)
  /\ \A k \in 1 .. Len(bytes') : bytes'[k] = IF k \in p + 1 .. p + n THEN s[k - p] ELSE bytes[k]
  /\ pos' = p + n
  /\ room' \in Nat /\ (room = 0 => room' = 0)
  /\ n < Len(s) => room' = 0 /\ Len(bytes') = p + n /\ disk' # "fits"
  /\ n = Len(s) => disk' = disk
  /\ disk # "fits" => disk' = disk
  /\ disk' = "full" => room' = 0
  /\ disk' \in {"fits", "full", "relieved"}

(* psf_fwrite with the strings of this module.                             *)
LEMMA WriteWrites ==
  ASSUME bytes \in Seq(Bytes), room \in Nat, disk \in {"fits", "full", "relieved"}, disk = "full" => room = 0,
         NEW p \in 0 .. Len(bytes), NEW s \in Seq(Bytes), psf_fwrite(p, s)
  PROVE  \E n \in Nat : Written(p, s, n)
<1> DEFINE n == Sent(p, s)
           end == IF p + n > Len(bytes) THEN p + n ELSE Len(bytes)
<1>1. Len(bytes) \in Nat /\ Len(s) \in Nat /\ p \in Nat /\ p <= Len(bytes)
  OBVIOUS
<1>2. n = IF Len(s) <= room + Len(bytes) - p THEN Len(s) ELSE room + Len(bytes) - p
  BY DEF Sent
<1>3. /\ bytes' = [k \in 1 .. end |-> IF k \in p + 1 .. p + n THEN s[k - p] ELSE bytes[k]]
      /\ pos' = p + n
      /\ room' = room - (end - Len(bytes))
      /\ disk' = IF n < Len(s) /\ disk = "fits" THEN "full" ELSE disk
  BY DEF psf_fwrite
<1>4. n \in 0 .. Len(s) /\ end \in Nat /\ n <= room + Len(bytes) - p
      /\ end = IF p + n > Len(bytes) THEN p + n ELSE Len(bytes)
  <2> HIDE DEF n
  <2> QED
    BY <1>1, <1>2
<1>41. n < Len(s) => n = room + Len(bytes) - p
  <2> HIDE DEF n
  <2> QED
    BY <1>1, <1>2
<1> HIDE DEF n, end
<1>5. ASSUME NEW k \in 1 .. end
      PROVE  (IF k \in p + 1 .. p + n THEN s[k - p] ELSE bytes[k]) \in Bytes
  <2>1. CASE k \in p + 1 .. p + n
    <3>1. k - p \in 1 .. Len(s)
      BY <2>1, <1>1, <1>4
    <3> QED
      BY <2>1, <3>1
  <2>2. CASE k \notin p + 1 .. p + n
    <3>1. k \in 1 .. Len(bytes)
      BY <2>2, <1>1, <1>4
    <3> QED
      BY <2>2, <3>1
  <2> QED
    BY <2>1, <2>2
<1>6. bytes' \in Seq(Bytes) /\ Len(bytes') = end
      /\ \A k \in 1 .. end : bytes'[k] = IF k \in p + 1 .. p + n THEN s[k - p] ELSE bytes[k]
  BY <1>3, <1>4, <1>5
<1>7. room' \in Nat /\ (room = 0 => room' = 0) /\ (n < Len(s) => room' = 0 /\ end = p + n)
  <2>1. PICK l \in Nat, q \in Nat, e \in Nat : l = Len(bytes) /\ q = Len(s) /\ e = end
    BY <1>1, <1>4
  <2>2. /\ n \in Nat /\ p \in Nat /\ p <= l /\ n <= room + l - p /\ room' = room - (e - l)
        /\ e = IF p + n > l THEN p + n ELSE l
        /\ n < q => n = room + l - p
    BY <1>1, <1>3, <1>4, <1>41, <2>1
  <2>3. room' \in Nat /\ (room = 0 => room' = 0) /\ (n < q => room' = 0 /\ e = p + n)
    BY <2>2
  <2> QED
    BY <2>1, <2>3
<1>8. /\ n < Len(s) => disk' # "fits"
      /\ n = Len(s) => disk' = disk
      /\ disk # "fits" => disk' = disk
      /\ disk' = "full" => room' = 0
      /\ disk' \in {"fits", "full", "relieved"}
  BY <1>1, <1>3, <1>4, <1>7
<1>9. n = Sent(p, s) /\ n \in Nat
  BY <1>4 DEF n
<1>10. Written(p, s, n)
  BY <1>3, <1>4, <1>6, <1>7, <1>8, <1>9 DEF Written
<1> QED
  BY <1>9, <1>10

-----------------------------------------------------------------------------
(* Types.                                                                  *)

(* What each step hands to psf_fwrite, and where.                          *)
LEMMA StepWrites ==
  ASSUME LibInv
  PROVE  /\ OpenWav => \E n \in Nat : Written(0, Header(PlainHeader, 0), n)
         /\ WriteWavHeader => \E n \in Nat : Written(0, Header(HeaderSize, 0), n)
         /\ CloseWav => \E n \in Nat : Written(0, Header(HeaderSize, write_current), n)
         /\ WriteWavSamples =>
              /\ pos = Len(bytes) /\ handed - asked \in Nat
              /\ \E n \in Nat : Written(Len(bytes), Raw(handed - asked, handed), n)
         /\ WriteFlacHeader => pos = Len(bytes) /\ \E n \in Nat : Written(Len(bytes), Header(PlainHeader, 0), n)
         /\ WritePage => pos = Len(bytes) /\ \E n \in Nat : Written(Len(bytes), Head(queue), n)
<1>1. /\ bytes \in Seq(Bytes) /\ room \in Nat /\ disk \in {"fits", "full", "relieved"} /\ (disk = "full" => room = 0)
      /\ Len(bytes) \in Nat /\ queue \in Seq(Seq(Bytes)) /\ write_current \in Nat /\ handed \in Nat /\ asked \in Nat
  BY DEF LibInv, LibType, CallInv
<1>2. HeaderSize \in Nat /\ 0 \in 0 .. Len(bytes) /\ Len(bytes) \in 0 .. Len(bytes)
  BY HeaderAssumption, <1>1 DEF HeaderSize
<1>3. ASSUME OpenWav
      PROVE  \E n \in Nat : Written(0, Header(PlainHeader, 0), n)
  <2>1. psf_fwrite(0, Header(PlainHeader, 0))
    BY <1>3 DEF OpenWav
  <2>2. Header(PlainHeader, 0) \in Seq(Bytes)
    BY HeaderAssumption, <1>1, <1>2, HeaderIsBytes
  <2> QED
    BY <1>1, <1>2, <2>1, <2>2, WriteWrites
<1>4. ASSUME WriteWavHeader
      PROVE  \E n \in Nat : Written(0, Header(HeaderSize, 0), n)
  <2>1. psf_fwrite(0, Header(HeaderSize, 0))
    BY <1>4 DEF WriteWavHeader
  <2>2. Header(HeaderSize, 0) \in Seq(Bytes)
    BY <1>1, <1>2, HeaderIsBytes
  <2> QED
    BY <1>1, <1>2, <2>1, <2>2, WriteWrites
<1>5. ASSUME CloseWav
      PROVE  \E n \in Nat : Written(0, Header(HeaderSize, write_current), n)
  <2>1. psf_fwrite(0, Header(HeaderSize, write_current))
    BY <1>5 DEF CloseWav
  <2>2. Header(HeaderSize, write_current) \in Seq(Bytes)
    BY <1>1, <1>2, HeaderIsBytes
  <2> QED
    BY <1>1, <1>2, <2>1, <2>2, WriteWrites
<1>6. ASSUME WriteWavSamples
      PROVE  /\ pos = Len(bytes) /\ handed - asked \in Nat
             /\ \E n \in Nat : Written(Len(bytes), Raw(handed - asked, handed), n)
  <2>1. at = "samples" /\ format = "wav" /\ psf_fwrite(pos, Raw(handed - asked, handed))
    BY <1>6 DEF WriteWavSamples
  <2>2. PICK a \in 0 .. Len(bytes), o \in 0 .. Len(bytes), c \in Nat : Wav(a, o, c)
    BY <2>1, <1>1 DEF LibInv, WavInv
  <2>3. pos = Len(bytes)
    BY <2>1, <2>2 DEF Wav, InStep
  <2>4. handed - asked \in Nat /\ handed - asked <= handed
    BY <1>1, <2>1 DEF LibInv, CallInv
  <2>5. Raw(handed - asked, handed) \in Seq(Bytes)
    BY <1>1, <2>4, RawIsBytes
  <2> QED
    BY <1>1, <1>2, <2>1, <2>3, <2>4, <2>5, WriteWrites
<1>7. ASSUME format # "wav"
      PROVE  pos = Len(bytes)
  BY <1>7 DEF LibInv, CodecInv
<1>8. ASSUME WriteFlacHeader
      PROVE  pos = Len(bytes) /\ \E n \in Nat : Written(Len(bytes), Header(PlainHeader, 0), n)
  <2>1. psf_fwrite(pos, Header(PlainHeader, 0)) /\ format # "wav"
    BY <1>8 DEF WriteFlacHeader
  <2>2. Header(PlainHeader, 0) \in Seq(Bytes)
    BY HeaderAssumption, HeaderIsBytes
  <2> QED
    BY <1>1, <1>2, <1>7, <2>1, <2>2, WriteWrites
<1>9. ASSUME WritePage
      PROVE  pos = Len(bytes) /\ \E n \in Nat : Written(Len(bytes), Head(queue), n)
  <2>1. queue # <<>> /\ psf_fwrite(pos, Head(queue))
    BY <1>9 DEF WritePage
  <2>2. format # "wav"
    BY <2>1 DEF LibInv, WavInv
  <2>3. Head(queue) \in Seq(Bytes)
    BY <1>1, <2>1
  <2> QED
    BY <1>1, <1>2, <1>7, <2>1, <2>2, <2>3, WriteWrites
<1> QED
  BY <1>3, <1>4, <1>5, <1>6, <1>8, <1>9, Zenon

(* Every step keeps the parts of the invariant that are not about the      *)
(* file's bytes.                                                           *)
LEMMA TypeKept ==
  ASSUME LibInv, LibNext
  PROVE  LibType'
<1> USE DEF client, psf, storage
<1>1. LibType
  BY DEF LibInv
<1>2. ASSUME NEW p, NEW s, NEW n \in Nat, Written(p, s, n), p \in Nat
      PROVE  pos' \in Nat /\ room' \in Nat /\ bytes' \in Seq(Bytes) /\ disk' \in {"fits", "full", "relieved"}
  BY <1>2 DEF Written
<1>3. ASSUME OpenWav \/ WriteWavHeader \/ CloseWav \/ WriteWavSamples \/ WriteFlacHeader \/ WritePage
      PROVE  pos' \in Nat /\ room' \in Nat /\ bytes' \in Seq(Bytes) /\ disk' \in {"fits", "full", "relieved"}
  <2>1. Len(bytes) \in Nat
    BY <1>1 DEF LibType
  <2> QED
    BY <1>2, <1>3, <2>1, StepWrites
<1>4. CASE OpenFails
  BY <1>1, <1>4 DEF OpenFails, LibType
<1>5. CASE OpenCodec
  BY <1>1, <1>5 DEF OpenCodec, LibType
<1>6. CASE OpenWav
  BY <1>1, <1>3, <1>6 DEF OpenWav, LibType
<1>7. CASE SetString
  BY <1>1, <1>7 DEF SetString, LibType
<1>8. CASE RefusePiece
  BY <1>1, <1>8 DEF RefusePiece, Begin, LibType
<1>9. CASE TakePiece
  BY <1>1, <1>9 DEF TakePiece, Begin, LibType
<1>10. CASE WriteWavHeader
  BY <1>1, <1>3, <1>10 DEF WriteWavHeader, LibType
<1>11. CASE WriteFlacHeader
  BY <1>1, <1>3, <1>11 DEF WriteFlacHeader, LibType
<1>12. CASE WriteOggHeader
  <2>1. OggHeader \in Seq(Seq(Bytes))
    BY OggHeaderType
  <2> QED
    BY <1>1, <1>12, <2>1 DEF WriteOggHeader, LibType
<1>13. CASE WriteWavSamples
  <2> DEFINE s == Raw(handed - asked, handed)
  <2>1. PICK n \in Nat : pos = Len(bytes) /\ Written(Len(bytes), s, n)
    BY <1>13, StepWrites
  <2>2. Sent(pos, s) = n /\ count' = Items(Sent(pos, s))
    BY <1>13, <2>1 DEF WriteWavSamples, Written
  <2>3. count' = n \div 2
    BY <2>2 DEF Items
  <2>4. count' \in Nat /\ write_current' \in Nat
    BY <1>1, <1>13, <2>3 DEF WriteWavSamples, FramesIn, LibType
  <2> QED
    BY <1>1, <1>3, <1>13, <2>4 DEF WriteWavSamples, LibType
<1>14. CASE EncodeIntoNull
  BY <1>1, <1>14 DEF EncodeIntoNull, LibType
<1>15. CASE CutPage
  <2>1. PICK p \in Frames(paged) : queue' = Page(FirstKept, p) /\ paged' = p
    BY <1>15 DEF CutPage
  <2>2. p \in Nat /\ paged \in Nat /\ paged <= p
    BY <1>1, <2>1 DEF LibType, Frames
  <2>3. queue' \in Seq(Seq(Bytes))
    BY <2>1, <2>2, QueueTypes DEF FirstKept
  <2> QED
    BY <1>1, <1>15, <2>1, <2>2, <2>3 DEF CutPage, LibType
<1>16. CASE WritePage
  <2>1. queue' \in Seq(Seq(Bytes)) /\ encoder' \in {"none", "ready", "failed"}
    <3>1. queue \in Seq(Seq(Bytes)) /\ queue # <<>>
      BY <1>1, <1>16 DEF LibType, WritePage
    <3>2. Tail(queue) \in Seq(Seq(Bytes))
      BY <3>1
    <3>3. <<>> \in Seq(Seq(Bytes))
      OBVIOUS
    <3> QED
      BY <1>1, <1>16, <3>2, <3>3 DEF WritePage, QueueAfter, LibType
  <2> QED
    BY <1>1, <1>3, <1>16, <2>1 DEF WritePage, LibType
<1>17. CASE Encoded
  <2>0. count' \in {n \in 0 .. asked - 1 : n % 2 = 0} \/ count' \in {asked}
    BY <1>17, Zenon DEF Encoded
  <2>1. count' \in Nat /\ write_current \in Nat
    BY <1>1, <2>0 DEF LibType
  <2>2. write_current' = write_current + count' \div 2
    BY <1>17 DEF Encoded, FramesIn
  <2>3. write_current' \in Nat
    <3>1. PICK k \in Nat : k = count'
      BY <2>1
    <3>2. k \div 2 \in Nat
      OBVIOUS
    <3>3. write_current' = write_current + k \div 2
      BY <2>2, <3>1
    <3> QED
      BY <2>1, <3>2, <3>3
  <2> QED
    BY <1>1, <1>17, <2>1, <2>3 DEF Encoded, LibType
<1>18. CASE Return
  BY <1>1, <1>18 DEF Return, LibType
<1>19. CASE CloseNull
  BY <1>1, <1>19 DEF CloseNull, LibType
<1>20. CASE StartClosing
  BY <1>1, <1>20 DEF StartClosing, LibType
<1>21. CASE CloseWav
  BY <1>1, <1>3, <1>21 DEF CloseWav, LibType
<1>22. CASE FinishEncoding
  <2>1. OggHeader \in Seq(Seq(Bytes))
    BY OggHeaderType
  <2>2. <<>> \in Seq(Seq(Bytes))
    OBVIOUS
  <2> QED
    BY <1>1, <1>22, <2>1, <2>2 DEF FinishEncoding, LibType
<1>23. CASE FinishNothing
  BY <1>1, <1>23 DEF FinishNothing, LibType
<1>24. CASE psf_fclose
  BY <1>1, <1>24 DEF psf_fclose, LibType
<1>25. CASE Relieve
  BY RoomAssumption, <1>1, <1>25 DEF Relieve, LibType
<1> QED
  BY <1>4, <1>5, <1>6, <1>7, <1>8, <1>9, <1>10, <1>11, <1>12, <1>13, <1>14, <1>15, <1>16, <1>17,
     <1>18, <1>19, <1>20, <1>21, <1>22, <1>23, <1>24, <1>25, LibNext DEF LibNext, Library, Program

LEMMA CallKept ==
  ASSUME LibInv, LibNext
  PROVE  CallInv'
<1> USE DEF client, psf, storage
<1>1. LibType /\ CallInv
  BY DEF LibInv
<1>2. ASSUME OpenWav \/ WriteWavHeader \/ CloseWav \/ WriteWavSamples \/ WriteFlacHeader \/ WritePage
      PROVE  disk' = "full" => room' = 0
  BY <1>2, StepWrites DEF Written
<1> USE <1>1
<1>4. CASE OpenFails
  BY <1>4 DEF OpenFails, LibType, CallInv
<1>5. CASE OpenCodec
  BY <1>5 DEF OpenCodec, LibType, CallInv
<1>6. CASE OpenWav
  BY <1>2, <1>6 DEF OpenWav, LibType, CallInv
<1>7. CASE SetString
  BY <1>7 DEF SetString, LibType, CallInv
<1>8. CASE RefusePiece
  BY BoundAssumption, <1>8 DEF RefusePiece, Begin, LibType, CallInv
<1>9. CASE TakePiece
  <2>1. PICK n \in 1 .. MaxPiece :
          handle = "open" /\ n % 2 = 0 /\ Begin(n, n, IF have_written THEN "samples" ELSE "header")
    BY <1>9 DEF TakePiece
  <2>2. n \in Nat /\ n > 0 /\ handed \in Nat /\ paged \in Nat /\ handed % 2 = 0
    BY <2>1, BoundAssumption DEF LibType, CallInv
  <2>3. (handed + n) % 2 = 0
    BY <2>1, <2>2, SumOfEven
  <2> QED
    BY <2>1, <2>2, <2>3 DEF Begin, LibType, CallInv
<1>10. CASE WriteWavHeader
  BY <1>2, <1>10 DEF WriteWavHeader, LibType, CallInv
<1>11. CASE WriteFlacHeader
  BY <1>2, <1>11 DEF WriteFlacHeader, LibType, CallInv
<1>12. CASE WriteOggHeader
  BY <1>12 DEF WriteOggHeader, LibType, CallInv
<1>13. CASE WriteWavSamples
  <2> DEFINE s == Raw(handed - asked, handed)
  <2>1. PICK n \in Nat : pos = Len(bytes) /\ handed - asked \in Nat /\ Written(Len(bytes), s, n)
    BY <1>13, StepWrites
  <2>2. Sent(pos, s) = n /\ count' = Items(Sent(pos, s)) /\ n <= Len(s)
    BY <1>13, <2>1 DEF WriteWavSamples, Written
  <2>3. at = "samples" /\ asked \in Nat /\ handed \in Nat /\ asked <= handed
    BY <1>13 DEF WriteWavSamples, LibType, CallInv
  <2>4. Len(s) = 2 * asked
    <3>0. handed - asked <= handed
      BY <2>3
    <3>1. Len(s) = 2 * (handed - (handed - asked))
      BY <2>1, <2>3, <3>0, RawIsBytes
    <3> QED
      BY <3>1, <2>3
  <2>5. count' <= asked
    BY <2>2, <2>3, <2>4 DEF Items
  <2> QED
    BY <1>2, <1>13, <2>5 DEF WriteWavSamples, LibType, CallInv
<1>14. CASE EncodeIntoNull
  BY <1>14 DEF EncodeIntoNull, LibType, CallInv
<1>15. CASE CutPage
  <2>1. \E p \in Frames(paged) : paged' = p
    BY <1>15 DEF CutPage
  <2>2. paged' <= handed
    BY <2>1 DEF Frames, LibType, CallInv
  <2> QED
    BY <1>15, <2>2 DEF CutPage, LibType, CallInv
<1>16. CASE WritePage
  <2>1. queue # <<>> /\ format # "wav"
    BY <1>16 DEF WritePage, LibInv, WavInv
  <2>2. at \in {"samples", "finish"}
    BY <2>1 DEF LibInv, CodecInv
  <2>3. handle # "crashed" /\ handle # "unopened"
    BY <2>1, <2>2 DEF LibInv, FlacInv, CallInv
  <2> QED
    BY <1>2, <1>16, <2>2, <2>3 DEF WritePage, LibType, CallInv
<1>17. CASE Encoded
  <2>1. count' \in {n \in 0 .. asked - 1 : n % 2 = 0} \/ count' \in {asked}
    BY <1>17, Zenon DEF Encoded
  <2>2. count' <= asked
    BY <2>1 DEF LibType
  <2>3. /\ at = "samples" /\ at' = "return" /\ asked' = asked /\ handed' = handed /\ paged' = paged
        /\ handle = "open" /\ handle' = "open" /\ have_written' = have_written /\ tagged' = tagged
        /\ format' = format /\ encoder' = encoder /\ disk' = disk /\ room' = room /\ good' = good
    BY <1>17 DEF Encoded, LibType, CallInv
  <2> QED
    BY <2>2, <2>3 DEF LibType, CallInv
<1>18. CASE Return
  BY <1>18 DEF Return, LibType, CallInv
<1>19. CASE CloseNull
  BY <1>19 DEF CloseNull, LibType, CallInv
<1>20. CASE StartClosing
  BY <1>20 DEF StartClosing, LibType, CallInv
<1>21. CASE CloseWav
  BY <1>2, <1>21 DEF CloseWav, LibType, CallInv
<1>22. CASE FinishEncoding
  BY <1>22 DEF FinishEncoding, LibType, CallInv
<1>23. CASE FinishNothing
  BY <1>23 DEF FinishNothing, LibType, CallInv
<1>24. CASE psf_fclose
  BY <1>24 DEF psf_fclose, LibType, CallInv
<1>25. CASE Relieve
  BY <1>25 DEF Relieve, LibType, CallInv
<1> QED
  BY <1>4, <1>5, <1>6, <1>7, <1>8, <1>9, <1>10, <1>11, <1>12, <1>13, <1>14, <1>15,
     <1>16, <1>17, <1>18, <1>19, <1>20, <1>21, <1>22, <1>23, <1>24, <1>25 DEF LibNext, Library, Program

LEMMA FlacKept ==
  ASSUME LibInv, LibNext
  PROVE  FlacInv'
<1> USE DEF client, psf, storage
<1> SUFFICES ASSUME format = "flac"
             PROVE  FlacInv'
  <2>1. format' = format
    BY DEF LibNext, Library, Program, OpenFails, OpenCodec, OpenWav, SetString, RefusePiece, TakePiece,
           Begin, WriteWavHeader, WriteFlacHeader, WriteOggHeader, WriteWavSamples, EncodeIntoNull, CutPage,
           WritePage, Encoded, Return, CloseNull, StartClosing, CloseWav, FinishEncoding, FinishNothing,
           psf_fclose, Relieve
  <2> QED
    BY <2>1 DEF FlacInv
<1>1. LibType /\ CallInv /\ FlacInv
  BY DEF LibInv
<1> USE <1>1
<1>4. CASE OpenFails
  BY <1>4 DEF OpenFails, LibType, CallInv, FlacInv
<1>5. CASE OpenCodec
  BY <1>5 DEF OpenCodec, LibType, CallInv, FlacInv
<1>6. CASE OpenWav
  BY <1>6 DEF OpenWav
<1>7. CASE SetString
  BY <1>7 DEF SetString, LibType, CallInv, FlacInv
<1>8. CASE RefusePiece
  BY <1>8 DEF RefusePiece, Begin, LibType, CallInv, FlacInv
<1>9. CASE TakePiece
  BY <1>9 DEF TakePiece, Begin, LibType, CallInv, FlacInv
<1>10. CASE WriteWavHeader
  BY <1>10 DEF WriteWavHeader
<1>11. CASE WriteFlacHeader
  <2>1. PICK n \in Nat : pos = Len(bytes) /\ Written(Len(bytes), Header(PlainHeader, 0), n)
    BY <1>11, StepWrites
  <2>2. Len(Header(PlainHeader, 0)) = PlainHeader
    BY HeaderAssumption, HeaderIsBytes
  <2>3. /\ n \in 0 .. PlainHeader /\ pos' = pos + n
        /\ n < PlainHeader => disk' # "fits"
        /\ n = PlainHeader => disk' = disk
    BY <2>1, <2>2 DEF Written
  <2>4. (disk' # "fits" <=> encoder' # "ready") /\ encoder' \in {"ready", "none"}
    BY HeaderAssumption, <1>11, <2>3 DEF WriteFlacHeader, LibType, CallInv, FlacInv
  <2> QED
    BY <1>11, <2>4 DEF WriteFlacHeader, LibType, CallInv, FlacInv
<1>12. CASE WriteOggHeader
  BY <1>12 DEF WriteOggHeader, LibType, CallInv, FlacInv
<1>13. CASE WriteWavSamples
  BY <1>13 DEF WriteWavSamples
<1>14. CASE EncodeIntoNull
  BY <1>14 DEF EncodeIntoNull, LibType, CallInv, FlacInv
<1>15. CASE CutPage
  BY <1>15 DEF CutPage, LibType, CallInv, FlacInv
<1>16. CASE WritePage
  <2>1. PICK n \in Nat : pos = Len(bytes) /\ Written(Len(bytes), Head(queue), n)
    BY <1>16, StepWrites
  <2>2. /\ n \in 0 .. Len(Head(queue)) /\ pos' = pos + n
        /\ n < Len(Head(queue)) => disk' # "fits"
        /\ n = Len(Head(queue)) => disk' = disk
    BY <2>1 DEF Written
  <2>3. Len(Head(queue)) \in Nat
    <3>1. Head(queue) \in Seq(Bytes)
      BY <1>16 DEF LibType, WritePage
    <3> QED
      BY <3>1
  <2>4. \/ encoder' = "failed" /\ queue' = <<>> /\ disk' # "fits"
        \/ encoder' = encoder /\ disk' = disk
    BY <1>16, <2>2, <2>3 DEF WritePage, LibType
  <2>5. queue # <<>> /\ encoder = "ready" /\ at \in {"samples", "finish"} /\ have_written
    BY <1>16 DEF WritePage, LibInv, CodecInv, FlacInv
  <2> QED
    BY <1>16, <2>4, <2>5 DEF WritePage, LibType, CallInv, FlacInv
<1>17. CASE Encoded
  <2>1. \/ count' \in {n \in 0 .. asked - 1 : n % 2 = 0} /\ encoder = "failed"
        \/ count' \in {asked} /\ encoder # "failed"
    BY <1>17, Zenon DEF Encoded
  <2>0. encoder \in {"ready", "failed"} /\ asked \in Nat
    BY <1>17 DEF Encoded, LibType
  <2>2. IF encoder = "ready" THEN count' = asked ELSE count' < asked
    BY <2>0, <2>1
  <2> QED
    BY <1>17, <2>2 DEF Encoded, LibType, CallInv, FlacInv
<1>18. CASE Return
  BY <1>18 DEF Return, LibType, CallInv, FlacInv
<1>19. CASE CloseNull
  BY <1>19 DEF CloseNull, LibType, CallInv, FlacInv
<1>20. CASE StartClosing
  BY <1>20 DEF StartClosing, LibType, CallInv, FlacInv
<1>21. CASE CloseWav
  BY <1>21 DEF CloseWav
<1>22. CASE FinishEncoding
  BY <1>22 DEF FinishEncoding, LibType, CallInv, FlacInv
<1>23. CASE FinishNothing
  BY <1>23 DEF FinishNothing, LibType, CallInv, FlacInv
<1>24. CASE psf_fclose
  BY <1>24 DEF psf_fclose, LibType, CallInv, FlacInv
<1>25. CASE Relieve
  BY <1>25 DEF Relieve, LibType, CallInv, FlacInv
<1> QED
  BY <1>4, <1>5, <1>6, <1>7, <1>8, <1>9, <1>10, <1>11, <1>12, <1>13, <1>14, <1>15,
     <1>16, <1>17, <1>18, <1>19, <1>20, <1>21, <1>22, <1>23, <1>24, <1>25 DEF LibNext, Library, Program

LEMMA OggKept ==
  ASSUME LibInv, LibNext
  PROVE  OggInv'
<1> USE DEF client, psf, storage
<1>1. LibType /\ CallInv /\ OggInv /\ (format # "wav" => (queue # <<>> => at \in {"samples", "finish"}))
  BY DEF LibInv, CodecInv
<1> USE <1>1
<1>4. CASE OpenFails
  BY <1>4 DEF OpenFails, LibType, CallInv, OggInv
<1>5. CASE OpenCodec
  BY <1>5 DEF OpenCodec, LibType, CallInv, OggInv
<1>6. CASE OpenWav
  BY <1>6 DEF OpenWav, LibType, CallInv, OggInv
<1>7. CASE SetString
  BY <1>7 DEF SetString, LibType, CallInv, OggInv
<1>8. CASE RefusePiece
  BY <1>8 DEF RefusePiece, Begin, LibType, CallInv, OggInv
<1>9. CASE TakePiece
  BY <1>9 DEF TakePiece, Begin, LibType, CallInv, OggInv
<1>10. CASE WriteWavHeader
  BY <1>10 DEF WriteWavHeader, LibType, CallInv, OggInv
<1>11. CASE WriteFlacHeader
  BY <1>11 DEF WriteFlacHeader, LibType, CallInv, OggInv
<1>12. CASE WriteOggHeader
  BY <1>12 DEF WriteOggHeader, LibType, CallInv, OggInv
<1>13. CASE WriteWavSamples
  BY <1>13 DEF WriteWavSamples, LibType, CallInv, OggInv
<1>14. CASE EncodeIntoNull
  BY <1>14 DEF EncodeIntoNull, LibType, CallInv, OggInv
<1>15. CASE CutPage
  BY <1>15 DEF CutPage, LibType, CallInv, OggInv
<1>16. CASE WritePage
  BY <1>16 DEF WritePage, LibType, CallInv, OggInv
<1>17. CASE Encoded
  <2>1. \/ count' \in {n \in 0 .. asked - 1 : n % 2 = 0} /\ encoder = "failed"
        \/ count' = asked
    BY <1>17, Zenon DEF Encoded
  <2> QED
    BY <1>17, <2>1 DEF Encoded, OggInv
<1>18. CASE Return
  BY <1>18 DEF Return, LibType, CallInv, OggInv
<1>19. CASE CloseNull
  BY <1>19 DEF CloseNull, LibType, CallInv, OggInv
<1>20. CASE StartClosing
  BY <1>20 DEF StartClosing, LibType, CallInv, OggInv
<1>21. CASE CloseWav
  BY <1>21 DEF CloseWav, LibType, CallInv, OggInv
<1>22. CASE FinishEncoding
  BY <1>22 DEF FinishEncoding, LibType, CallInv, OggInv
<1>23. CASE FinishNothing
  BY <1>23 DEF FinishNothing, LibType, CallInv, OggInv
<1>24. CASE psf_fclose
  BY <1>24 DEF psf_fclose, LibType, CallInv, OggInv
<1>25. CASE Relieve
  BY <1>25 DEF Relieve, LibType, CallInv, OggInv
<1> QED
  BY <1>4, <1>5, <1>6, <1>7, <1>8, <1>9, <1>10, <1>11, <1>12, <1>13, <1>14, <1>15,
     <1>16, <1>17, <1>18, <1>19, <1>20, <1>21, <1>22, <1>23, <1>24, <1>25 DEF LibNext, Library, Program

-----------------------------------------------------------------------------
(* WAV: where the bytes are.                                               *)

LEMMA FormatStays == LibNext => format' = format
  BY DEF LibNext, Library, Program, OpenFails, OpenCodec, OpenWav, SetString, RefusePiece, TakePiece,
         Begin, WriteWavHeader, WriteFlacHeader, WriteOggHeader, WriteWavSamples, EncodeIntoNull, CutPage,
         WritePage, Encoded, Return, CloseNull, StartClosing, CloseWav, FinishEncoding, FinishNothing,
         psf_fclose, Relieve, client

(* What is about the state and not about the shape of the file.            *)
WavState ==
  /\ encoder = "none" /\ paged = 0 /\ queue = <<>>
  /\ handle = "open" /\ ~have_written => disk = "fits"
  /\ handle = "null" => write_current = 0
  /\ at # "finish"

(* The steps that leave a WAV file as it is.                               *)
LEMMA WavQuietKept ==
  ASSUME LibInv, format = "wav", NEW a \in 0 .. Len(bytes), NEW o \in 0 .. a, NEW c \in Nat, Wav(a, o, c),
         \/ OpenFails \/ OpenCodec \/ SetString \/ RefusePiece \/ TakePiece \/ WriteFlacHeader \/ WriteOggHeader
         \/ EncodeIntoNull \/ CutPage \/ WritePage \/ Encoded \/ Return \/ CloseNull \/ StartClosing
         \/ FinishEncoding \/ FinishNothing \/ psf_fclose \/ Relieve
  PROVE  WavState' /\ Wav(a, o, c)' /\ bytes' = bytes
<1> USE DEF client, psf, storage
<1>1. LibType /\ CallInv /\ WavState
  BY DEF LibInv, WavInv, WavState
<1> USE <1>1
<1>2. Len(bytes) \in Nat /\ a \in Nat /\ o \in Nat /\ HeaderSize \in Nat /\ PlainHeader < TaggedHeader
  BY HeaderAssumption DEF LibType, HeaderSize
<1> USE <1>2
<1>4. CASE OpenFails
  BY <1>4 DEF OpenFails, LibType, CallInv, WavState, Wav, InStep, HeaderSize
<1>5. CASE OpenCodec
  BY <1>5 DEF OpenCodec, LibType, CallInv, WavState, Wav, InStep, HeaderSize
<1>7. CASE SetString
  BY HeaderAssumption, <1>7 DEF SetString, LibType, CallInv, WavState, Wav, InStep, HeaderSize
<1>8. CASE RefusePiece
  BY <1>8 DEF RefusePiece, Begin, LibType, CallInv, WavState, Wav, InStep, HeaderSize
<1>9. CASE TakePiece
  BY <1>9 DEF TakePiece, Begin, LibType, CallInv, WavState, Wav, InStep, HeaderSize
<1>11. CASE WriteFlacHeader
  BY <1>11 DEF WriteFlacHeader, LibType, CallInv, WavState, Wav, InStep, HeaderSize
<1>12. CASE WriteOggHeader
  BY <1>12 DEF WriteOggHeader, LibType, CallInv, WavState, Wav, InStep, HeaderSize
<1>14. CASE EncodeIntoNull
  BY <1>14 DEF EncodeIntoNull, LibType, CallInv, WavState, Wav, InStep, HeaderSize
<1>15. CASE CutPage
  BY <1>15 DEF CutPage, LibType, CallInv, WavState, Wav, InStep, HeaderSize
<1>16. CASE WritePage
  BY <1>16 DEF WritePage, LibType, CallInv, WavState, Wav, InStep, HeaderSize
<1>17. CASE Encoded
  BY <1>17 DEF Encoded, LibType, CallInv, WavState, Wav, InStep, HeaderSize
<1>18. CASE Return
  BY <1>18 DEF Return, LibType, CallInv, WavState, Wav, InStep, HeaderSize
<1>19. CASE CloseNull
  BY <1>19 DEF CloseNull, LibType, CallInv, WavState, Wav, InStep, HeaderSize
<1>20. CASE StartClosing
  BY <1>20 DEF StartClosing, LibType, CallInv, WavState, Wav, InStep, HeaderSize
<1>22. CASE FinishEncoding
  BY <1>22 DEF FinishEncoding, LibType, CallInv, WavState, Wav, InStep, HeaderSize
<1>23. CASE FinishNothing
  BY <1>23 DEF FinishNothing, LibType, CallInv, WavState, Wav, InStep, HeaderSize
<1>24. CASE psf_fclose
  BY <1>24 DEF psf_fclose, LibType, CallInv, WavState, Wav, InStep, HeaderSize
<1>25. CASE Relieve
  BY <1>25 DEF Relieve, LibType, CallInv, WavState, Wav, InStep, HeaderSize
<1> QED
  BY <1>4, <1>5, <1>7, <1>8, <1>9, <1>11, <1>12, <1>14, <1>15, <1>16, <1>17, <1>18, <1>19, <1>20, <1>22, <1>23, <1>24, <1>25

(* Writing a header over the beginning, the shape of the file stays.       *)
LEMMA HeaderWritten ==
  ASSUME bytes \in Seq(Bytes), NEW m \in Nat, NEW c \in Nat, NEW n \in Nat, Written(0, Header(m, c), n)
  PROVE  /\ n <= m /\ pos' = n /\ Len(bytes') = (IF n > Len(bytes) THEN n ELSE Len(bytes))
         /\ \A k \in 1 .. n : bytes'[k] = <<"h", c>>
         /\ \A k \in n + 1 .. Len(bytes') : bytes'[k] = bytes[k] /\ k <= Len(bytes)
         /\ n < m => Len(bytes') = n /\ disk' # "fits"
         /\ n = m => disk' = disk
         /\ disk # "fits" => disk' = disk
<1>1. /\ Header(m, c) \in Seq(Bytes) /\ Len(Header(m, c)) = m
      /\ \A k \in 1 .. m : Header(m, c)[k] = <<"h", c>>
  BY HeaderIsBytes
<1> DEFINE s == Header(m, c)
           y == <<"h", c>>
<1> HIDE DEF s, y
<1>2. Len(s) = m /\ (\A k \in 1 .. m : s[k] = y) /\ Written(0, s, n) /\ Len(bytes) \in Nat
  BY <1>1 DEF s, y
<1>3. /\ n <= m /\ pos' = n /\ Len(bytes') = (IF n > Len(bytes) THEN n ELSE Len(bytes))
      /\ \A k \in 1 .. Len(bytes') : bytes'[k] = IF k \in 0 + 1 .. 0 + n THEN s[k - 0] ELSE bytes[k]
      /\ n < m => Len(bytes') = n /\ disk' # "fits"
      /\ n = m => disk' = disk
      /\ disk # "fits" => disk' = disk
  BY <1>2 DEF Written
<1>4. Len(bytes') \in Nat /\ n <= Len(bytes')
  BY <1>2, <1>3
<1>5. \A k \in 1 .. n : bytes'[k] = y
  BY <1>2, <1>3, <1>4
<1>6. \A k \in n + 1 .. Len(bytes') : bytes'[k] = bytes[k] /\ k <= Len(bytes)
  BY <1>2, <1>3, <1>4
<1> QED
  BY <1>3, <1>5, <1>6 DEF y

(* The four steps that write to a WAV file.                                *)
LEMMA OpenWavKept ==
  ASSUME LibInv, OpenWav, NEW a \in 0 .. Len(bytes), NEW o \in 0 .. a, NEW c \in Nat, Wav(a, o, c)
  PROVE  WavState' /\ \E x \in 0 .. Len(bytes') : Wav(x, x, 0)'
<1> USE DEF client
<1>1. LibType /\ CallInv /\ WavState
  BY DEF LibInv, WavInv, WavState, OpenWav
<1>2. PICK n \in Nat : Written(0, Header(PlainHeader, 0), n)
  BY StepWrites
<1>3. handle = "unopened" /\ bytes = <<>> /\ bytes \in Seq(Bytes) /\ Len(bytes) = 0 /\ disk = "fits" /\ a = 0
  BY <1>1 DEF OpenWav, CallInv, LibType
<1>4. /\ n <= PlainHeader /\ pos' = n /\ Len(bytes') = (IF n > Len(bytes) THEN n ELSE Len(bytes))
      /\ \A k \in 1 .. n : bytes'[k] = <<"h", 0>>
      /\ n < PlainHeader => disk' # "fits"
      /\ n = PlainHeader => disk' = disk
  <2>1. PICK m \in Nat, x \in Nat : m = PlainHeader /\ x = 0
    BY HeaderAssumption
  <2>2. Written(0, Header(m, x), n)
    BY <1>2, <2>1
  <2>3. /\ n <= m /\ pos' = n /\ Len(bytes') = (IF n > Len(bytes) THEN n ELSE Len(bytes))
        /\ \A k \in 1 .. n : bytes'[k] = <<"h", x>>
        /\ \A k \in n + 1 .. Len(bytes') : bytes'[k] = bytes[k] /\ k <= Len(bytes)
        /\ n < m => Len(bytes') = n /\ disk' # "fits"
        /\ n = m => disk' = disk
        /\ disk # "fits" => disk' = disk
    BY <1>3, <2>2, HeaderWritten
  <2> QED
    BY <2>1, <2>3
<1>5. Len(bytes') = n /\ WavShape(bytes', n, n, 0) /\ n \in 0 .. Len(bytes')
  BY <1>3, <1>4 DEF WavShape
<1>6. /\ format = "wav" /\ UNCHANGED <<format, handed, asked, good, tagged, have_written, write_current, encoder, paged, queue, count, at>>
      /\ handle' = IF pos' = PlainHeader THEN "open" ELSE "null"
  BY DEF OpenWav
<1>7. at = "idle" /\ ~have_written /\ handed = 0 /\ ~tagged /\ write_current = 0
  BY <1>1, <1>3 DEF CallInv, LibType, Wav
<1>8. WavState'
  BY <1>1, <1>3, <1>4, <1>6, <1>7 DEF WavState
<1>9. Wav(n, n, 0)'
  BY <1>1, <1>3, <1>4, <1>5, <1>6, <1>7 DEF Wav, InStep, HeaderSize
<1> QED
  BY <1>5, <1>8, <1>9

LEMMA WriteWavHeaderKept ==
  ASSUME LibInv, WriteWavHeader, NEW a \in 0 .. Len(bytes), NEW o \in 0 .. a, NEW c \in Nat, Wav(a, o, c)
  PROVE  WavState' /\ \E x \in 0 .. Len(bytes') : Wav(x, x, 0)'
<1> USE DEF client
<1>1. LibType /\ CallInv /\ WavState
  BY DEF LibInv, WavInv, WavState, WriteWavHeader
<1>2. PICK n \in Nat : Written(0, Header(HeaderSize, 0), n)
  BY StepWrites
<1>3. HeaderSize \in Nat /\ bytes \in Seq(Bytes) /\ Len(bytes) \in Nat
  BY HeaderAssumption, <1>1 DEF LibType, HeaderSize
<1>31. /\ at = "header" /\ handle = "open" /\ ~have_written /\ disk = "fits" /\ a = Len(bytes) /\ a <= HeaderSize
       /\ handed = asked /\ asked \in Nat /\ write_current = 0
  BY <1>1 DEF WriteWavHeader, CallInv, LibType, WavState, Wav
<1>4. /\ n <= HeaderSize /\ pos' = n /\ Len(bytes') = (IF n > Len(bytes) THEN n ELSE Len(bytes))
      /\ \A k \in 1 .. n : bytes'[k] = <<"h", 0>>
      /\ \A k \in n + 1 .. Len(bytes') : bytes'[k] = bytes[k] /\ k <= Len(bytes)
      /\ n < HeaderSize => Len(bytes') = n /\ disk' # "fits"
      /\ n = HeaderSize => disk' = disk
      /\ disk # "fits" => disk' = disk
  <2>1. PICK m \in Nat, x \in Nat : m = HeaderSize /\ x = 0
    BY <1>3
  <2>2. Written(0, Header(m, x), n)
    BY <1>2, <2>1
  <2> QED
    BY <1>3, <2>1, <2>2, HeaderWritten
<1>5. Len(bytes') = n
  BY <1>3, <1>31, <1>4
<1>51. WavShape(bytes', n, n, 0) /\ n \in 0 .. Len(bytes')
  BY <1>4, <1>5 DEF WavShape
<1>6. /\ format = "wav" /\ UNCHANGED <<format, handed, asked, good, handle, tagged, write_current, encoder, paged, queue, count>>
      /\ have_written' = TRUE /\ at' = "samples"
  BY DEF WriteWavHeader
<1>8. WavState'
  BY <1>1, <1>31, <1>6 DEF WavState
<1>9. Wav(n, n, 0)'
  <2>1. HeaderSize' = HeaderSize
    BY <1>6 DEF HeaderSize
  <2>2. at' = "samples" /\ handle' = "open" /\ have_written' /\ handed' - asked' = 0 /\ write_current' = 0 /\ asked' = asked
        /\ (disk' = "fits" => n = HeaderSize) /\ pos' = n /\ handed' = asked /\ n <= HeaderSize
    BY <1>2, <1>3, <1>31, <1>4, <1>6
  <2>3. Len(bytes') \in Nat /\ n \in Nat /\ n = Len(bytes')
    BY <1>2, <1>5
  <2>4. InStep(n, handed - asked)'
    BY <1>31, <2>2, <2>3 DEF InStep
  <2>5. disk' = "fits" =>
          Len(bytes') = n + 2 * (IF at' \in {"header", "samples"} THEN handed' - asked' ELSE handed')
    BY <1>31, <2>2, <2>3
  <2> QED
    BY <1>3, <1>51, <2>1, <2>2, <2>3, <2>4, <2>5 DEF Wav
<1> QED
  BY <1>51, <1>8, <1>9

LEMMA WriteWavSamplesKept ==
  ASSUME LibInv, WriteWavSamples, NEW a \in 0 .. Len(bytes), NEW o \in 0 .. a, NEW c \in Nat, Wav(a, o, c)
  PROVE  WavState' /\ Wav(a, o, c)' /\ Len(bytes') >= Len(bytes)
<1> USE DEF client
<1>1. LibType /\ CallInv /\ WavState
  BY DEF LibInv, WavInv, WavState, WriteWavSamples
<1> DEFINE s == Raw(handed - asked, handed)
           m == handed - asked
<1>2. PICK n \in Nat : pos = Len(bytes) /\ handed - asked \in Nat /\ Written(Len(bytes), s, n)
  BY StepWrites
<1>3. /\ at = "samples" /\ format = "wav" /\ handle = "open" /\ have_written
      /\ asked \in Nat /\ handed \in Nat /\ asked <= handed /\ asked > 0 /\ asked % 2 = 0
  BY <1>1 DEF WriteWavSamples, LibType, CallInv
<1>4. s \in Seq(Bytes) /\ Len(s) = 2 * asked /\ \A k \in 1 .. 2 * asked : s[k] = <<"s", m + (k - 1) \div 2>>
  <2>1. handed - asked <= handed /\ handed - (handed - asked) = asked
    BY <1>3
  <2>2. /\ s \in Seq(Bytes) /\ Len(s) = 2 * (handed - (handed - asked))
        /\ \A k \in 1 .. 2 * (handed - (handed - asked)) : s[k] = <<"s", m + (k - 1) \div 2>>
    BY <1>2, <1>3, <2>1, RawIsBytes
  <2> QED
    BY <2>1, <2>2
<1>5. m \in Nat /\ m + asked = handed /\ Len(bytes) \in Nat /\ a \in Nat /\ a <= Len(bytes) /\ o \in Nat /\ o <= a
      /\ room \in Nat /\ write_current \in Nat
  BY <1>1, <1>2, <1>3 DEF LibType
<1>6. /\ UNCHANGED <<format, handed, asked, good, handle, tagged, have_written, encoder, paged, queue>>
      /\ count' = Items(Sent(pos, s)) /\ write_current' = write_current + FramesIn(count') /\ at' = "return"
  BY DEF WriteWavSamples
<1> HIDE DEF s
<1>7. /\ n \in 0 .. 2 * asked /\ n = Sent(Len(bytes), s) /\ pos' = Len(bytes) + n /\ bytes' \in Seq(Bytes)
      /\ Len(bytes') = (IF Len(bytes) + n > Len(bytes) THEN Len(bytes) + n ELSE Len(bytes))
      /\ \A k \in 1 .. Len(bytes') : bytes'[k] = IF k \in Len(bytes) + 1 .. Len(bytes) + n THEN s[k - Len(bytes)] ELSE bytes[k]
      /\ n < 2 * asked => disk' # "fits"
      /\ n = 2 * asked => disk' = disk
      /\ disk # "fits" => disk' = disk
  BY <1>2, <1>4 DEF Written
<1>8. Len(bytes') = Len(bytes) + n /\ n \in Nat
  BY <1>2, <1>5, <1>7
<1>9. disk = "full" => n = 0
  <2>1. disk = "full" => room = 0
    BY <1>1 DEF CallInv
  <2>2. n = IF 2 * asked <= room + Len(bytes) - Len(bytes) THEN 2 * asked ELSE room + Len(bytes) - Len(bytes)
    BY <1>4, <1>7 DEF Sent
  <2> QED
    BY <1>3, <1>5, <2>1, <2>2
<1> HIDE DEF m
<1>10. count' = n \div 2 /\ write_current' = write_current + (n \div 2) \div 2
  BY <1>2, <1>6, <1>7 DEF Items, FramesIn
<1>11. WavShape(bytes, a, o, c) /\ Len(bytes) = o + 2 * m
  BY <1>3 DEF Wav, InStep, m
<1>12. WavShape(bytes', a, o, c)
  <2>1. \A k \in 1 .. a : bytes'[k] = bytes[k]
    BY <1>5, <1>7, <1>8
  <2>2. ASSUME NEW k \in a + 1 .. Len(bytes')
        PROVE  bytes'[k] = <<"s", (k - 1 - o) \div 2>>
    <3>1. CASE k <= Len(bytes)
      <4>1. bytes'[k] = bytes[k]
        BY <3>1, <1>5, <1>7, <1>8
      <4>2. k \in a + 1 .. Len(bytes)
        BY <3>1, <1>5
      <4> QED
        BY <4>1, <4>2, <1>11 DEF WavShape
    <3>2. CASE k > Len(bytes)
      <4> DEFINE j == k - Len(bytes)
      <4>0. k \in Nat /\ k <= Len(bytes) + n /\ k >= 1 /\ n <= 2 * asked
        BY <1>5, <1>7, <1>8
      <4>1. j \in 1 .. 2 * asked /\ k \in 1 .. Len(bytes') /\ k \in Len(bytes) + 1 .. Len(bytes) + n
        BY <4>0, <1>3, <3>2, <1>5, <1>7, <1>8
      <4>2. bytes'[k] = s[j]
        BY <4>1, <1>7
      <4>3. m + (j - 1) \div 2 = (k - 1 - o) \div 2
        <5>1. k - 1 - o = (j - 1) + 2 * m /\ j - 1 \in Nat
          BY <1>5, <1>11, <3>2
        <5> DEFINE x == j - 1
        <5>2. x \in Nat /\ k - 1 - o = x + 2 * m
          BY <5>1
        <5> HIDE DEF x
        <5>3. (x + 2 * m) \div 2 = m + x \div 2
          BY <5>2, <1>5
        <5>4. (k - 1 - o) \div 2 = m + x \div 2
          BY <5>2, <5>3
        <5> QED
          BY <5>4 DEF x
      <4> HIDE DEF j
      <4>4. s[j] = <<"s", m + (j - 1) \div 2>>
        BY <4>1, <1>4 DEF m
      <4> QED
        BY <4>2, <4>3, <4>4
    <3> QED
      BY <3>1, <3>2, <1>5
  <2>3. \A k \in 1 .. a : bytes'[k] = <<"h", c>>
    BY <2>1, <1>11 DEF WavShape
  <2> QED
    BY <2>2, <2>3 DEF WavShape
<1>13. WavState'
  BY <1>1, <1>3, <1>6 DEF WavState
<1>14. n \in Nat /\ n <= 2 * asked /\ (n = 2 * asked <=> n \div 2 = asked) /\ (n < 2 * asked => n \div 2 < asked)
  <2>1. n \in Nat /\ n <= 2 * asked
    BY <1>3, <1>7, <1>8
  <2> QED
    BY <1>3, <2>1
<1>15. 4 * ((n \div 2) \div 2) <= n
  BY <1>8
<1>16. HeaderSize' = HeaderSize
  BY <1>6 DEF HeaderSize
<1>17. /\ a <= HeaderSize
       /\ a = Len(bytes) \/ Len(bytes) <= o + 2 * handed
       /\ disk = "fits" => Len(bytes) = a + 2 * m /\ a = HeaderSize
       /\ disk # "relieved" =>
            /\ a < Len(bytes) => o = a /\ a = HeaderSize
            /\ 4 * write_current <= Len(bytes) - a
            /\ c = 0
  BY <1>3 DEF Wav, m
<1>18. disk' # "relieved" => disk # "relieved"
  BY <1>7
<1>19. disk' # "relieved" /\ a < Len(bytes') => o = a /\ a = HeaderSize
  BY <1>5, <1>7, <1>8, <1>9, <1>11, <1>17, <1>18, <1>1 DEF LibType
<1>20. disk' # "relieved" => 4 * write_current' <= Len(bytes') - a
  <2> DEFINE x == (n \div 2) \div 2
  <2>1. x \in Nat
    BY <1>8
  <2>2. 4 * x <= n /\ write_current' = write_current + x
    BY <1>10, <1>15
  <2> HIDE DEF x
  <2> QED
    BY <2>1, <2>2, <1>5, <1>8, <1>17, <1>18
<1>23. 2 * handed = 2 * m + 2 * asked /\ n \in Nat /\ n <= 2 * asked
  BY <1>3, <1>5, <1>14
<1>24. disk' = "full" => n < 2 * asked
  <2>1. disk \in {"fits", "full", "relieved"}
    BY <1>1 DEF LibType
  <2>2. /\ n = 2 * asked => disk' = disk
        /\ disk # "fits" => disk' = disk
    BY <1>7
  <2> QED
    BY <1>3, <1>9, <1>23, <2>1, <2>2
<1>21. /\ disk' = "fits" => n = 2 * asked /\ disk = "fits" /\ Len(bytes') = a + 2 * handed
       /\ disk' = "full" => n \div 2 < asked
       /\ n = 2 * asked => pos' = Len(bytes') /\ Len(bytes') = o + 2 * handed
       /\ Len(bytes') <= o + 2 * handed
  <2>1. disk \in {"fits", "full", "relieved"}
    BY <1>1 DEF LibType
  <2>2. /\ n < 2 * asked => disk' # "fits"
        /\ disk # "fits" => disk' = disk
        /\ pos' = Len(bytes) + n
    BY <1>7
  <2>3. disk' = "fits" => n = 2 * asked /\ disk = "fits"
    BY <1>3, <1>23, <2>1, <2>2
  <2>4. n = 2 * asked => pos' = Len(bytes') /\ Len(bytes') = o + 2 * handed
    BY <1>5, <1>8, <1>11, <1>23, <2>2
  <2>5. Len(bytes') <= o + 2 * handed
    BY <1>3, <1>5, <1>8, <1>11, <1>23
  <2>6. disk' = "fits" => Len(bytes') = a + 2 * handed
    <3>1. disk' = "fits" => Len(bytes) = a + 2 * m
      BY <1>17, <2>3
    <3>2. m \in Nat /\ asked \in Nat /\ handed = m + asked /\ a \in Nat /\ Len(bytes') = Len(bytes) + n
      BY <1>3, <1>5, <1>8, <1>23
    <3> QED
      BY <2>3, <3>1, <3>2
  <2> QED
    BY <1>14, <1>24, <2>3, <2>4, <2>5, <2>6
<1>22. Wav(a, o, c)'
  BY <1>3, <1>6, <1>10, <1>12, <1>14, <1>16, <1>17, <1>18, <1>19, <1>20, <1>21 DEF Wav, InStep
<1> QED
  BY <1>5, <1>8, <1>13, <1>22

LEMMA CloseWavKept ==
  ASSUME LibInv, CloseWav, NEW a \in 0 .. Len(bytes), NEW o \in 0 .. a, NEW c \in Nat, Wav(a, o, c)
  PROVE  WavState' /\ \E x \in 0 .. Len(bytes') : \E y \in 0 .. x : Wav(x, y, write_current)'
<1> USE DEF client
<1>1. LibType /\ CallInv /\ WavState
  BY DEF LibInv, WavInv, WavState, CloseWav
<1>2. PICK n \in Nat : Written(0, Header(HeaderSize, write_current), n)
  BY StepWrites
<1>3. HeaderSize \in Nat /\ bytes \in Seq(Bytes) /\ Len(bytes) \in Nat /\ write_current \in Nat
      /\ a \in Nat /\ o \in Nat /\ o <= a /\ a <= Len(bytes)
  BY HeaderAssumption, <1>1 DEF LibType, HeaderSize
<1>4. /\ n <= HeaderSize /\ pos' = n /\ Len(bytes') = (IF n > Len(bytes) THEN n ELSE Len(bytes))
      /\ \A k \in 1 .. n : bytes'[k] = <<"h", write_current>>
      /\ \A k \in n + 1 .. Len(bytes') : bytes'[k] = bytes[k] /\ k <= Len(bytes)
      /\ n < HeaderSize => Len(bytes') = n /\ disk' # "fits"
      /\ n = HeaderSize => disk' = disk
      /\ disk # "fits" => disk' = disk
  <2>1. PICK m \in Nat, x \in Nat : m = HeaderSize /\ x = write_current
    BY <1>3
  <2>2. Written(0, Header(m, x), n)
    BY <1>2, <2>1
  <2> QED
    BY <1>3, <2>1, <2>2, HeaderWritten
<1>5. /\ at = "close" /\ handle = "closing" /\ asked = 0 /\ handed \in Nat
      /\ ~have_written => handed = 0
  BY <1>1 DEF CloseWav, CallInv, LibType
<1>6. /\ format = "wav" /\ at' = "fclose"
      /\ UNCHANGED <<format, handed, asked, good, handle, tagged, have_written, write_current, encoder, paged, queue, count>>
  BY DEF CloseWav, psf
<1>7. /\ WavShape(bytes, a, o, c) /\ a <= HeaderSize
      /\ a = Len(bytes) \/ Len(bytes) <= o + 2 * handed
      /\ ~have_written => a = Len(bytes)
      /\ disk = "fits" => Len(bytes) = a + 2 * handed
      /\ disk # "relieved" =>
           /\ a < Len(bytes) => o = a /\ a = HeaderSize
           /\ have_written /\ disk = "fits" => a = HeaderSize
           /\ 4 * write_current <= Len(bytes) - a
  BY <1>5 DEF Wav
<1>8. n \in Nat /\ n <= Len(bytes')
  BY <1>2, <1>3, <1>4
<1>9. HeaderSize' = HeaderSize
  BY <1>6 DEF HeaderSize
<1>10. WavState'
  BY <1>1, <1>5, <1>6 DEF WavState
<1>11. disk' # "relieved" => disk # "relieved"
  BY <1>4
<1>12. CASE n < HeaderSize \/ Len(bytes) <= HeaderSize
  <2>1. Len(bytes') = n
    BY <1>3, <1>4, <1>8, <1>12
  <2>2. WavShape(bytes', n, n, write_current)
    BY <1>4, <1>8, <2>1 DEF WavShape
  <2>3. disk' # "relieved" => write_current = 0
    <3>1. Len(bytes) <= HeaderSize
      BY <1>3, <1>4, <1>8, <1>12
    <3> QED
      BY <1>3, <1>7, <1>11, <3>1
  <2>4. disk' = "fits" => n = HeaderSize /\ disk = "fits" /\ handed = 0
    <3>1. disk' = "fits" => n = HeaderSize /\ disk = "fits"
      BY <1>3, <1>4, <1>8
    <3>2. Len(bytes) <= HeaderSize
      BY <1>3, <1>4, <1>8, <1>12
    <3> QED
      BY <1>3, <1>5, <1>7, <3>1, <3>2
  <2>5. Wav(n, n, write_current)'
    <3>1. n <= HeaderSize
      BY <1>4
    <3>2. 4 * write_current' <= n - n \/ disk' = "relieved"
      BY <1>6, <1>8, <2>3
    <3>3. disk' = "fits" => n = n + 2 * handed'
      BY <1>6, <1>8, <2>4
    <3> QED
      BY <1>3, <1>5, <1>6, <1>8, <1>9, <2>1, <2>2, <2>4, <3>1, <3>2, <3>3 DEF Wav, InStep
  <2>6. n \in 0 .. Len(bytes') /\ n \in 0 .. n
    BY <1>8
  <2> QED
    BY <1>10, <2>5, <2>6
<1>13. CASE n = HeaderSize /\ Len(bytes) > HeaderSize
  <2>1. Len(bytes') = Len(bytes) /\ disk' = disk /\ a < Len(bytes) /\ have_written
    BY <1>3, <1>4, <1>7, <1>8, <1>13
  <2>2. \A k \in n + 1 .. Len(bytes') : bytes'[k] = <<"s", (k - 1 - o) \div 2>>
    <3> SUFFICES ASSUME NEW k \in n + 1 .. Len(bytes')
                 PROVE  bytes'[k] = <<"s", (k - 1 - o) \div 2>>
      OBVIOUS
    <3>1. bytes'[k] = bytes[k]
      BY <1>4
    <3>2. k \in a + 1 .. Len(bytes)
      BY <1>3, <1>7, <1>8, <1>13, <2>1
    <3> QED
      BY <3>1, <3>2, <1>7 DEF WavShape
  <2>3. WavShape(bytes', n, o, write_current)
    BY <1>4, <2>2 DEF WavShape
  <2>4. /\ Len(bytes') <= o + 2 * handed
        /\ disk' = "fits" => Len(bytes') = n + 2 * handed
        /\ disk' # "relieved" => o = n /\ 4 * write_current <= Len(bytes') - n
    BY <1>3, <1>5, <1>7, <1>8, <1>13, <2>1
  <2>5. Wav(n, o, write_current)'
    BY <1>3, <1>5, <1>6, <1>8, <1>9, <1>13, <2>1, <2>3, <2>4 DEF Wav, InStep
  <2>6. n \in 0 .. Len(bytes') /\ o \in 0 .. n
    BY <1>3, <1>7, <1>8, <1>13
  <2> QED
    BY <1>10, <2>5, <2>6
<1> QED
  BY <1>3, <1>4, <1>8, <1>12, <1>13

(* So every step keeps the invariant about WAV files.                      *)
LEMMA WavKept ==
  ASSUME LibInv, LibNext
  PROVE  WavInv'
<1> SUFFICES ASSUME format = "wav"
             PROVE  WavState' /\ \E a \in 0 .. Len(bytes') : \E o \in 0 .. a : \E c \in Nat : Wav(a, o, c)'
  BY FormatStays DEF WavInv, WavState
<1>1. PICK a \in 0 .. Len(bytes) : \E o \in 0 .. a : \E c \in Nat : Wav(a, o, c)
  BY DEF LibInv, WavInv
<1>2. PICK o \in 0 .. a : \E c \in Nat : Wav(a, o, c)
  BY <1>1
<1>3. PICK c \in Nat : Wav(a, o, c)
  BY <1>2
<1>4. /\ Len(bytes) \in Nat /\ write_current' \in Nat /\ 0 \in Nat /\ Len(bytes') \in Nat
  <2>1. LibType /\ LibType'
    BY TypeKept DEF LibInv
  <2> QED
    BY <2>1 DEF LibType
<1>5. CASE OpenWav
  <2>1. WavState' /\ \E x \in 0 .. Len(bytes') : Wav(x, x, 0)'
    BY <1>3, <1>5, OpenWavKept
  <2>2. PICK x \in 0 .. Len(bytes') : Wav(x, x, 0)'
    BY <2>1
  <2>3. x \in 0 .. x
    BY <1>4
  <2> QED
    BY <1>4, <2>1, <2>2, <2>3
<1>6. CASE WriteWavHeader
  <2>1. WavState' /\ \E x \in 0 .. Len(bytes') : Wav(x, x, 0)'
    BY <1>3, <1>6, WriteWavHeaderKept
  <2>2. PICK x \in 0 .. Len(bytes') : Wav(x, x, 0)'
    BY <2>1
  <2>3. x \in 0 .. x
    BY <1>4
  <2> QED
    BY <1>4, <2>1, <2>2, <2>3
<1>7. CASE WriteWavSamples
  <2>1. WavState' /\ Wav(a, o, c)' /\ Len(bytes') >= Len(bytes)
    BY <1>3, <1>7, WriteWavSamplesKept
  <2>2. a \in 0 .. Len(bytes')
    BY <1>4, <2>1
  <2> QED
    BY <2>1, <2>2
<1>8. CASE CloseWav
  <2>1. WavState' /\ \E x \in 0 .. Len(bytes') : \E y \in 0 .. x : Wav(x, y, write_current)'
    BY <1>3, <1>8, CloseWavKept
  <2>20. PICK x \in 0 .. Len(bytes') : \E y \in 0 .. x : Wav(x, y, write_current)'
    BY <2>1
  <2>2. PICK y \in 0 .. x : Wav(x, y, write_current)'
    BY <2>20
  <2>3. PICK m \in Nat : m = write_current'
    BY <1>4
  <2>4. Wav(x, y, m)'
    BY <2>2, <2>3 DEF Wav
  <2> QED
    BY <2>1, <2>4
<1>9. CASE \/ OpenFails \/ OpenCodec \/ SetString \/ RefusePiece \/ TakePiece \/ WriteFlacHeader \/ WriteOggHeader
           \/ EncodeIntoNull \/ CutPage \/ WritePage \/ Encoded \/ Return \/ CloseNull \/ StartClosing
           \/ FinishEncoding \/ FinishNothing \/ psf_fclose \/ Relieve
  <2>1. WavState' /\ Wav(a, o, c)' /\ bytes' = bytes
    BY <1>3, <1>9, WavQuietKept
  <2> QED
    BY <2>1
<1> QED
  BY <1>5, <1>6, <1>7, <1>8, <1>9 DEF LibNext, Library, Program

-----------------------------------------------------------------------------
(* FLAC and Ogg: which samples are heard.                                  *)

Increasing(x) == \A j, k \in DOMAIN x : j < k => x[j] < x[k]
Below(x, f) == \A j \in DOMAIN x : x[j] < f

(* What is heard on pages is a sequence of samples.                        *)
LEMMA HeardIsSamples ==
  ASSUME NEW form, form # "wav", NEW bs \in Seq(Bytes)
  PROVE  Heard(form, bs) \in Seq(Nat)
<1>1. Len(bs) \in Nat /\ Readable(HeardOnPages(bs), bs, Len(bs))
  BY PagesReadable
<1>2. PICK u \in [0 .. Len(bs) -> Seq(Nat)] :
             IsReading(u, HeardOnPages(bs), bs, Len(bs)) /\ SamplesAt(HeardOnPages(bs), bs) = u[Len(bs)]
  BY <1>1, SamplesAreRead
<1>3. SamplesAt(HeardOnPages(bs), bs) \in Seq(Nat)
  BY <1>1, <1>2
<1> QED
  BY <1>3 DEF Heard

(* The samples of a page, behind earlier ones.                             *)
LEMMA PageJoins ==
  ASSUME NEW x \in Seq(Nat), NEW f \in Nat, NEW p \in Nat, f < p, Increasing(x), Below(x, f)
  PROVE  /\ Increasing(AndThen(x, f, p)) /\ Below(AndThen(x, f, p), p)
         /\ x = Positions(0, f) => AndThen(x, f, p) = Positions(0, p)
         /\ Len(AndThen(x, f, p)) = Len(x) + (p - f)
<1> DEFINE y == Positions(f, p)
           z == x \o Positions(f, p)
<1>0. f <= p /\ 0 <= f /\ 0 <= p /\ 0 \in Nat
  OBVIOUS
<1>1. y \in Seq(Nat) /\ Len(y) = p - f /\ \A k \in 1 .. p - f : y[k] = f + k - 1
  BY <1>0, PositionsType
<1>2. Len(x) \in Nat /\ p - f \in Nat
  OBVIOUS
<1> HIDE DEF y
<1>30. /\ x \o y \in Seq(Nat) /\ Len(x \o y) = Len(x) + Len(y)
       /\ \A k \in 1 .. Len(x) : (x \o y)[k] = x[k]
       /\ \A k \in 1 .. Len(y) : (x \o y)[Len(x) + k] = y[k]
  <2>1. x \o y \in Seq(Nat) /\ Len(x \o y) = Len(x) + Len(y) /\ Len(y) \in Nat
    <3>1. y \in Seq(Nat)
      BY <1>1
    <3> QED
      BY <3>1
  <2>2. \A k \in 1 .. Len(x) : (x \o y)[k] = x[k]
    BY <2>1, <1>2
  <2>3. \A k \in 1 .. Len(y) : (x \o y)[Len(x) + k] = y[k]
    BY <2>1, <1>2
  <2> QED
    BY <2>1, <2>2, <2>3
<1>4. z = x \o y
  BY DEF y
<1> HIDE DEF z
<1>5. /\ z \in Seq(Nat) /\ Len(z) = Len(x) + (p - f) /\ DOMAIN z = 1 .. Len(x) + (p - f)
      /\ \A k \in 1 .. Len(x) : z[k] = x[k]
      /\ \A k \in Len(x) + 1 .. Len(x) + (p - f) : z[k] = f + (k - Len(x)) - 1
  <2>1. z \in Seq(Nat) /\ Len(z) = Len(x) + (p - f)
    BY <1>1, <1>30, <1>4
  <2>2. \A k \in 1 .. Len(x) : z[k] = x[k]
    BY <1>30, <1>4
  <2>3. ASSUME NEW k \in Len(x) + 1 .. Len(x) + (p - f)
        PROVE  z[k] = f + (k - Len(x)) - 1
    <3> DEFINE m == k - Len(x)
    <3>1. m \in 1 .. p - f /\ k = Len(x) + m
      BY <1>2
    <3> HIDE DEF m
    <3>2. z[Len(x) + m] = y[m]
      BY <3>1, <1>1, <1>30, <1>4
    <3>3. z[k] = f + m - 1
      BY <3>1, <3>2, <1>1
    <3> QED
      BY <3>3 DEF m
  <2> QED
    BY <2>1, <2>2, <2>3
<1>6. DOMAIN x = 1 .. Len(x) /\ \A k \in 1 .. Len(x) : x[k] \in Nat /\ x[k] < f
  BY DEF Below
<1>7. Below(z, p)
  <2> SUFFICES ASSUME NEW k \in 1 .. Len(x) + (p - f)
               PROVE  z[k] < p
    BY <1>5 DEF Below
  <2>1. CASE k <= Len(x)
    BY <2>1, <1>2, <1>5, <1>6
  <2>2. CASE k > Len(x)
    <3>1. k \in Len(x) + 1 .. Len(x) + (p - f)
      BY <2>2, <1>2
    <3>2. z[k] = f + (k - Len(x)) - 1
      BY <3>1, <1>5
    <3> QED
      BY <3>1, <3>2, <1>2
  <2> QED
    BY <2>1, <2>2, <1>2
<1>8. Increasing(z)
  <2> SUFFICES ASSUME NEW j \in 1 .. Len(x) + (p - f), NEW k \in 1 .. Len(x) + (p - f), j < k
               PROVE  z[j] < z[k]
    BY <1>5 DEF Increasing
  <2>1. CASE k <= Len(x)
    <3>1. j \in 1 .. Len(x) /\ k \in 1 .. Len(x)
      BY <2>1, <1>2
    <3> QED
      BY <3>1, <1>5, <1>6 DEF Increasing
  <2>2. CASE j <= Len(x) /\ k > Len(x)
    <3>1. z[j] < f
      BY <2>2, <1>2, <1>5, <1>6
    <3>4. k \in Len(x) + 1 .. Len(x) + (p - f)
      BY <2>2, <1>2
    <3>2. z[k] = f + (k - Len(x)) - 1
      BY <3>4, <1>5
    <3>3. z[j] \in Nat
      BY <1>5
    <3> QED
      BY <3>1, <3>2, <3>3, <2>2, <1>2
  <2>3. CASE j > Len(x)
    <3>2. k \in Len(x) + 1 .. Len(x) + (p - f) /\ j \in Len(x) + 1 .. Len(x) + (p - f)
      BY <2>3, <1>2
    <3>1. z[j] = f + (j - Len(x)) - 1 /\ z[k] = f + (k - Len(x)) - 1
      BY <3>2, <1>5
    <3> QED
      BY <3>1, <1>2
  <2> QED
    BY <2>1, <2>2, <2>3, <1>2
<1>9. ASSUME x = Positions(0, f)
      PROVE  z = Positions(0, p)
  <2> DEFINE w == Positions(0, p)
  <2>10. w \in Seq(Nat) /\ Len(w) = p - 0 /\ \A k \in 1 .. p - 0 : w[k] = 0 + k - 1
    BY <1>0, PositionsType
  <2>20. Len(Positions(0, f)) = f - 0 /\ \A k \in 1 .. f - 0 : Positions(0, f)[k] = 0 + k - 1
    BY <1>0, PositionsType
  <2> HIDE DEF w
  <2>1. w \in Seq(Nat) /\ Len(w) = p /\ \A k \in 1 .. p : w[k] = k - 1
    BY <2>10
  <2>2. Len(x) = f /\ \A k \in 1 .. f : x[k] = k - 1
    BY <1>9, <2>20
  <2>3. Len(z) = p /\ \A k \in 1 .. p : z[k] = w[k]
    <3>1. Len(z) = p
      BY <1>2, <1>5, <2>2
    <3>2. ASSUME NEW k \in 1 .. p PROVE z[k] = k - 1
      <4>1. CASE k <= f
        BY <4>1, <1>2, <1>5, <2>2
      <4>2. CASE k > f
        <5>1. k \in Len(x) + 1 .. Len(x) + (p - f)
          BY <4>2, <1>2, <2>2
        <5>2. z[k] = f + (k - Len(x)) - 1
          BY <5>1, <1>5
        <5> QED
          BY <5>2, <2>2
      <4> QED
        BY <4>1, <4>2
    <3> QED
      BY <2>1, <3>1, <3>2
  <2>4. z = w
    BY <1>5, <2>1, <2>3, SeqEqual
  <2> QED
    BY <2>4 DEF w
<1> QED
  BY <1>5, <1>7, <1>8, <1>9 DEF z, AndThen

(* A write at the end of the file makes it longer and leaves the rest.     *)
LEMMA AppendWritten ==
  ASSUME bytes \in Seq(Bytes), NEW s \in Seq(Bytes), NEW n \in Nat, Written(Len(bytes), s, n)
  PROVE  /\ bytes' \in Seq(Bytes) /\ Extends(bytes, bytes')
         /\ Len(bytes') = Len(bytes) + n /\ pos' = Len(bytes')
         /\ n <= Len(s) /\ \A j \in 1 .. n : bytes'[Len(bytes) + j] = s[j]
         /\ n < Len(s) => disk' # "fits"
         /\ n = Len(s) => disk' = disk
         /\ disk # "fits" => disk' = disk
<1>1. Len(bytes) \in Nat /\ Len(s) \in Nat
  OBVIOUS
<1>2. /\ n \in 0 .. Len(s)
      /\ bytes' \in Seq(Bytes)
      /\ Len(bytes') = IF Len(bytes) + n > Len(bytes) THEN Len(bytes) + n ELSE Len(bytes)
      /\ \A k \in 1 .. Len(bytes') :
           bytes'[k] = IF k \in Len(bytes) + 1 .. Len(bytes) + n THEN s[k - Len(bytes)] ELSE bytes[k]
      /\ pos' = Len(bytes) + n
      /\ n < Len(s) => disk' # "fits"
      /\ n = Len(s) => disk' = disk
      /\ disk # "fits" => disk' = disk
  BY DEF Written
<1>3. Len(bytes') = Len(bytes) + n
  BY <1>1, <1>2
<1>4. Extends(bytes, bytes')
  BY <1>1, <1>2, <1>3 DEF Extends
<1>5. ASSUME NEW j \in 1 .. n
      PROVE  bytes'[Len(bytes) + j] = s[j]
  <2>1. Len(bytes) + j \in 1 .. Len(bytes') /\ Len(bytes) + j \in Len(bytes) + 1 .. Len(bytes) + n
        /\ (Len(bytes) + j) - Len(bytes) = j
    BY <1>1, <1>3
  <2> QED
    BY <2>1, <1>2
<1> QED
  BY <1>2, <1>3, <1>4, <1>5

SameFile ==
  /\ format' = format /\ paged' = paged /\ queue' = queue /\ bytes' = bytes /\ pos' = pos
  /\ disk' = disk \/ disk' # "fits"

(* The steps of the codecs that do not write.                              *)
LEMMA CodecStays ==
  ASSUME NEW f, Codec(f), SameFile
  PROVE  Codec(f)' /\ InFile' = InFile
<1>1. InFile' = InFile
  BY DEF SameFile, InFile
<1>2. QueueIs(f)'
  BY DEF SameFile, Codec, QueueIs, Page
<1>3. ASSUME NEW k
      PROVE  HeadIsLast(f, k)' <=> HeadIsLast(f, k)
  BY DEF SameFile, HeadIsLast
<1>4. \A k \in 1 .. Len(bytes') : bytes'[k][1] = "p" => bytes'[k][3] <= f \/ HeadIsLast(f, k)'
  BY <1>3, Zenon DEF SameFile, Codec
<1>5. disk' = "fits" =>
        (f < paged' /\ queue' = <<PageBody(f, paged')>> /\ format' = "ogg" => bytes' # <<>> /\ HeadIsLast(f, Len(bytes))')
  <2> SUFFICES ASSUME disk' = "fits", f < paged', queue' = <<PageBody(f, paged')>>, format' = "ogg"
               PROVE  bytes' # <<>> /\ HeadIsLast(f, Len(bytes))'
    OBVIOUS
  <2>1. bytes # <<>> /\ HeadIsLast(f, Len(bytes))
    BY DEF SameFile, Codec
  <2> QED
    BY <2>1 DEF SameFile, HeadIsLast
<1>6. disk' = "fits" => InFile' = Positions(0, f)
  BY <1>1 DEF SameFile, Codec
<1>7. /\ \A j \in DOMAIN InFile' : InFile'[j] < f
      /\ \A j, k \in DOMAIN InFile' : j < k => InFile'[j] < InFile'[k]
  BY <1>1 DEF Codec
<1> QED
  BY <1>1, <1>2, <1>4, <1>5, <1>6, <1>7, Zenon DEF Codec

LEMMA CodecQuietKept ==
  ASSUME LibInv, format # "wav", NEW f, Codec(f),
         \/ OpenFails \/ OpenCodec \/ SetString \/ RefusePiece \/ TakePiece \/ EncodeIntoNull \/ Encoded \/ Return
         \/ CloseNull \/ StartClosing \/ FinishNothing \/ psf_fclose \/ Relieve
  PROVE  /\ pos' = Len(bytes') /\ (queue' # <<>> => at' \in {"samples", "finish"})
         /\ Codec(f)' /\ InFile' = InFile /\ paged' = paged
<1> USE DEF client, psf, storage
<1>1. pos = Len(bytes) /\ (queue # <<>> => at \in {"samples", "finish"})
  BY DEF LibInv, CodecInv
<1>2. SameFile /\ (queue' # <<>> => at' \in {"samples", "finish"})
  BY <1>1 DEF SameFile, OpenFails, OpenCodec, SetString, RefusePiece, TakePiece, Begin, EncodeIntoNull, Encoded,
              Return, CloseNull, StartClosing, FinishNothing, psf_fclose, Relieve
<1> QED
  BY <1>1, <1>2, CodecStays DEF SameFile

(* Nothing is queued: all pages are behind.                                *)
LEMMA QueueEmpty ==
  ASSUME NEW f, QueueIs(f), queue = <<>>
  PROVE  f = paged
<1>1. OggHeader # <<>> /\ <<Header(PlainHeader, 0)>> # <<>> /\ Page(f, paged) # <<>> /\ <<PageBody(f, paged)>> # <<>>
  BY DEF OggHeader, Page
<1> QED
  BY <1>1, Zenon DEF QueueIs

LEMMA QueueFilledKept ==
  ASSUME LibInv, format # "wav", NEW f \in 0 .. paged, Codec(f), WriteOggHeader \/ FinishEncoding \/ CutPage
  PROVE  /\ pos' = Len(bytes') /\ (queue' # <<>> => at' \in {"samples", "finish"})
         /\ Codec(f)' /\ InFile' = InFile /\ f \in 0 .. paged'
<1> USE DEF client, psf, storage
<1>1. pos = Len(bytes) /\ (queue # <<>> => at \in {"samples", "finish"}) /\ paged \in Nat
  BY DEF LibInv, LibType, CodecInv
<1>2. queue = <<>> /\ f = paged
  <2>1. queue = <<>>
    BY <1>1 DEF WriteOggHeader, FinishEncoding, CutPage
  <2> QED
    BY <2>1, QueueEmpty DEF Codec
<1>3. format' = format /\ bytes' = bytes /\ pos' = pos /\ disk' = disk /\ at' \in {"samples", "finish"}
  BY DEF WriteOggHeader, FinishEncoding, CutPage
<1>4. QueueIs(f)' /\ f \in 0 .. paged' /\ queue' # <<PageBody(f, paged')>>
  <2>1. CASE WriteOggHeader
    <3>1. queue' = OggHeader /\ paged' = paged /\ format' = "ogg"
      BY <2>1 DEF WriteOggHeader
    <3> QED
      BY <3>1, <1>2 DEF QueueIs, OggHeader
  <2>2. CASE FinishEncoding
    <3>1. queue' \in {OggHeader, <<>>} /\ paged' = paged /\ (queue' = OggHeader => format' = "ogg")
      <4>1. OggHeader # <<>>
        BY DEF OggHeader
      <4> QED
        BY <2>2, <4>1 DEF FinishEncoding
    <3> QED
      BY <3>1, <1>2 DEF QueueIs, OggHeader
  <2>3. CASE CutPage
    <3>1. PICK p \in Frames(paged) : queue' = Page(FirstKept, p) /\ paged' = p
      BY <2>3 DEF CutPage
    <3>2. p \in Nat /\ paged < p
      BY <1>1, <3>1 DEF Frames
    <3>3. queue' = Page(f, paged)' /\ queue' = Page(f, p)
      BY <3>1, <1>2, <1>3 DEF Page, FirstKept
    <3>4. queue' # <<PageBody(f, p)>>
      <4> DEFINE x == PageHead(f, p)
                 y == PageBody(f, p)
      <4>1. Len(x) = 1 /\ Len(y) = p - f /\ x \in Seq(Bytes) /\ y \in Seq(Bytes)
        BY <1>1, <1>2, <3>2, PageIsBytes
      <4>2. x \o y # y
        <5>1. Len(x \o y) = Len(x) + Len(y)
          BY <4>1, Concatenated
        <5> HIDE DEF x, y
        <5>2. Len(y) \in Nat
          BY <4>1
        <5> QED
          BY <4>1, <5>1, <5>2
      <4>3. queue' = <<x, y>> \/ queue' = <<x \o y>>
        BY <3>3 DEF Page
      <4> HIDE DEF x, y
      <4>4. <<x, y>> # <<y>> /\ (x \o y # y => <<x \o y>> # <<y>>)
        OBVIOUS
      <4>5. queue' # <<y>>
        BY <4>2, <4>3, <4>4
      <4> QED
        BY <4>5 DEF y
    <3> QED
      BY <1>1, <1>2, <3>1, <3>2, <3>3, <3>4 DEF QueueIs
  <2> QED
    BY <2>1, <2>2, <2>3
<1>5. InFile' = InFile
  BY <1>3 DEF InFile
<1>6. \A k \in 1 .. Len(bytes') : bytes'[k][1] = "p" => bytes'[k][3] <= f \/ HeadIsLast(f, k)'
  BY <1>2, <1>3 DEF Codec, HeadIsLast
<1>7. disk' = "fits" => InFile' = Positions(0, f)
  BY <1>3, <1>5 DEF Codec
<1>8. /\ \A j \in DOMAIN InFile' : InFile'[j] < f
      /\ \A j, k \in DOMAIN InFile' : j < k => InFile'[j] < InFile'[k]
  BY <1>5 DEF Codec
<1>9. Codec(f)'
  BY <1>4, <1>6, <1>7, <1>8, Zenon DEF Codec
<1> QED
  BY <1>1, <1>3, <1>4, <1>5, <1>9

(* No page that ends behind sample f has its head in the file.             *)
NoOpenPage(f) == \A k \in 1 .. Len(bytes) : bytes[k][1] = "p" => bytes[k][3] <= f

(* The strings the codecs write, each at the end of the file: headers, the *)
(* head of a page and its body, a frame.                                   *)
LEMMA HeaderAppended ==
  ASSUME format # "wav", format' = format, bytes \in Seq(Bytes), NEW f \in Nat, NoOpenPage(f),
         NEW m \in Nat, NEW n \in Nat, Written(Len(bytes), Header(m, 0), n)
  PROVE  InFile' = InFile /\ NoOpenPage(f)'
<1> DEFINE s == Header(m, 0)
<1>1. s \in Seq(Bytes) /\ Len(s) = m /\ \A k \in 1 .. m : s[k] = <<"h", 0>>
  BY HeaderIsBytes
<1> HIDE DEF s
<1>2. /\ bytes' \in Seq(Bytes) /\ Extends(bytes, bytes') /\ Len(bytes') = Len(bytes) + n /\ n <= m
      /\ \A j \in 1 .. n : bytes'[Len(bytes) + j] = s[j]
  BY <1>1, AppendWritten DEF s
<1>3. Len(bytes) \in Nat /\ Len(bytes') \in Nat
  BY <1>2
<1>4. ASSUME NEW k \in Len(bytes) + 1 .. Len(bytes')
      PROVE  bytes'[k][1] = "h"
  <2> DEFINE j == k - Len(bytes)
  <2>1. j \in 1 .. n /\ j \in 1 .. m /\ k = Len(bytes) + j
    BY <1>2, <1>3
  <2> HIDE DEF j
  <2>2. bytes'[k] = <<"h", 0>>
    BY <1>1, <1>2, <2>1
  <2> QED
    BY <2>2
<1>5. \A k \in 1 .. Len(bytes) : bytes'[k] = bytes[k]
  BY <1>2 DEF Extends
<1>6. NoOpenPage(f)'
  <2> SUFFICES ASSUME NEW k \in 1 .. Len(bytes'), bytes'[k][1] = "p"
               PROVE  bytes'[k][3] <= f
    BY DEF NoOpenPage
  <2>1. k \in 1 .. Len(bytes)
    BY <1>3, <1>4
  <2> QED
    BY <1>5, <2>1 DEF NoOpenPage
<1>7. Len(bytes') > Len(bytes) => bytes'[Len(bytes) + 1][1] # "s" \/ bytes'[Len(bytes) + 1][2] >= f
  <2> SUFFICES ASSUME Len(bytes') > Len(bytes)
               PROVE  bytes'[Len(bytes) + 1][1] # "s"
    OBVIOUS
  <2>1. Len(bytes) + 1 \in Len(bytes) + 1 .. Len(bytes')
    BY <1>3
  <2> QED
    BY <1>4, <2>1
<1>8. Heard(format, bytes') = Heard(format, bytes)
  <2>1. \A k \in 1 .. Len(bytes) : bytes[k][1] = "p" => bytes[k][3] <= f \/ k + PageSize(bytes, k) > Len(bytes')
    BY DEF NoOpenPage
  <2>2. \A k \in Len(bytes) + 1 .. Len(bytes') :
          bytes'[k][1] = "p" => PageSize(bytes', k) <= 0 \/ k + PageSize(bytes', k) > Len(bytes')
    BY <1>4
  <2> QED
    BY <1>2, <1>7, <2>1, <2>2, NothingHeard
<1> QED
  BY <1>6, <1>8 DEF InFile

(* A head alone, of a page with samples or of one without.                 *)
LEMMA HeadAppended ==
  ASSUME format # "wav", format' = format, bytes \in Seq(Bytes), NEW f \in Nat, NoOpenPage(f),
         NEW g \in Nat, NEW p \in Nat, g <= p, NEW n \in Nat, Written(Len(bytes), PageHead(g, p), n)
  PROVE  /\ InFile' = InFile
         /\ \A k \in 1 .. Len(bytes') :
              bytes'[k][1] = "p" => bytes'[k][3] <= f \/ (k = Len(bytes') /\ bytes'[k] = <<"p", g, p>>)
         /\ n = 1 => bytes' # <<>> /\ bytes'[Len(bytes')] = <<"p", g, p>>
<1> DEFINE s == PageHead(g, p)
<1>1. s \in Seq(Bytes) /\ Len(s) = 1 /\ s[1] = <<"p", g, p>>
  BY PageIsBytes
<1> HIDE DEF s
<1>2. /\ bytes' \in Seq(Bytes) /\ Extends(bytes, bytes') /\ Len(bytes') = Len(bytes) + n /\ n <= 1
      /\ \A j \in 1 .. n : bytes'[Len(bytes) + j] = s[j]
  BY <1>1, AppendWritten DEF s
<1>3. Len(bytes) \in Nat /\ Len(bytes') \in Nat
  BY <1>2
<1>4. n = 1 => Len(bytes') = Len(bytes) + 1 /\ bytes'[Len(bytes')] = <<"p", g, p>>
  BY <1>1, <1>2, <1>3
<1>5. ASSUME NEW k \in Len(bytes) + 1 .. Len(bytes')
      PROVE  k = Len(bytes') /\ bytes'[k] = <<"p", g, p>> /\ n = 1
  <2>1. k = Len(bytes') /\ n = 1
    BY <1>2, <1>3
  <2> QED
    BY <1>4, <2>1
<1>6. \A k \in 1 .. Len(bytes) : bytes'[k] = bytes[k]
  BY <1>2 DEF Extends
<1>7. ASSUME NEW k \in 1 .. Len(bytes'), bytes'[k][1] = "p"
      PROVE  bytes'[k][3] <= f \/ (k = Len(bytes') /\ bytes'[k] = <<"p", g, p>>)
  <2>1. k \in 1 .. Len(bytes) \/ k \in Len(bytes) + 1 .. Len(bytes')
    BY <1>3
  <2> QED
    BY <1>5, <1>6, <1>7, <2>1 DEF NoOpenPage
<1>8. Len(bytes') > Len(bytes) => bytes'[Len(bytes) + 1][1] # "s" \/ bytes'[Len(bytes) + 1][2] >= f
  <2> SUFFICES ASSUME Len(bytes') > Len(bytes)
               PROVE  bytes'[Len(bytes) + 1][1] # "s"
    OBVIOUS
  <2>1. Len(bytes) + 1 \in Len(bytes) + 1 .. Len(bytes')
    BY <1>3
  <2>2. bytes'[Len(bytes) + 1] = <<"p", g, p>>
    BY <1>5, <2>1
  <2> QED
    BY <2>2
<1>9. ASSUME NEW k \in Len(bytes) + 1 .. Len(bytes')
      PROVE  PageSize(bytes', k) <= 0 \/ k + PageSize(bytes', k) > Len(bytes')
  <2>1. k = Len(bytes') /\ bytes'[k] = <<"p", g, p>>
    BY <1>5
  <2>2. PageSize(bytes', k) = p - g
    BY <2>1 DEF PageSize
  <2> QED
    BY <1>3, <2>1, <2>2
<1>10. Heard(format, bytes') = Heard(format, bytes)
  <2>1. \A k \in 1 .. Len(bytes) : bytes[k][1] = "p" => bytes[k][3] <= f \/ k + PageSize(bytes, k) > Len(bytes')
    BY DEF NoOpenPage
  <2>2. \A k \in Len(bytes) + 1 .. Len(bytes') :
          bytes'[k][1] = "p" => PageSize(bytes', k) <= 0 \/ k + PageSize(bytes', k) > Len(bytes')
    BY <1>9
  <2> QED
    BY <1>2, <1>8, <2>1, <2>2, NothingHeard
<1>11. InFile' = InFile
  BY <1>10 DEF InFile
<1>12. n = 1 => bytes' # <<>>
  BY <1>2, <1>3
<1> QED
  BY <1>4, <1>7, <1>11, <1>12

(* The head of the page from f to p is the last byte.                      *)
HeadWaits(f, p) == bytes # <<>> /\ bytes[Len(bytes)] = <<"p", f, p>>

(* A body behind its head, or behind nothing it belongs to.                *)
LEMMA BodyAppended ==
  ASSUME format # "wav", format' = format, bytes \in Seq(Bytes), NEW f \in Nat, NEW p \in Nat, f < p,
         \A k \in 1 .. Len(bytes) :
           bytes[k][1] = "p" => bytes[k][3] <= f \/ (k = Len(bytes) /\ bytes[k] = <<"p", f, p>>),
         NEW n \in Nat, Written(Len(bytes), PageBody(f, p), n)
  PROVE  /\ NoOpenPage(p)'
         /\ IF n = p - f /\ HeadWaits(f, p) THEN InFile' = AndThen(InFile, f, p) ELSE InFile' = InFile
<1> DEFINE s == PageBody(f, p)
<1>0. f <= p
  OBVIOUS
<1>1. s \in Seq(Bytes) /\ Len(s) = p - f /\ \A k \in 1 .. p - f : s[k] = <<"s", f + k - 1>>
  BY <1>0, PageIsBytes
<1> HIDE DEF s
<1>2. /\ bytes' \in Seq(Bytes) /\ Extends(bytes, bytes') /\ Len(bytes') = Len(bytes) + n /\ n <= p - f
      /\ \A j \in 1 .. n : bytes'[Len(bytes) + j] = s[j]
  BY <1>1, AppendWritten DEF s
<1>3. Len(bytes) \in Nat /\ Len(bytes') \in Nat
  BY <1>2
<1>4. \A j \in 1 .. n : bytes'[Len(bytes) + j] = <<"s", f + j - 1>>
  <2> SUFFICES ASSUME NEW j \in 1 .. n PROVE bytes'[Len(bytes) + j] = <<"s", f + j - 1>>
    OBVIOUS
  <2>1. j \in 1 .. p - f
    BY <1>2
  <2> QED
    BY <1>1, <1>2, <2>1
<1>5. \A j \in 1 .. n : bytes'[Len(bytes) + j][1] = "s" /\ bytes'[Len(bytes) + j][2] = f + j - 1
  <2> SUFFICES ASSUME NEW j \in 1 .. n
               PROVE  bytes'[Len(bytes) + j][1] = "s" /\ bytes'[Len(bytes) + j][2] = f + j - 1
    OBVIOUS
  <2> DEFINE y == f + j - 1
  <2>1. bytes'[Len(bytes) + j] = <<"s", y>>
    BY <1>4
  <2> HIDE DEF y
  <2>2. bytes'[Len(bytes) + j][1] = "s" /\ bytes'[Len(bytes) + j][2] = y
    BY <2>1
  <2> QED
    BY <2>2 DEF y
<1>6. ASSUME NEW k \in Len(bytes) + 1 .. Len(bytes')
      PROVE  bytes'[k][1] = "s"
  <2> DEFINE j == k - Len(bytes)
  <2>1. j \in 1 .. n /\ k = Len(bytes) + j
    BY <1>2, <1>3
  <2> HIDE DEF j
  <2> QED
    BY <1>5, <2>1
<1>7. \A k \in 1 .. Len(bytes) : bytes'[k] = bytes[k]
  BY <1>2 DEF Extends
<1>8. NoOpenPage(p)'
  <2> SUFFICES ASSUME NEW k \in 1 .. Len(bytes'), bytes'[k][1] = "p"
               PROVE  bytes'[k][3] <= p
    BY DEF NoOpenPage
  <2>1. k \in 1 .. Len(bytes)
    BY <1>3, <1>6
  <2>2. bytes'[k] = bytes[k] /\ bytes[k][1] = "p"
    BY <1>7, <2>1
  <2>3. CASE bytes[k] = <<"p", f, p>>
    BY <2>2, <2>3
  <2>4. CASE bytes[k][3] <= f
    <3>1. bytes[k][3] \in Nat
      BY <2>1, <2>2, ByteTypes
    <3> QED
      BY <2>2, <2>4, <3>1
  <2> QED
    BY <2>1, <2>2, <2>3, <2>4
<1>9. CASE n = p - f /\ HeadWaits(f, p)
  <2>1. PICK h \in Nat : h = Len(bytes)
    BY <1>3
  <2>2. h >= 1
    <3>1. bytes # <<>>
      BY <1>9 DEF HeadWaits
    <3> QED
      BY <1>3, <2>1, <3>1
  <2>3. bytes'[h] = <<"p", f, p>>
    <3>1. h \in 1 .. Len(bytes)
      BY <2>1, <2>2
    <3> QED
      BY <1>7, <1>9, <2>1, <3>1 DEF HeadWaits
  <2>4. PageAppended(bytes, bytes', h, f, p)
    <3>1. Len(bytes') = h + (p - f) /\ (h = Len(bytes) \/ h = Len(bytes) + 1)
      BY <1>2, <1>9, <2>1
    <3>2. \A j \in 1 .. p - f : bytes'[h + j] = <<"s", f + j - 1>>
      BY <1>4, <1>9, <2>1
    <3> QED
      BY <1>2, <2>2, <2>3, <3>1, <3>2, Zenon DEF PageAppended
  <2>5. Heard(format, bytes') = AndThen(Heard(format, bytes), f, p)
    BY <1>2, <2>1, <2>4, PageHeard
  <2> QED
    BY <1>8, <1>9, <2>5 DEF InFile
<1>10. CASE ~(n = p - f /\ HeadWaits(f, p))
  <2>1. ASSUME NEW k \in 1 .. Len(bytes), bytes[k][1] = "p"
        PROVE  bytes[k][3] <= f \/ k + PageSize(bytes, k) > Len(bytes')
    <3> SUFFICES ASSUME k = Len(bytes), bytes[k] = <<"p", f, p>>
                 PROVE  k + PageSize(bytes, k) > Len(bytes')
      BY <2>1
    <3>1. HeadWaits(f, p)
      BY <1>3 DEF HeadWaits
    <3>2. n < p - f
      BY <1>2, <1>10, <3>1
    <3>3. PageSize(bytes, k) = p - f
      BY DEF PageSize
    <3> QED
      BY <1>2, <1>3, <3>2, <3>3
  <2>2. Len(bytes') > Len(bytes) => bytes'[Len(bytes) + 1][1] # "s" \/ bytes'[Len(bytes) + 1][2] >= f
    <3> SUFFICES ASSUME Len(bytes') > Len(bytes)
                 PROVE  bytes'[Len(bytes) + 1][2] >= f
      OBVIOUS
    <3>1. 1 \in 1 .. n
      BY <1>2, <1>3
    <3>2. bytes'[Len(bytes) + 1][2] = f + 1 - 1
      BY <1>5, <3>1
    <3> QED
      BY <3>2
  <2>3. \A k \in Len(bytes) + 1 .. Len(bytes') :
          bytes'[k][1] = "p" => PageSize(bytes', k) <= 0 \/ k + PageSize(bytes', k) > Len(bytes')
    BY <1>6
  <2>4. Heard(format, bytes') = Heard(format, bytes)
    BY <1>2, <2>1, <2>2, <2>3, NothingHeard
  <2> QED
    BY <1>8, <1>10, <2>4 DEF InFile
<1> QED
  BY <1>9, <1>10

(* A FLAC frame.                                                           *)
LEMMA FrameAppended ==
  ASSUME format # "wav", format' = format, bytes \in Seq(Bytes), NEW f \in Nat, NEW p \in Nat, f < p, NoOpenPage(f),
         NEW n \in Nat, Written(Len(bytes), PageHead(f, p) \o PageBody(f, p), n)
  PROVE  /\ NoOpenPage(p)'
         /\ IF n = 1 + (p - f) THEN InFile' = AndThen(InFile, f, p) ELSE InFile' = InFile
<1> DEFINE s == PageHead(f, p) \o PageBody(f, p)
<1>0. f <= p
  OBVIOUS
<1>1. s \in Seq(Bytes) /\ Len(s) = 1 + (p - f) /\ s[1] = <<"p", f, p>>
      /\ \A k \in 1 .. p - f : s[1 + k] = <<"s", f + k - 1>>
  BY <1>0, FrameIsBytes
<1> HIDE DEF s
<1>2. /\ bytes' \in Seq(Bytes) /\ Extends(bytes, bytes') /\ Len(bytes') = Len(bytes) + n /\ n <= 1 + (p - f)
      /\ \A j \in 1 .. n : bytes'[Len(bytes) + j] = s[j]
  BY <1>1, AppendWritten DEF s
<1>3. Len(bytes) \in Nat /\ Len(bytes') \in Nat /\ p - f \in Nat
  BY <1>2
<1>4. PICK h \in Nat : h = Len(bytes) + 1
  BY <1>3
<1>5. n >= 1 => bytes'[h] = <<"p", f, p>>
  <2>1. n >= 1 => 1 \in 1 .. n
    OBVIOUS
  <2> QED
    BY <1>1, <1>2, <1>4, <2>1
<1>6. \A j \in 1 .. n - 1 : bytes'[h + j] = <<"s", f + j - 1>>
  <2> SUFFICES ASSUME NEW j \in 1 .. n - 1 PROVE bytes'[h + j] = <<"s", f + j - 1>>
    OBVIOUS
  <2>1. j \in 1 .. p - f /\ 1 + j \in 1 .. n /\ h + j = Len(bytes) + (1 + j)
    BY <1>2, <1>3, <1>4
  <2>2. bytes'[h + j] = s[1 + j]
    BY <1>2, <2>1
  <2> QED
    BY <1>1, <2>1, <2>2
<1>7. ASSUME NEW k \in h + 1 .. Len(bytes')
      PROVE  bytes'[k][1] = "s"
  <2> DEFINE j == k - h
  <2>1. j \in 1 .. n - 1 /\ k = h + j
    BY <1>2, <1>3, <1>4
  <2> HIDE DEF j
  <2> DEFINE y == f + j - 1
  <2>2. bytes'[k] = <<"s", y>>
    BY <1>6, <2>1
  <2> HIDE DEF y
  <2> QED
    BY <2>2
<1>8. \A k \in 1 .. Len(bytes) : bytes'[k] = bytes[k]
  BY <1>2 DEF Extends
<1>9. NoOpenPage(p)'
  <2> SUFFICES ASSUME NEW k \in 1 .. Len(bytes'), bytes'[k][1] = "p"
               PROVE  bytes'[k][3] <= p
    BY DEF NoOpenPage
  <2>1. k \in 1 .. Len(bytes) \/ (k = h /\ n >= 1)
    <3>1. k \notin h + 1 .. Len(bytes')
      BY <1>7
    <3> QED
      BY <1>2, <1>3, <1>4, <3>1
  <2>2. CASE k \in 1 .. Len(bytes)
    <3>1. bytes'[k] = bytes[k] /\ bytes[k][3] <= f
      BY <1>8, <2>2 DEF NoOpenPage
    <3>2. bytes[k][3] \in Nat
      BY <2>2, <3>1, ByteTypes
    <3> QED
      BY <3>1, <3>2
  <2>3. CASE k = h /\ n >= 1
    BY <1>5, <2>3
  <2> QED
    BY <2>1, <2>2, <2>3
<1>10. CASE n = 1 + (p - f)
  <2>1. PageAppended(bytes, bytes', h, f, p)
    <3>1. Len(bytes') = h + (p - f) /\ h >= 1 /\ n - 1 = p - f /\ n >= 1
      <4>1. PICK l \in Nat, k \in Nat : l = Len(bytes) /\ k = Len(bytes') /\ k = l + n /\ h = l + 1
        BY <1>2, <1>3, <1>4
      <4> QED
        BY <1>10, <4>1
    <3>2. \A j \in 1 .. p - f : bytes'[h + j] = <<"s", f + j - 1>>
      BY <1>6, <3>1
    <3> QED
      BY <1>2, <1>4, <1>5, <3>1, <3>2, Zenon DEF PageAppended
  <2>2. Heard(format, bytes') = AndThen(Heard(format, bytes), f, p)
    BY <1>2, <1>4, <2>1, PageHeard
  <2> QED
    BY <1>9, <1>10, <2>2 DEF InFile
<1>11. CASE n # 1 + (p - f)
  <2>1. \A k \in 1 .. Len(bytes) : bytes[k][1] = "p" => bytes[k][3] <= f \/ k + PageSize(bytes, k) > Len(bytes')
    BY DEF NoOpenPage
  <2>2. Len(bytes') > Len(bytes) => bytes'[Len(bytes) + 1][1] # "s" \/ bytes'[Len(bytes) + 1][2] >= f
    <3> SUFFICES ASSUME Len(bytes') > Len(bytes)
                 PROVE  bytes'[h][1] # "s"
      BY <1>4
    <3>1. n >= 1
      BY <1>2, <1>3
    <3> QED
      BY <1>5, <3>1
  <2>3. ASSUME NEW k \in Len(bytes) + 1 .. Len(bytes'), bytes'[k][1] = "p"
        PROVE  k + PageSize(bytes', k) > Len(bytes')
    <3>1. k = h /\ n >= 1
      <4>1. k \notin h + 1 .. Len(bytes')
        BY <1>7, <2>3
      <4> QED
        BY <1>2, <1>3, <1>4, <4>1
    <3>2. PageSize(bytes', k) = p - f
      BY <1>5, <3>1 DEF PageSize
    <3> QED
      BY <1>2, <1>3, <1>4, <1>11, <3>1, <3>2
  <2>4. Heard(format, bytes') = Heard(format, bytes)
    BY <1>2, <2>1, <2>2, <2>3, NothingHeard
  <2> QED
    BY <1>9, <1>11, <2>4 DEF InFile
<1> QED
  BY <1>10, <1>11

(* Nothing is queued any more.                                             *)
LEMMA CodecDone ==
  ASSUME NEW p, p = paged, paged' = paged, queue' = <<>>, NoOpenPage(p)', Below(InFile', p), Increasing(InFile'),
         disk' = "fits" => InFile' = Positions(0, p)
  PROVE  Codec(p)'
<1>1. QueueIs(p)'
  BY DEF QueueIs
<1>2. \A k \in 1 .. Len(bytes') : bytes'[k][1] = "p" => bytes'[k][3] <= p
  BY DEF NoOpenPage
<1>3. /\ \A j \in DOMAIN InFile' : InFile'[j] < p
      /\ \A j, k \in DOMAIN InFile' : j < k => InFile'[j] < InFile'[k]
  BY DEF Below, Increasing
<1>4. ~(p < paged' /\ queue' = <<PageBody(p, paged')>> /\ format' = "ogg")
  OBVIOUS
<1> QED
  BY <1>1, <1>2, <1>3, <1>4, Zenon DEF Codec

LEMMA HeadsAndTails ==
  ASSUME NEW x, NEW y
  PROVE  Head(<<x>>) = x /\ Tail(<<x>>) = <<>> /\ Head(<<x, y>>) = x /\ Tail(<<x, y>>) = <<y>> /\ <<x, y>> # <<y>>
OBVIOUS

(* The FLAC header goes before all frames.                                 *)
LEMMA FlacHeaderKept ==
  ASSUME LibInv, WriteFlacHeader, NEW f \in 0 .. paged, Codec(f)
  PROVE  /\ pos' = Len(bytes') /\ (queue' # <<>> => at' \in {"samples", "finish"})
         /\ Codec(f)' /\ InFile' = InFile /\ paged' = paged
<1>1. /\ at = "header" /\ format = "flac" /\ format' = format /\ paged' = paged /\ queue' = queue
  BY DEF WriteFlacHeader, client
<1>2. queue = <<>> /\ bytes \in Seq(Bytes) /\ paged \in Nat
  BY <1>1 DEF LibInv, LibType, CodecInv
<1>3. f = paged /\ f \in Nat
  BY <1>2, QueueEmpty DEF Codec
<1>4. PICK n \in Nat : Written(Len(bytes), Header(PlainHeader, 0), n)
  BY StepWrites
<1>5. NoOpenPage(f)
  BY <1>3 DEF Codec, HeadIsLast, NoOpenPage
<1>6. InFile' = InFile /\ NoOpenPage(f)'
  BY HeaderAssumption, <1>1, <1>2, <1>3, <1>4, <1>5, HeaderAppended
<1>7. Below(InFile', f) /\ Increasing(InFile')
  BY <1>6 DEF Codec, Below, Increasing
<1>8. pos' = Len(bytes') /\ (disk # "fits" => disk' = disk)
  <2>1. Header(PlainHeader, 0) \in Seq(Bytes)
    BY HeaderAssumption, HeaderIsBytes
  <2> QED
    BY <1>2, <1>4, <2>1, AppendWritten
<1>9. disk' = "fits" => InFile' = Positions(0, f)
  BY <1>6, <1>8 DEF Codec
<1>10. Codec(f)'
  BY <1>1, <1>2, <1>3, <1>6, <1>7, <1>9, CodecDone
<1> QED
  BY <1>1, <1>2, <1>6, <1>8, <1>10

(* The queue's strings, and what is known of them.                         *)
LEMMA QueueCases ==
  ASSUME NEW f \in Nat, paged \in Nat, format \in Formats \ {"wav"}, QueueIs(f), queue # <<>>
  PROVE  \/ f = paged /\ format = "ogg" /\ queue = <<PageHead(0, 0), Header(PlainHeader, 0)>>
         \/ f = paged /\ format = "ogg" /\ queue = <<Header(PlainHeader, 0)>>
         \/ f < paged /\ format = "ogg" /\ queue = <<PageHead(f, paged), PageBody(f, paged)>>
         \/ f < paged /\ format = "ogg" /\ queue = <<PageBody(f, paged)>>
         \/ f < paged /\ format = "flac" /\ queue = <<PageHead(f, paged) \o PageBody(f, paged)>>
<1>1. format = "ogg" \/ format = "flac"
  BY DEF Formats
<1>2. Page(f, paged) = IF format = "ogg" THEN <<PageHead(f, paged), PageBody(f, paged)>>
                       ELSE <<PageHead(f, paged) \o PageBody(f, paged)>>
  BY DEF Page
<1>3. OggHeader = <<PageHead(0, 0), Header(PlainHeader, 0)>>
  BY DEF OggHeader
<1> QED
  BY <1>1, <1>2, <1>3, Zenon DEF QueueIs

(* What WritePage does to the file and the queue.                          *)
LEMMA WritePageSteps ==
  ASSUME LibInv, WritePage
  PROVE  /\ format' = format /\ paged' = paged /\ at' = at /\ handle' = handle /\ handed' = handed
         /\ queue # <<>> /\ at \in {"samples", "finish"} /\ format \in Formats \ {"wav"}
         /\ bytes \in Seq(Bytes) /\ paged \in Nat /\ pos = Len(bytes)
         /\ format = "ogg" => queue' = Tail(queue)
         /\ format = "flac" => queue' = <<>> \/ queue' = Tail(queue)
         /\ \E n \in Nat : Written(Len(bytes), Head(queue), n)
<1>1. queue # <<>> /\ format' = format /\ paged' = paged /\ at' = at /\ handle' = handle /\ handed' = handed
  BY DEF WritePage, client
<1>2. format # "wav"
  BY <1>1 DEF LibInv, WavInv
<1>3. at \in {"samples", "finish"} /\ format \in Formats \ {"wav"}
      /\ bytes \in Seq(Bytes) /\ paged \in Nat /\ pos = Len(bytes)
  BY <1>1, <1>2 DEF LibInv, LibType, CodecInv
<1>4. /\ format = "ogg" => queue' = Tail(queue)
      /\ format = "flac" => queue' = <<>> \/ queue' = Tail(queue)
  BY DEF WritePage, QueueAfter
<1> QED
  BY <1>1, <1>3, <1>4, StepWrites

(* How far a page may bring the file.                                      *)
PageWritten(f, g) ==
  /\ Codec(g)'
  /\ InFile' = InFile \/ (f < paged /\ InFile' = AndThen(InFile, f, paged))
  /\ pos' = Len(bytes') /\ (queue' # <<>> => at' \in {"samples", "finish"})

(* A page or frame is written, or was refused.                             *)
LEMMA PageDone ==
  ASSUME paged \in Nat, NEW f \in Nat, f < paged, paged' = paged, queue' = <<>>, pos' = Len(bytes'),
         InFile \in Seq(Nat), Increasing(InFile), Below(InFile, f), NoOpenPage(paged)',
         InFile' = AndThen(InFile, f, paged) \/ InFile' = InFile,
         disk' = "fits" => InFile = Positions(0, f) /\ InFile' = AndThen(InFile, f, paged)
  PROVE  PageWritten(f, paged)
<1>1. PICK p \in Nat : p = paged
  OBVIOUS
<1>2. NoOpenPage(p)'
  BY <1>1 DEF NoOpenPage
<1>3. /\ Increasing(AndThen(InFile, f, p)) /\ Below(AndThen(InFile, f, p), p)
      /\ InFile = Positions(0, f) => AndThen(InFile, f, p) = Positions(0, p)
  <2>1. PICK x \in Seq(Nat) : x = InFile
    OBVIOUS
  <2>2. /\ Increasing(AndThen(x, f, p)) /\ Below(AndThen(x, f, p), p)
        /\ x = Positions(0, f) => AndThen(x, f, p) = Positions(0, p)
        /\ Len(AndThen(x, f, p)) = Len(x) + (p - f)
    BY <1>1, <2>1, PageJoins
  <2> QED
    BY <2>1, <2>2
<1>4. Below(InFile, p)
  <2> SUFFICES ASSUME NEW j \in DOMAIN InFile PROVE InFile[j] < p
    BY DEF Below
  <2>1. InFile[j] \in Nat /\ InFile[j] < f
    BY DEF Below
  <2> QED
    BY <1>1, <2>1
<1>5. Below(InFile', p) /\ Increasing(InFile')
  BY <1>1, <1>3, <1>4
<1>6. disk' = "fits" => InFile' = Positions(0, p)
  BY <1>1, <1>3
<1>7. Codec(p)'
  BY <1>1, <1>2, <1>5, <1>6, CodecDone
<1>8. Codec(paged)'
  BY <1>1, <1>7
<1> QED
  BY <1>1, <1>7 DEF PageWritten

(* WritePage brings the file from sample f to a sample g, by that page or  *)
(* by nothing.                                                             *)
LEMMA WritePageKept ==
  ASSUME LibInv, WritePage, NEW f \in 0 .. paged, Codec(f)
  PROVE  \E g \in f .. paged : PageWritten(f, g)
<1>1. /\ format' = format /\ paged' = paged /\ at' = at
      /\ queue # <<>> /\ at \in {"samples", "finish"} /\ format \in Formats \ {"wav"}
      /\ bytes \in Seq(Bytes) /\ paged \in Nat /\ pos = Len(bytes)
      /\ format = "ogg" => queue' = Tail(queue)
      /\ format = "flac" => queue' = <<>> \/ queue' = Tail(queue)
  BY WritePageSteps
<1>2. PICK n \in Nat : Written(Len(bytes), Head(queue), n)
  BY WritePageSteps
<1>3. f \in Nat /\ f <= paged /\ f \in f .. paged /\ paged \in f .. paged
  BY <1>1
<1> DEFINE p == paged
<1>4. QueueIs(f)
  BY DEF Codec
<1>5. InFile \in Seq(Nat) /\ Increasing(InFile) /\ Below(InFile, f) /\ (disk = "fits" => InFile = Positions(0, f))
  <2>1. InFile \in Seq(Nat)
    BY <1>1, HeardIsSamples DEF InFile
  <2> QED
    BY <2>1 DEF Codec, Increasing, Below
<1>6. \A k \in 1 .. Len(bytes) : bytes[k][1] = "p" => bytes[k][3] <= f \/ HeadIsLast(f, k)
  BY DEF Codec
<1>7. ASSUME f = paged \/ queue # <<PageBody(f, paged)>>
      PROVE  NoOpenPage(f)
  BY <1>1, <1>6, <1>7 DEF NoOpenPage, HeadIsLast
<1>8. ASSUME NEW s \in Seq(Bytes), Written(Len(bytes), s, n)
      PROVE  /\ pos' = Len(bytes') /\ n <= Len(s)
             /\ disk' = "fits" => disk = "fits" /\ n = Len(s)
  <2>1. /\ pos' = Len(bytes') /\ n <= Len(s) /\ (n < Len(s) => disk' # "fits") /\ (disk # "fits" => disk' = disk)
    BY <1>1, <1>2, <1>8, AppendWritten
  <2>2. Len(s) \in Nat
    OBVIOUS
  <2> QED
    BY <1>2, <2>1, <2>2
<1>9. CASE f = paged /\ format = "ogg" /\ queue = <<PageHead(0, 0), Header(PlainHeader, 0)>>
  <2>1. Head(queue) = PageHead(0, 0) /\ queue' = <<Header(PlainHeader, 0)>>
    BY <1>1, <1>9, HeadsAndTails
  <2>2. 0 \in Nat /\ 0 <= 0 /\ PageHead(0, 0) \in Seq(Bytes)
    BY PageIsBytes
  <2>3. NoOpenPage(f)
    BY <1>7, <1>9
  <2>4. Written(Len(bytes), PageHead(0, 0), n)
    BY <1>2, <2>1
  <2>5. /\ InFile' = InFile
        /\ \A k \in 1 .. Len(bytes') :
             bytes'[k][1] = "p" => bytes'[k][3] <= f \/ (k = Len(bytes') /\ bytes'[k] = <<"p", 0, 0>>)
    BY <1>1, <1>2, <1>3, <2>2, <2>3, <2>4, HeadAppended
  <2>6. \A k \in 1 .. Len(bytes') : bytes'[k][1] = "p" => bytes'[k][3] <= f
    BY <1>3, <2>5
  <2>7. pos' = Len(bytes') /\ (disk' = "fits" => disk = "fits")
    BY <1>8, <2>2, <2>4
  <2>8. QueueIs(f)'
    BY <1>1, <1>9, <2>1 DEF QueueIs
  <2>9. Codec(f)'
    <3>1. disk' = "fits" => InFile' = Positions(0, f)
      BY <1>5, <2>5, <2>7
    <3>2. /\ \A j \in DOMAIN InFile' : InFile'[j] < f
          /\ \A j, k \in DOMAIN InFile' : j < k => InFile'[j] < InFile'[k]
      BY <1>5, <2>5 DEF Below, Increasing
    <3>3. ~(f < paged')
      BY <1>1, <1>3, <1>9
    <3> QED
      BY <2>6, <2>8, <3>1, <3>2, <3>3, Zenon DEF Codec
  <2> QED
    BY <1>1, <1>3, <2>5, <2>7, <2>9 DEF PageWritten
<1>10. CASE f = paged /\ format = "ogg" /\ queue = <<Header(PlainHeader, 0)>>
  <2>1. Head(queue) = Header(PlainHeader, 0) /\ queue' = <<>>
    BY <1>1, <1>10, HeadsAndTails
  <2>2. Header(PlainHeader, 0) \in Seq(Bytes) /\ PlainHeader \in Nat
    BY HeaderAssumption, HeaderIsBytes
  <2>3. NoOpenPage(f)
    BY <1>7, <1>10
  <2>4. Written(Len(bytes), Header(PlainHeader, 0), n)
    BY <1>2, <2>1
  <2>5. InFile' = InFile /\ NoOpenPage(f)'
    BY <1>1, <1>2, <1>3, <2>2, <2>3, <2>4, HeaderAppended
  <2>7. pos' = Len(bytes') /\ (disk' = "fits" => disk = "fits")
    BY <1>8, <2>2, <2>4
  <2>8. Below(InFile', f) /\ Increasing(InFile') /\ (disk' = "fits" => InFile' = Positions(0, f))
    BY <1>5, <2>5, <2>7
  <2>9. Codec(f)'
    BY <1>1, <1>10, <2>1, <2>5, <2>8, CodecDone
  <2> QED
    BY <1>1, <1>3, <2>1, <2>5, <2>7, <2>9 DEF PageWritten
<1>11. CASE f < paged /\ format = "ogg" /\ queue = <<PageHead(f, paged), PageBody(f, paged)>>
  <2>1. Head(queue) = PageHead(f, paged) /\ queue' = <<PageBody(f, paged)>> /\ queue # <<PageBody(f, paged)>>
    BY <1>1, <1>11, HeadsAndTails
  <2>2. PageHead(f, paged) \in Seq(Bytes) /\ Len(PageHead(f, paged)) = 1
    BY <1>1, <1>3, PageIsBytes
  <2>3. NoOpenPage(f)
    BY <1>7, <2>1
  <2>4. Written(Len(bytes), PageHead(f, paged), n)
    BY <1>2, <2>1
  <2>5. /\ InFile' = InFile
        /\ \A k \in 1 .. Len(bytes') :
             bytes'[k][1] = "p" => bytes'[k][3] <= f \/ (k = Len(bytes') /\ bytes'[k] = <<"p", f, paged>>)
        /\ n = 1 => bytes' # <<>> /\ bytes'[Len(bytes')] = <<"p", f, paged>>
    BY <1>1, <1>2, <1>3, <2>3, <2>4, HeadAppended
  <2>6. \A k \in 1 .. Len(bytes') : bytes'[k][1] = "p" => bytes'[k][3] <= f \/ HeadIsLast(f, k)'
    BY <1>1, <1>11, <2>1, <2>5 DEF HeadIsLast
  <2>7. pos' = Len(bytes') /\ (disk' = "fits" => disk = "fits" /\ n = 1)
    BY <1>8, <2>2, <2>4
  <2>8. QueueIs(f)'
    BY <1>1, <1>11, <2>1 DEF QueueIs
  <2>9. Codec(f)'
    <3>1. disk' = "fits" => InFile' = Positions(0, f)
      BY <1>5, <2>5, <2>7
    <3>2. /\ \A j \in DOMAIN InFile' : InFile'[j] < f
          /\ \A j, k \in DOMAIN InFile' : j < k => InFile'[j] < InFile'[k]
      BY <1>5, <2>5 DEF Below, Increasing
    <3>3. disk' = "fits" => bytes' # <<>> /\ HeadIsLast(f, Len(bytes))'
      BY <1>1, <1>11, <2>1, <2>5, <2>7 DEF HeadIsLast
    <3> QED
      BY <2>6, <2>8, <3>1, <3>2, <3>3, Zenon DEF Codec
  <2> QED
    BY <1>1, <1>3, <2>5, <2>7, <2>9 DEF PageWritten
<1>12. CASE f < paged /\ format = "ogg" /\ queue = <<PageBody(f, paged)>>
  <2>1. Head(queue) = PageBody(f, paged) /\ queue' = <<>>
    BY <1>1, <1>12, HeadsAndTails
  <2>2. PageBody(f, paged) \in Seq(Bytes) /\ Len(PageBody(f, paged)) = paged - f
    BY <1>1, <1>3, PageIsBytes
  <2>3. \A k \in 1 .. Len(bytes) :
           bytes[k][1] = "p" => bytes[k][3] <= f \/ (k = Len(bytes) /\ bytes[k] = <<"p", f, paged>>)
    BY <1>6 DEF HeadIsLast
  <2>4. Written(Len(bytes), PageBody(f, paged), n)
    BY <1>2, <2>1
  <2>5. /\ NoOpenPage(paged)'
        /\ IF n = paged - f /\ HeadWaits(f, paged) THEN InFile' = AndThen(InFile, f, paged) ELSE InFile' = InFile
    <3>1. PICK q \in Nat : q = paged
      BY <1>1
    <3>2. /\ NoOpenPage(q)'
          /\ IF n = q - f /\ HeadWaits(f, q) THEN InFile' = AndThen(InFile, f, q) ELSE InFile' = InFile
      BY <1>1, <1>2, <1>3, <1>12, <2>3, <2>4, <3>1, BodyAppended
    <3> QED
      BY <1>1, <3>1, <3>2 DEF NoOpenPage
  <2>6. pos' = Len(bytes') /\ (disk' = "fits" => disk = "fits" /\ n = paged - f)
    BY <1>8, <2>2, <2>4
  <2>7. disk' = "fits" => HeadWaits(f, paged)
    BY <1>12, <2>6 DEF Codec, HeadIsLast, HeadWaits
  <2>8. PageWritten(f, paged)
    BY <1>1, <1>3, <1>5, <1>12, <2>1, <2>5, <2>6, <2>7, PageDone
  <2> QED
    BY <1>3, <2>8
<1>13. CASE f < paged /\ format = "flac" /\ queue = <<PageHead(f, paged) \o PageBody(f, paged)>>
  <2>1. Head(queue) = PageHead(f, paged) \o PageBody(f, paged) /\ queue' = <<>>
    BY <1>1, <1>13, HeadsAndTails
  <2> DEFINE s == PageHead(f, paged) \o PageBody(f, paged)
  <2>2. s \in Seq(Bytes) /\ Len(s) = 1 + (paged - f)
    BY <1>1, <1>3, FrameIsBytes
  <2>3. NoOpenPage(f)
    <3>1. queue # <<PageBody(f, paged)>>
      BY <1>1, <1>3, <1>13, FrameIsNoBody
    <3> QED
      BY <1>7, <3>1
  <2>4. Written(Len(bytes), s, n)
    BY <1>2, <2>1
  <2>5. /\ NoOpenPage(paged)'
        /\ IF n = 1 + (paged - f) THEN InFile' = AndThen(InFile, f, paged) ELSE InFile' = InFile
    <3>1. PICK q \in Nat : q = paged
      BY <1>1
    <3>3. Written(Len(bytes), PageHead(f, q) \o PageBody(f, q), n)
      BY <2>4, <3>1
    <3>2. /\ NoOpenPage(q)'
          /\ IF n = 1 + (q - f) THEN InFile' = AndThen(InFile, f, q) ELSE InFile' = InFile
      BY <1>1, <1>2, <1>3, <1>13, <2>3, <3>1, <3>3, FrameAppended
    <3> QED
      BY <1>1, <3>1, <3>2 DEF NoOpenPage
  <2>6. pos' = Len(bytes') /\ (disk' = "fits" => disk = "fits" /\ n = 1 + (paged - f))
    <3> HIDE DEF s
    <3> QED
      BY <1>8, <2>2, <2>4
  <2>8. PageWritten(f, paged)
    BY <1>1, <1>3, <1>5, <1>13, <2>1, <2>5, <2>6, PageDone
  <2> QED
    BY <1>3, <2>8
<1> QED
  BY <1>1, <1>3, <1>4, <1>9, <1>10, <1>11, <1>12, <1>13, QueueCases

(* So every step keeps the invariant about Ogg and FLAC files.             *)
LEMMA CodecKept ==
  ASSUME LibInv, LibNext
  PROVE  CodecInv'
<1> SUFFICES ASSUME format # "wav"
             PROVE  /\ pos' = Len(bytes') /\ (queue' # <<>> => at' \in {"samples", "finish"})
                    /\ \E f \in 0 .. paged' : Codec(f)'
  BY FormatStays DEF CodecInv
<1>1. PICK f \in 0 .. paged : Codec(f)
  BY DEF LibInv, CodecInv
<1>2. paged \in Nat
  BY DEF LibInv, LibType
<1>3. CASE \/ OpenFails \/ OpenCodec \/ SetString \/ RefusePiece \/ TakePiece \/ EncodeIntoNull \/ Encoded \/ Return
           \/ CloseNull \/ StartClosing \/ FinishNothing \/ psf_fclose \/ Relieve
  BY <1>1, <1>3, CodecQuietKept
<1>4. CASE WriteOggHeader \/ FinishEncoding \/ CutPage
  BY <1>1, <1>4, QueueFilledKept
<1>5. CASE WriteFlacHeader
  BY <1>1, <1>5, FlacHeaderKept
<1>6. CASE WritePage
  <2>1. PICK g \in f .. paged : PageWritten(f, g)
    BY <1>1, <1>6, WritePageKept
  <2>2. paged' = paged
    BY <1>6 DEF WritePage
  <2>3. g \in 0 .. paged'
    BY <1>1, <1>2, <2>1, <2>2
  <2> QED
    BY <2>1, <2>3 DEF PageWritten
<1>7. CASE OpenWav \/ WriteWavHeader \/ WriteWavSamples \/ CloseWav
  BY <1>7 DEF OpenWav, WriteWavHeader, WriteWavSamples, CloseWav
<1> QED
  BY <1>3, <1>4, <1>5, <1>6, <1>7 DEF LibNext, Library, Program

(* The invariant holds at the beginning and each step keeps it.            *)
LEMMA LibInvStarts == LibInit => LibInv
<1> SUFFICES ASSUME LibInit PROVE LibInv
  OBVIOUS
<1>1. bytes = <<>> /\ Len(bytes) = 0 /\ queue = <<>>
  BY DEF LibInit
<1>2. LibType
  <2>1. <<>> \in Seq(Bytes) /\ <<>> \in Seq(Seq(Bytes))
    OBVIOUS
  <2> QED
    BY RoomAssumption, <2>1 DEF LibInit, LibType
<1>3. CallInv
  BY DEF LibInit, CallInv
<1>4. WavInv
  <2>1. WavShape(bytes, 0, 0, 0) /\ HeaderSize \in Nat
    BY HeaderAssumption, <1>1 DEF WavShape, HeaderSize
  <2>2. Wav(0, 0, 0)
    BY <1>1, <2>1 DEF LibInit, Wav, InStep
  <2>3. 0 \in 0 .. Len(bytes) /\ 0 \in 0 .. 0 /\ 0 \in Nat
    BY <1>1
  <2> QED
    BY <1>1, <2>2, <2>3 DEF LibInit, WavInv
<1>5. FlacInv /\ OggInv
  BY DEF LibInit, FlacInv, OggInv
<1>6. CodecInv
  <2> SUFFICES ASSUME format # "wav" PROVE Codec(0)
    BY <1>1 DEF CodecInv, LibInit
  <2>1. InFile = <<>>
    <3>1. \A n \in 1 .. Len(bytes) : n \notin HeardOnPages(bytes)
      BY <1>1
    <3>2. SamplesAt(HeardOnPages(bytes), bytes) = <<>>
      BY <1>1, <3>1, NoneHeard
    <3> QED
      BY <3>2 DEF InFile, Heard
  <2>2. Positions(0, 0) = <<>>
    BY DEF Positions
  <2>3. QueueIs(0) /\ paged = 0
    BY <1>1 DEF LibInit, QueueIs
  <2> QED
    BY <1>1, <2>1, <2>2, <2>3 DEF Codec
<1> QED
  BY <1>2, <1>3, <1>4, <1>5, <1>6 DEF LibInv

LEMMA LibInvKept == LibInv /\ [LibNext]_lib_vars => LibInv'
<1> SUFFICES ASSUME LibInv, [LibNext]_lib_vars PROVE LibInv'
  OBVIOUS
<1>1. CASE LibNext
  BY <1>1, TypeKept, CallKept, WavKept, CodecKept, FlacKept, OggKept DEF LibInv
<1>2. CASE UNCHANGED lib_vars
  <2> USE <1>2 DEF lib_vars, client, psf, storage
  <2>1. LibType' /\ CallInv' /\ FlacInv' /\ OggInv'
    BY DEF LibInv, LibType, CallInv, FlacInv, OggInv
  <2>2. WavInv'
    BY DEF LibInv, WavInv, Wav, InStep, HeaderSize
  <2>3. CodecInv'
    <3>1. SameFile
      BY DEF SameFile
    <3> QED
      BY <3>1, CodecStays DEF LibInv, CodecInv
  <2> QED
    BY <2>1, <2>2, <2>3 DEF LibInv
<1> QED
  BY <1>1, <1>2

(* In every state of the library (sndfile.c, file_io.c and the codecs),    *)
(* for every format, piece, room on the disk and number of samples an      *)
(* encoder keeps, the bytes of the file go with psf->have_written,         *)
(* write_current, the queue and the call's result.                         *)
THEOREM LibInvariant == LibSpec => []LibInv
  BY LibInvStarts, LibInvKept, PTL DEF LibSpec

-----------------------------------------------------------------------------

(* Whatever the disk does: the samples that can be read are in order.      *)
LEMMA OrderHolds == LibInv => InOrder
<1> SUFFICES ASSUME LibInv PROVE InOrder
  OBVIOUS
<1>1. bytes \in Seq(Bytes) /\ Len(bytes) \in Nat
  BY DEF LibInv, LibType
<1>2. CASE format # "wav"
  BY <1>2 DEF LibInv, CodecInv, Codec, InOrder
<1>3. CASE format = "wav"
  <2>1. PICK a \in 0 .. Len(bytes) : \E o \in 0 .. a : \E c \in Nat : Wav(a, o, c)
    BY <1>3 DEF LibInv, WavInv
  <2>2. PICK o \in 0 .. a : \E c \in Nat : Wav(a, o, c)
    BY <2>1
  <2>3. PICK c \in Nat : Wav(a, o, c)
    BY <2>2
  <2>4. WavShape(bytes, a, o, c)
    BY <2>3 DEF Wav
  <2>5. InFile = IF (a - o) % 2 = 0
                 THEN Positions((a - o) \div 2, (a - o) \div 2 + (Len(bytes) - a) \div 2)
                 ELSE <<>>
    BY <1>1, <1>3, <2>4, WavHeard DEF InFile
  <2>11. Len(bytes) \in Nat /\ a \in Nat /\ a <= Len(bytes) /\ o \in Nat /\ o <= a
    BY <1>1
  <2>12. a - o \in Nat /\ Len(bytes) - a \in Nat
    BY <2>11
  <2>9. PICK x \in Nat, y \in Nat : x = a - o /\ y = Len(bytes) - a
    BY <2>12
  <2>10. x \div 2 \in Nat /\ y \div 2 \in Nat
    OBVIOUS
  <2>6. PICK f \in Nat, m \in Nat : f = (a - o) \div 2 /\ m = (Len(bytes) - a) \div 2
    BY <2>9, <2>10
  <2>7. InFile = Positions(f, f + m) \/ InFile = <<>>
    BY <2>5, <2>6
  <2>8. Increasing(Positions(f, f + m))
    <3> DEFINE w == Positions(f, f + m)
    <3>1. f + m \in Nat /\ f <= f + m
      BY <2>6
    <3>2. w \in Seq(Nat) /\ Len(w) = (f + m) - f /\ \A k \in 1 .. (f + m) - f : w[k] = f + k - 1
      BY <2>6, <3>1, PositionsType
    <3> HIDE DEF w
    <3>3. DOMAIN w = 1 .. (f + m) - f
      BY <3>2
    <3>4. Increasing(w)
      BY <2>6, <3>2, <3>3 DEF Increasing
    <3> QED
      BY <3>4 DEF w
  <2> QED
    BY <2>7, <2>8 DEF Increasing, InOrder
<1> QED
  BY <1>2, <1>3

(* Whatever the disk does but for being relieved: the header claims what   *)
(* is there.                                                               *)
LEMMA ClaimHolds == LibInv => ClaimIsTrue
<1> SUFFICES ASSUME LibInv, format = "wav", Is("h", bytes, 1), disk # "relieved"
             PROVE  2 * bytes[1][2] <= Len(InFile) /\ (handle = "closed" => bytes[1][2] = write_current)
  BY DEF ClaimIsTrue
<1>1. bytes \in Seq(Bytes) /\ Len(bytes) \in Nat /\ write_current \in Nat
  BY DEF LibInv, LibType
<1>2. PICK a \in 0 .. Len(bytes) : \E o \in 0 .. a : \E c \in Nat : Wav(a, o, c)
  BY DEF LibInv, WavInv
<1>3. PICK o \in 0 .. a : \E c \in Nat : Wav(a, o, c)
  BY <1>2
<1>4. PICK c \in Nat : Wav(a, o, c)
  BY <1>3
<1>5. /\ WavShape(bytes, a, o, c)
      /\ a < Len(bytes) => o = a
      /\ 4 * write_current <= Len(bytes) - a
      /\ c = IF at = "fclose" \/ handle = "closed" THEN write_current ELSE 0
  BY <1>4 DEF Wav
<1>6. a \in Nat /\ o \in Nat /\ a <= Len(bytes) /\ c <= write_current
  BY <1>1, <1>4, <1>5
<1>7. bytes[1][2] = c
  <2>1. 1 \in 1 .. Len(bytes) /\ bytes[1][1] = "h"
    BY DEF Is
  <2>2. a >= 1
    <3> SUFFICES ASSUME a = 0 PROVE FALSE
      BY <1>6
    <3> DEFINE y == (1 - 1 - o) \div 2
    <3>1. bytes[1] = <<"s", y>>
      BY <1>5, <2>1 DEF WavShape
    <3> HIDE DEF y
    <3> QED
      BY <2>1, <3>1
  <2>3. bytes[1] = <<"h", c>>
    BY <1>5, <1>6, <2>2 DEF WavShape
  <2> QED
    BY <2>3
<1>8. InFile = IF (a - o) % 2 = 0
               THEN Positions((a - o) \div 2, (a - o) \div 2 + (Len(bytes) - a) \div 2)
               ELSE <<>>
  BY <1>1, <1>5, WavHeard DEF InFile
<1>9. 2 * c <= Len(InFile)
  <2>1. CASE c = 0
    <3>1. PICK f \in Nat, m \in Nat : f = (a - o) \div 2 /\ m = (Len(bytes) - a) \div 2
      BY <1>1, <1>6
    <3>2. Len(Positions(f, f + m)) \in Nat
      <4>1. f + m \in Nat /\ f <= f + m
        BY <3>1
      <4>2. Positions(f, f + m) \in Seq(Nat)
        BY <3>1, <4>1, PositionsType
      <4> QED
        BY <4>2
    <3>3. Len(InFile) \in Nat
      BY <1>8, <3>1, <3>2
    <3> QED
      BY <2>1, <3>3
  <2>2. CASE c # 0
    <3>1. a < Len(bytes) /\ o = a
      BY <1>1, <1>4, <1>5, <1>6, <2>2
    <3>2. PICK m \in Nat : m = (Len(bytes) - a) \div 2
      BY <1>1, <1>6
    <3>3. InFile = Positions(0, m)
      <4>1. (a - o) % 2 = 0 /\ (a - o) \div 2 = 0 /\ 0 + m = m
        BY <1>6, <3>1, <3>2
      <4> QED
        BY <1>8, <3>2, <4>1
    <3>4. Len(Positions(0, m)) = m - 0
      <4>1. 0 \in Nat /\ 0 <= m
        BY <3>2
      <4> QED
        BY <3>2, <4>1, PositionsType
    <3>5. 2 * c <= m
      BY <1>1, <1>4, <1>5, <1>6, <3>2
    <3> QED
      BY <3>2, <3>3, <3>4, <3>5
  <2> QED
    BY <2>1, <2>2
<1>10. handle = "closed" => c = write_current
  BY <1>5
<1> QED
  BY <1>7, <1>9, <1>10

(* Whatever the disk does and in whatever state the program is stopped,    *)
(* the samples that a reader finds in the file are in order, none twice:   *)
(* for every format, piece and number of samples an encoder keeps          *)
(* (sf_write_short, vorbis_write_s, flac_write_s2flac, psf_fwrite).        *)
THEOREM SamplesInOrder == LibSpec => []InOrder
  BY LibInvariant, OrderHolds, PTL

(* The header of a WAV file (wav_write_header, wav_close) never claims     *)
(* more frames than the file has, and when the file is closed it claims    *)
(* all that were counted, for every disk that is not relieved.             *)
THEOREM HeaderClaimIsTrue == LibSpec => []ClaimIsTrue
  BY LibInvariant, ClaimHolds, PTL

-----------------------------------------------------------------------------

(* What the promise knows besides the samples in the file.                 *)
NothingElse == UNCHANGED <<format, handle, handed, asked, good>>

(* Positions in a row, as many as there are.                               *)
LEMMA NoPositions ==
  ASSUME NEW m \in Nat
  PROVE  Positions(m, m) = <<>>
<1>1. 1 .. m - m = {}
  OBVIOUS
<1> QED
  BY <1>1 DEF Positions

(* What is heard in a WAV file is never more than what was handed over,    *)
(* and it begins with sample 0 if the samples begin where the header ends. *)
LEMMA WavHolds ==
  ASSUME NEW bs, Len(bs) \in Nat, NEW a \in 0 .. Len(bs), NEW o \in 0 .. a, NEW c, WavShape(bs, a, o, c)
  PROVE  /\ \A h \in Nat : a = Len(bs) \/ Len(bs) <= o + 2 * h =>
              \E m \in 0 .. h : \E k \in m .. h : Heard("wav", bs) = Positions(m, k)
         /\ o = a \/ a = Len(bs) => Heard("wav", bs) = Positions(0, (Len(bs) - a) \div 2)
<1>1. a \in Nat /\ o \in Nat /\ o <= a /\ a <= Len(bs)
  OBVIOUS
<1>2. PICK f \in Nat, l \in Nat : f = (a - o) \div 2 /\ l = (Len(bs) - a) \div 2
  BY <1>1
<1>3. Heard("wav", bs) = IF (a - o) % 2 = 0
                         THEN Positions((a - o) \div 2, (a - o) \div 2 + (Len(bs) - a) \div 2)
                         ELSE <<>>
  BY WavHeard
<1>4. Heard("wav", bs) = IF (a - o) % 2 = 0 THEN Positions(f, f + l) ELSE <<>>
  BY <1>2, <1>3
<1>5. <<>> = Positions(0, 0)
  BY NoPositions
<1>6. ASSUME a = Len(bs)
      PROVE  Heard("wav", bs) = Positions(0, 0) /\ l = 0
  <2>1. l = 0 /\ f + l = f
    BY <1>1, <1>2, <1>6
  <2>2. Positions(f, f) = <<>>
    BY <1>2, NoPositions
  <2> QED
    BY <1>4, <1>5, <2>1, <2>2
<1>7. ASSUME NEW h \in Nat, a = Len(bs) \/ Len(bs) <= o + 2 * h
      PROVE  \E m \in 0 .. h : \E k \in m .. h : Heard("wav", bs) = Positions(m, k)
  <2>1. CASE a = Len(bs) \/ (a - o) % 2 # 0
    <3>1. Heard("wav", bs) = Positions(0, 0) /\ 0 \in 0 .. h /\ 0 \in 0 .. h
      BY <1>4, <1>5, <1>6, <2>1
    <3> QED
      BY <3>1
  <2>2. CASE Len(bs) <= o + 2 * h /\ (a - o) % 2 = 0
    <3>1. Heard("wav", bs) = Positions(f, f + l)
      BY <1>4, <2>2
    <3>2. f + l <= h /\ f \in 0 .. h /\ f + l \in f .. h
      BY <1>1, <1>2, <2>2
    <3> QED
      BY <3>1, <3>2
  <2> QED
    BY <1>7, <2>1, <2>2
<1>8. ASSUME o = a \/ a = Len(bs)
      PROVE  Heard("wav", bs) = Positions(0, l)
  <2>1. CASE a = Len(bs)
    BY <1>6, <2>1
  <2>2. CASE o = a
    <3>1. (a - o) % 2 = 0 /\ f = 0 /\ f + l = l
      BY <1>1, <1>2, <2>2
    <3> QED
      BY <1>4, <3>1
  <2> QED
    BY <1>8, <2>1, <2>2
<1> QED
  BY <1>2, <1>7, <1>8

(* The same for the state: what is in the file while the disk has not been *)
(* relieved.                                                               *)
LEMMA WavInFile ==
  ASSUME LibInv, format = "wav", disk # "relieved"
  PROVE  \E a \in 0 .. Len(bytes) : \E o \in 0 .. a : \E c \in Nat :
           Wav(a, o, c) /\ InFile = Positions(0, (Len(bytes) - a) \div 2)
<1>1. PICK a \in 0 .. Len(bytes) : \E o \in 0 .. a : \E c \in Nat : Wav(a, o, c)
  BY DEF LibInv, WavInv
<1>2. PICK o \in 0 .. a : \E c \in Nat : Wav(a, o, c)
  BY <1>1
<1>3. PICK c \in Nat : Wav(a, o, c)
  BY <1>2
<1>4. Len(bytes) \in Nat
  BY DEF LibInv, LibType
<1>5. WavShape(bytes, a, o, c) /\ (o = a \/ a = Len(bytes))
  BY <1>3, <1>4 DEF Wav
<1>6. Heard("wav", bytes) = Positions(0, (Len(bytes) - a) \div 2)
  BY <1>4, <1>5, WavHolds
<1> QED
  BY <1>3, <1>6 DEF InFile

(* Between two calls a WAV file on a disk with room has all samples.       *)
LEMMA WavComplete ==
  ASSUME LibInv, format = "wav", disk = "fits", at \notin {"header", "samples"}, handle \notin {"unopened", "null"}
  PROVE  Len(InFile) = handed
<1>1. PICK a \in 0 .. Len(bytes) : \E o \in 0 .. a : \E c \in Nat :
             Wav(a, o, c) /\ InFile = Positions(0, (Len(bytes) - a) \div 2)
  BY WavInFile
<1>2. PICK o \in 0 .. a : \E c \in Nat : Wav(a, o, c)
  BY <1>1
<1>3. PICK c \in Nat : Wav(a, o, c)
  BY <1>2
<1>4. Len(bytes) = a + 2 * handed /\ a \in Nat /\ handed \in Nat /\ Len(bytes) \in Nat
  BY <1>3 DEF LibInv, LibType, Wav
<1>5. (Len(bytes) - a) \div 2 = handed
  BY <1>4
<1>6. Len(Positions(0, handed)) = handed - 0
  BY <1>4, PositionsType
<1> QED
  BY <1>1, <1>4, <1>5, <1>6

(* The other formats, when all is on pages and nothing waits.              *)
LEMMA CodecComplete ==
  ASSUME LibInv, format # "wav", disk = "fits", queue = <<>>, paged = handed
  PROVE  Len(InFile) = handed
<1>1. PICK f \in 0 .. paged : Codec(f)
  BY DEF LibInv, CodecInv
<1>2. f = paged /\ handed \in Nat
  BY <1>1, QueueEmpty DEF LibInv, LibType, Codec
<1>3. InFile = Positions(0, handed)
  BY <1>1, <1>2 DEF Codec
<1>4. Len(Positions(0, handed)) = handed - 0
  BY <1>2, PositionsType
<1> QED
  BY <1>2, <1>3, <1>4

(* Each step of the library is a step of the promise, or none.             *)
LEMMA FcloseIsClosed ==
  ASSUME LibInv, psf_fclose
  PROVE  Sound!Closed
<1>1. /\ UNCHANGED <<format, handed, asked, good, disk, bytes>>
      /\ handle' = "closed"
      /\ at = "fclose" \/ (at = "finish" /\ queue = <<>> /\ AllPaged)
  BY DEF psf_fclose, client, storage
<1>2. InFile' = InFile
  BY <1>1 DEF InFile
<1>3. handle = "closing"
  BY <1>1 DEF LibInv, CallInv
<1>4. ASSUME disk = "fits"
      PROVE  Len(InFile) = handed
  <2>1. CASE format = "wav"
    BY <1>1, <1>3, <1>4, <2>1, WavComplete
  <2>2. CASE format # "wav"
    <3>1. queue = <<>> /\ paged = handed
      <4>1. CASE at = "fclose"
        <5>1. format = "flac"
          BY <2>2, <4>1 DEF LibInv, LibType, Formats, OggInv
        <5>2. encoder # "ready" /\ ~have_written /\ queue = <<>>
          BY <1>4, <4>1, <5>1 DEF LibInv, FlacInv
        <5>3. handed = 0 /\ paged <= handed /\ paged \in Nat
          BY <4>1, <5>2 DEF LibInv, LibType, CallInv
        <5> QED
          BY <5>2, <5>3
      <4>2. CASE at = "finish" /\ queue = <<>> /\ AllPaged
        <5>1. encoder # "failed"
          <6>1. format = "flac" \/ format = "ogg"
            BY <2>2 DEF LibInv, LibType, Formats
          <6> QED
            BY <1>4, <6>1 DEF LibInv, FlacInv, OggInv
        <5> QED
          BY <4>2, <5>1 DEF AllPaged
      <4> QED
        BY <1>1, <4>1, <4>2
    <3> QED
      BY <1>4, <2>2, <3>1, CodecComplete
  <2> QED
    BY <2>1, <2>2
<1> QED
  BY <1>1, <1>2, <1>3, <1>4 DEF Sound!Closed

LEMMA ReturnIsReturn ==
  ASSUME LibInv, Return
  PROVE  \E r \in 0 .. asked : Sound!Return(r)
<1>1. /\ UNCHANGED <<format, handle, handed, disk, bytes>>
      /\ at = "return" /\ asked' = 0 /\ good' = (count = asked)
  BY DEF Return, client, storage
<1>2. InFile' = InFile
  BY <1>1 DEF InFile
<1>3. /\ handle \in {"null", "open"} /\ asked > 0 /\ count <= asked
      /\ handle = "null" \/ asked % 2 # 0 => count = 0
      /\ handle = "open" /\ asked % 2 = 0 => have_written
      /\ asked \in Nat /\ count \in Nat
      /\ disk \in {"fits", "full", "relieved"} /\ format \in Formats
  BY <1>1 DEF LibInv, LibType, CallInv
<1>4. count \in 0 .. asked
  BY <1>3
<1>5. ASSUME handle = "open", asked % 2 = 0
      PROVE  Sound!Takes(count)
  <2>1. CASE format = "ogg"
    BY <1>1, <1>5, <2>1 DEF LibInv, OggInv, Sound!Takes
  <2>2. CASE format = "flac"
    <3>1. CASE disk = "fits"
      <4>1. count = asked
        BY <1>1, <1>3, <1>5, <2>2, <3>1 DEF LibInv, FlacInv
      <4> QED
        BY <2>2, <3>1, <4>1 DEF Sound!Takes
    <3>2. CASE disk # "fits"
      <4>1. count < asked
        BY <1>1, <1>3, <1>5, <2>2, <3>2 DEF LibInv, FlacInv
      <4>2. count \in 0 .. asked - 1
        BY <1>3, <4>1
      <4> QED
        BY <2>2, <3>2, <4>2 DEF Sound!Takes
    <3> QED
      BY <3>1, <3>2
  <2>3. CASE format = "wav"
    <3>1. PICK a \in 0 .. Len(bytes) : \E o \in 0 .. a : \E c \in Nat : Wav(a, o, c)
      BY <2>3 DEF LibInv, WavInv
    <3>2. PICK o \in 0 .. a : \E c \in Nat : Wav(a, o, c)
      BY <3>1
    <3>3. PICK c \in Nat : Wav(a, o, c)
      BY <3>2
    <3>4. CASE disk = "fits"
      <4>1. count = asked
        BY <1>1, <1>5, <3>3, <3>4 DEF Wav
      <4>2. Len(InFile) = handed
        BY <1>1, <1>5, <2>3, <3>4, WavComplete
      <4> QED
        BY <2>3, <3>4, <4>1, <4>2 DEF Sound!Takes
    <3>5. CASE disk # "fits"
      <4>1. disk = "full" => count < asked
        BY <1>1, <1>5, <3>3 DEF Wav
      <4>2. count \in 0 .. asked - 1 \/ (disk = "relieved" /\ count = asked)
        BY <1>3, <3>5, <4>1
      <4> QED
        BY <2>3, <3>5, <4>2 DEF Sound!Takes
    <3> QED
      BY <3>4, <3>5
  <2> QED
    BY <1>3, <2>1, <2>2, <2>3 DEF Formats
<1>6. Sound!Return(count)
  BY <1>1, <1>2, <1>3, <1>5 DEF Sound!Return
<1> QED
  BY <1>4, <1>6

(* The steps in which the program and the codecs do not write.             *)
LEMMA QuietSteps ==
  ASSUME LibInv
  PROVE  /\ SetString \/ WriteOggHeader \/ CutPage \/ Encoded \/ FinishEncoding \/ FinishNothing
              => UNCHANGED Sound!vars
         /\ OpenFails \/ OpenCodec => Sound!Open
         /\ RefusePiece \/ TakePiece => \E n \in 1 .. MaxPiece : Sound!Call(n)
         /\ EncodeIntoNull => Sound!Crash \/ UNCHANGED Sound!vars
         /\ CloseNull \/ StartClosing => Sound!Close
         /\ Relieve => Sound!Relieve
<1> USE DEF client, psf, storage
<1>1. bytes' = bytes /\ format' = format => InFile' = InFile
  BY DEF InFile
<1>2. SetString \/ WriteOggHeader \/ CutPage \/ Encoded \/ FinishEncoding \/ FinishNothing => UNCHANGED Sound!vars
  BY <1>1 DEF SetString, WriteOggHeader, CutPage, Encoded, FinishEncoding, FinishNothing, Sound!vars
<1>3. OpenFails \/ OpenCodec => Sound!Open
  BY <1>1 DEF OpenFails, OpenCodec, Sound!Open
<1>4. /\ at = "idle" => asked = 0
      /\ handed \in Nat
  BY DEF LibInv, LibType, CallInv
<1>5. RefusePiece \/ TakePiece => \E n \in 1 .. MaxPiece : Sound!Call(n)
  <2>1. ASSUME NEW n \in 1 .. MaxPiece, handle = "null" \/ (handle = "open" /\ n % 2 # 0), Begin(n, 0, "return")
        PROVE  Sound!Call(n)
    BY <1>1, <1>4, <2>1 DEF Begin, Sound!Call
  <2>2. ASSUME NEW n \in 1 .. MaxPiece, handle = "open", n % 2 = 0,
               Begin(n, n, IF have_written THEN "samples" ELSE "header")
        PROVE  Sound!Call(n)
    BY <1>1, <1>4, <2>2 DEF Begin, Sound!Call
  <2> QED
    BY <2>1, <2>2 DEF RefusePiece, TakePiece
<1>6. EncodeIntoNull => Sound!Crash \/ UNCHANGED Sound!vars
  <2> SUFFICES ASSUME EncodeIntoNull PROVE Sound!Crash \/ UNCHANGED Sound!vars
    OBVIOUS
  <2>1. /\ at = "samples" /\ format = "flac" /\ encoder = "none" /\ handle' = "crashed"
        /\ UNCHANGED <<format, handed, asked, good, disk, bytes>>
    BY DEF EncodeIntoNull
  <2>2. handle \in {"open", "crashed"} /\ asked > 0 /\ disk # "fits"
    BY <2>1 DEF LibInv, CallInv, FlacInv
  <2> QED
    BY <1>1, <2>1, <2>2 DEF Sound!Crash, Sound!vars
<1>7. CloseNull \/ StartClosing => Sound!Close
  BY <1>1, <1>4 DEF CloseNull, StartClosing, Sound!Close
<1>8. Relieve => Sound!Relieve
  BY <1>1 DEF Relieve, Sound!Relieve
<1> QED
  BY <1>2, <1>3, <1>5, <1>6, <1>7, <1>8

(* A write fills the disk or leaves it as it is.                           *)
LEMMA DiskFills ==
  ASSUME NEW p, NEW s, psf_fwrite(p, s)
  PROVE  /\ disk = "fits" => disk' \in {"fits", "full"}
         /\ disk # "fits" => disk' = disk
  BY DEF psf_fwrite

(* A full disk takes nothing, so the file stays as it is.                  *)
LEMMA FullDiskKeeps ==
  ASSUME LibInv, disk = "full", NEW s \in Seq(Bytes), NEW n \in Nat, Written(Len(bytes), s, n)
  PROVE  bytes' = bytes
<1>1. room = 0 /\ bytes \in Seq(Bytes) /\ Len(bytes) \in Nat /\ Len(s) \in Nat
  BY DEF LibInv, LibType, CallInv
<1>2. n = 0
  BY <1>1 DEF Written, Sent
<1>3. /\ bytes' \in Seq(Bytes) /\ Len(bytes') = Len(bytes)
      /\ \A k \in 1 .. Len(bytes') : bytes'[k] = bytes[k]
  BY <1>1, <1>2 DEF Written
<1> QED
  BY <1>1, <1>3

(* A write in a call or on closing.                                        *)
InCall ==
  /\ handle = "closing" \/ (handle = "open" /\ asked > 0)
  /\ UNCHANGED <<format, handle, handed, asked, good>>
  /\ disk = "fits" => disk' \in {"fits", "full"}
  /\ disk # "fits" => disk' = disk

(* Three ways to show that a step is one of the promise's.                 *)
LEMMA StoreTo ==
  ASSUME InCall, disk = "fits", NEW m \in Len(InFile) .. handed, InFile' = Positions(0, m)
  PROVE  Sound!Store
<1>1. \E k \in Len(InFile) .. handed : InFile' = Positions(0, k)
  OBVIOUS
<1>9. \A x, y : Sound!Positions(x, y) = Positions(x, y)
  BY DEF Sound!Positions, Positions
<1> QED
  BY <1>1, <1>9, Zenon DEF InCall, Sound!Store

LEMMA StoreAfter ==
  ASSUME InCall, disk = "relieved", format # "flac", NEW m \in 0 .. handed, NEW k \in m .. handed,
         \A j \in DOMAIN InFile : InFile[j] < m, InFile' = InFile \o Positions(m, k)
  PROVE  Sound!StoreAnyhow
<1>1. \E kept \in {<<>>, InFile} : (\A j \in DOMAIN kept : kept[j] < m) /\ InFile' = kept \o Positions(m, k)
  OBVIOUS
<1>9. \A x, y : Sound!Positions(x, y) = Positions(x, y)
  BY DEF Sound!Positions, Positions
<1> QED
  BY <1>1, <1>9, Zenon DEF InCall, Sound!StoreAnyhow

LEMMA StoreAfresh ==
  ASSUME InCall, disk = "relieved", format # "flac", handed \in Nat, NEW m \in 0 .. handed, NEW k \in m .. handed,
         InFile' = Positions(m, k)
  PROVE  Sound!StoreAnyhow
<1>1. Positions(m, k) \in Seq(Nat)
  BY PositionsType
<1>2. <<>> \o Positions(m, k) = Positions(m, k)
  BY <1>1
<1>3. \A j \in DOMAIN <<>> : <<>>[j] < m
  OBVIOUS
<1>4. \E kept \in {<<>>, InFile} : (\A j \in DOMAIN kept : kept[j] < m) /\ InFile' = kept \o Positions(m, k)
  BY <1>2, <1>3, Zenon
<1>9. \A x, y : Sound!Positions(x, y) = Positions(x, y)
  BY DEF Sound!Positions, Positions
<1> QED
  BY <1>4, <1>9, Zenon DEF InCall, Sound!StoreAnyhow

(* The four steps that write to a WAV file.                                *)
LEMMA OpenWavIsOpen ==
  ASSUME LibInv, OpenWav
  PROVE  Sound!Open
<1>1. /\ handle = "unopened" /\ format = "wav" /\ psf_fwrite(0, Header(PlainHeader, 0))
      /\ handle' = IF pos' = PlainHeader THEN "open" ELSE "null"
      /\ UNCHANGED <<format, handed, asked, good, have_written>>
  BY DEF OpenWav, client
<1>2. bytes = <<>> /\ disk = "fits" /\ ~have_written /\ bytes \in Seq(Bytes) /\ Len(bytes) = 0
  BY <1>1 DEF LibInv, CallInv, LibType
<1>3. PICK a \in 0 .. Len(bytes) : \E o \in 0 .. a : \E c \in Nat :
             Wav(a, o, c) /\ InFile = Positions(0, (Len(bytes) - a) \div 2)
  BY <1>1, <1>2, WavInFile
<1>4. PICK o \in 0 .. a : \E c \in Nat : Wav(a, o, c)
  BY <1>3
<1>5. PICK c \in Nat : Wav(a, o, c)
  BY <1>4
<1>6. InFile = Positions(0, 0)
  <2>1. (Len(bytes) - a) \div 2 = 0
    BY <1>2
  <2> QED
    BY <1>3, <2>1
<1>7. InFile' = Positions(0, 0)
  <2>1. PICK x \in 0 .. Len(bytes') : Wav(x, x, 0)'
    BY <1>5, OpenWavKept
  <2>2. WavShape(bytes', x, x, 0) /\ x = Len(bytes')
    BY <1>1, <1>2, <2>1 DEF Wav
  <2>3. Len(bytes') \in Nat
    BY TypeKept DEF LibNext, Program, LibType
  <2>4. Heard("wav", bytes') = Positions(0, (Len(bytes') - x) \div 2)
    <3>1. x \in 0 .. x
      BY <2>3
    <3> QED
      BY <2>2, <2>3, <3>1, WavHolds
  <2>5. (Len(bytes') - x) \div 2 = 0
    BY <2>2, <2>3
  <2> QED
    BY <1>1, <2>4, <2>5 DEF InFile
<1>8. disk' = disk \/ (handle' = "null" /\ disk' = "full")
  <2>1. PICK n \in Nat : Written(0, Header(PlainHeader, 0), n)
    BY StepWrites
  <2>2. /\ n <= PlainHeader /\ pos' = n
        /\ n = PlainHeader => disk' = disk
    <3>1. PICK m \in Nat, x \in Nat : m = PlainHeader /\ x = 0
      BY HeaderAssumption
    <3>2. Written(0, Header(m, x), n)
      BY <2>1, <3>1
    <3>3. /\ n <= m /\ pos' = n /\ Len(bytes') = (IF n > Len(bytes) THEN n ELSE Len(bytes))
          /\ \A k \in 1 .. n : bytes'[k] = <<"h", x>>
          /\ \A k \in n + 1 .. Len(bytes') : bytes'[k] = bytes[k] /\ k <= Len(bytes)
          /\ n < m => Len(bytes') = n /\ disk' # "fits"
          /\ n = m => disk' = disk
          /\ disk # "fits" => disk' = disk
      BY <1>2, <3>2, HeaderWritten
    <3> QED
      BY <3>1, <3>3
  <2>3. disk' \in {"fits", "full"}
    BY <1>1, <1>2, DiskFills
  <2> QED
    BY <1>1, <1>2, <2>2, <2>3
<1> QED
  BY <1>1, <1>6, <1>7, <1>8 DEF Sound!Open

LEMMA WriteWavHeaderIsStore ==
  ASSUME LibInv, WriteWavHeader
  PROVE  Sound!Store
<1>1. /\ at = "header" /\ format = "wav" /\ psf_fwrite(0, Header(HeaderSize, 0))
      /\ UNCHANGED <<format, handle, handed, asked, good>> /\ at' = "samples"
  BY DEF WriteWavHeader, client
<1>2. /\ handle = "open" /\ ~have_written /\ disk = "fits" /\ asked > 0
      /\ handed = asked /\ asked \in Nat /\ Len(bytes) \in Nat
  BY <1>1 DEF LibInv, CallInv, LibType, WavInv
<1>3. PICK a \in 0 .. Len(bytes) : \E o \in 0 .. a : \E c \in Nat :
             Wav(a, o, c) /\ InFile = Positions(0, (Len(bytes) - a) \div 2)
  BY <1>1, <1>2, WavInFile
<1>4. PICK o \in 0 .. a : \E c \in Nat : Wav(a, o, c)
  BY <1>3
<1>5. PICK c \in Nat : Wav(a, o, c)
  BY <1>4
<1>6. InFile = <<>>
  <2>1. a = Len(bytes)
    BY <1>2, <1>5 DEF Wav
  <2>2. (Len(bytes) - a) \div 2 = 0
    BY <1>2, <2>1
  <2> QED
    BY <1>3, <2>2, NoPositions
<1>7. InFile' = Positions(0, 0)
  <2>1. PICK x \in 0 .. Len(bytes') : Wav(x, x, 0)'
    BY <1>5, WriteWavHeaderKept
  <2>2. Len(bytes') \in Nat
    BY TypeKept DEF LibNext, Library, LibType
  <2>3. WavShape(bytes', x, x, 0) /\ Len(bytes') = x + 2 * (handed' - asked')
    BY <1>1, <2>1 DEF Wav, InStep
  <2>4. (Len(bytes') - x) \div 2 = 0
    BY <1>1, <1>2, <2>2, <2>3
  <2>5. x \in 0 .. x
    BY <2>2
  <2>6. Heard("wav", bytes') = Positions(0, (Len(bytes') - x) \div 2)
    BY <2>2, <2>3, <2>5, WavHolds
  <2> QED
    BY <1>1, <2>4, <2>6 DEF InFile
<1>8. disk' \in {"fits", "full"}
  BY <1>1, <1>2, DiskFills
<1>9. 0 \in Len(InFile) .. handed
  BY <1>2, <1>6
<1> QED
  BY <1>1, <1>2, <1>7, <1>8, <1>9, StoreTo DEF InCall

LEMMA WriteWavSamplesSteps ==
  ASSUME LibInv, WriteWavSamples
  PROVE  Sound!Store \/ Sound!StoreAnyhow \/ UNCHANGED Sound!vars
<1>1. /\ at = "samples" /\ format = "wav"
      /\ UNCHANGED <<format, handle, handed, asked, good>> /\ at' = "return"
      /\ psf_fwrite(pos, Raw(handed - asked, handed))
  BY DEF WriteWavSamples, client
<1>2. /\ handle = "open" /\ have_written /\ asked > 0 /\ disk \in {"fits", "full", "relieved"}
      /\ handed \in Nat /\ asked \in Nat /\ asked <= handed /\ Len(bytes) \in Nat
  BY <1>1 DEF LibInv, CallInv, LibType, WavInv
<1>3. Len(bytes') \in Nat
  BY TypeKept DEF LibNext, Library, LibType
<1>4. /\ disk = "fits" => disk' \in {"fits", "full"}
      /\ disk # "fits" => disk' = disk
  BY <1>1, DiskFills
<1>5. CASE disk = "fits"
  <2>1. PICK a \in 0 .. Len(bytes) : \E o \in 0 .. a : \E c \in Nat :
               Wav(a, o, c) /\ InFile = Positions(0, (Len(bytes) - a) \div 2)
    BY <1>1, <1>5, WavInFile
  <2>2. PICK o \in 0 .. a : \E c \in Nat : Wav(a, o, c)
    BY <2>1
  <2>3. PICK c \in Nat : Wav(a, o, c)
    BY <2>2
  <2>4. Wav(a, o, c)' /\ Len(bytes') >= Len(bytes)
    BY <2>3, WriteWavSamplesKept
  <2>5. /\ a \in 0 .. Len(bytes') /\ o = a
        /\ Len(bytes) = a + 2 * (handed - asked)
    <3>1. /\ Len(bytes) = o + 2 * (handed - asked) /\ Len(bytes) = a + 2 * (handed - asked)
      BY <1>1, <1>2, <1>5, <2>3 DEF Wav, InStep
    <3>2. a \in Nat /\ o \in Nat /\ a <= Len(bytes)
      BY <1>2
    <3> QED
      BY <1>2, <1>3, <2>4, <3>1, <3>2
  <2>6. WavShape(bytes', a, o, c) /\ (a = Len(bytes') \/ Len(bytes') <= o + 2 * handed)
    BY <1>1, <2>4 DEF Wav
  <2>7. Heard("wav", bytes') = Positions(0, (Len(bytes') - a) \div 2)
    BY <1>3, <2>5, <2>6, WavHolds
  <2>8. PICK m \in Nat : m = (Len(bytes') - a) \div 2
    BY <1>3, <2>5
  <2>9. (Len(bytes) - a) \div 2 = handed - asked /\ handed - asked \in Nat
    BY <1>2, <2>5
  <2>10. handed - asked <= m /\ m <= handed
    BY <1>2, <1>3, <2>4, <2>5, <2>6, <2>8
  <2>11. Len(InFile) = handed - asked
    <3>1. PICK l \in Nat : l = handed - asked
      BY <2>9
    <3>3. 0 \in Nat /\ 0 <= l
      BY <3>1
    <3>2. Len(Positions(0, l)) = l - 0
      BY <3>1, <3>3, PositionsType
    <3> QED
      BY <2>1, <2>9, <3>1, <3>2, <3>3
  <2>12. m \in Len(InFile) .. handed /\ InFile' = Positions(0, m)
    BY <1>1, <1>2, <2>7, <2>8, <2>9, <2>10, <2>11 DEF InFile
  <2> QED
    BY <1>1, <1>2, <1>4, <1>5, <2>8, <2>12, StoreTo DEF InCall
<1>6. CASE disk = "full"
  <2>1. PICK n \in Nat : Written(Len(bytes), Raw(handed - asked, handed), n)
    BY StepWrites
  <2>2. Raw(handed - asked, handed) \in Seq(Bytes)
    <3>1. PICK h \in Nat : h = handed - asked
      BY <1>2
    <3>2. h <= handed
      BY <1>2, <3>1
    <3>3. Raw(h, handed) \in Seq(Bytes)
      BY <1>2, <3>1, <3>2, RawIsBytes
    <3> QED
      BY <3>1, <3>3
  <2>3. bytes' = bytes
    BY <1>6, <2>1, <2>2, FullDiskKeeps
  <2> QED
    BY <1>1, <1>4, <1>6, <2>3 DEF Sound!vars, InFile
<1>7. CASE disk = "relieved"
  <2>1. PICK a \in 0 .. Len(bytes) : \E o \in 0 .. a : \E c \in Nat : Wav(a, o, c)
    BY <1>1 DEF LibInv, WavInv
  <2>2. PICK o \in 0 .. a : \E c \in Nat : Wav(a, o, c)
    BY <2>1
  <2>3. PICK c \in Nat : Wav(a, o, c)
    BY <2>2
  <2>4. Wav(a, o, c)' /\ Len(bytes') >= Len(bytes)
    BY <2>3, WriteWavSamplesKept
  <2>5. a \in 0 .. Len(bytes')
    BY <1>2, <1>3, <2>4
  <2>6. WavShape(bytes', a, o, c) /\ (a = Len(bytes') \/ Len(bytes') <= o + 2 * handed)
    BY <1>1, <2>4 DEF Wav
  <2>7. PICK m \in 0 .. handed : \E k \in m .. handed : Heard("wav", bytes') = Positions(m, k)
    BY <1>2, <1>3, <2>5, <2>6, WavHolds
  <2>8. PICK k \in m .. handed : InFile' = Positions(m, k)
    BY <1>1, <2>7 DEF InFile
  <2> QED
    BY <1>1, <1>2, <1>4, <1>7, <2>7, <2>8, StoreAfresh DEF InCall
<1> QED
  BY <1>2, <1>5, <1>6, <1>7

(* The two steps of the codecs that write.                                 *)
LEMMA WriteFlacHeaderIsStore ==
  ASSUME LibInv, WriteFlacHeader
  PROVE  Sound!Store
<1>1. /\ at = "header" /\ format = "flac" /\ psf_fwrite(pos, Header(PlainHeader, 0))
      /\ UNCHANGED <<format, handle, handed, asked, good>>
  BY DEF WriteFlacHeader, client
<1>2. /\ handle = "open" /\ asked > 0 /\ disk = "fits" /\ paged <= handed
      /\ paged \in Nat /\ handed \in Nat /\ queue = <<>>
  BY <1>1 DEF LibInv, LibType, CallInv, FlacInv, CodecInv
<1>3. PICK f \in 0 .. paged : Codec(f)
  BY <1>1 DEF LibInv, CodecInv
<1>4. f \in Nat /\ 0 \in Nat /\ 0 <= f /\ f <= handed
  BY <1>2, <1>3
<1>5. InFile = Positions(0, f) /\ InFile' = InFile
  BY <1>1, <1>2, <1>3, FlacHeaderKept DEF Codec
<1>6. Len(Positions(0, f)) = f - 0
  BY <1>4, PositionsType
<1>7. f \in Len(InFile) .. handed
  BY <1>2, <1>4, <1>5, <1>6
<1>8. InCall
  BY <1>1, <1>2, DiskFills DEF InCall
<1> QED
  BY <1>2, <1>5, <1>7, <1>8, StoreTo

LEMMA WritePageIsStore ==
  ASSUME LibInv, WritePage
  PROVE  Sound!Store \/ Sound!StoreAnyhow \/ UNCHANGED Sound!vars
<1>1. /\ format' = format /\ paged' = paged
      /\ queue # <<>> /\ at \in {"samples", "finish"} /\ format \in Formats \ {"wav"}
      /\ bytes \in Seq(Bytes) /\ paged \in Nat /\ pos = Len(bytes)
      /\ \E n \in Nat : Written(Len(bytes), Head(queue), n)
  BY WritePageSteps
<1>2. psf_fwrite(pos, Head(queue)) /\ UNCHANGED <<format, handle, handed, asked, good>>
  BY DEF WritePage, client
<1>3. /\ handle \in {"open", "closing", "crashed"}
      /\ handle \in {"open", "crashed"} => asked > 0
      /\ disk \in {"fits", "full", "relieved"} /\ handed \in Nat /\ paged <= handed
  BY <1>1 DEF LibInv, LibType, CallInv
<1>4. handle # "crashed" /\ (disk = "relieved" => format # "flac")
  <2>1. format = "flac" => encoder = "ready"
    BY <1>1 DEF LibInv, FlacInv
  <2> QED
    BY <2>1 DEF LibInv, CallInv, FlacInv
<1>5. InCall
  BY <1>2, <1>3, <1>4, DiskFills DEF InCall
<1>6. PICK f \in 0 .. paged : Codec(f)
  BY <1>1 DEF LibInv, CodecInv
<1>7. f \in Nat /\ 0 \in Nat /\ f <= handed /\ f \in 0 .. handed /\ 0 <= f
  BY <1>1, <1>3, <1>6
<1>8. InFile' = InFile \/ (f < paged /\ InFile' = AndThen(InFile, f, paged))
  <2>1. PICK g \in f .. paged : PageWritten(f, g)
    BY <1>6, WritePageKept
  <2> QED
    BY <2>1 DEF PageWritten
<1>9. InFile \in Seq(Nat) /\ Increasing(InFile) /\ Below(InFile, f)
  <2>1. InFile \in Seq(Nat)
    BY <1>1, HeardIsSamples DEF InFile
  <2> QED
    BY <1>6, <2>1 DEF Codec, Increasing, Below
<1>10. CASE disk = "fits"
  <2>1. InFile = Positions(0, f)
    BY <1>6, <1>10 DEF Codec
  <2>2. Len(Positions(0, f)) = f - 0
    BY <1>7, PositionsType
  <2>3. Len(InFile) = f
    BY <1>7, <2>1, <2>2
  <2>4. CASE InFile' = InFile
    <3>1. f \in Len(InFile) .. handed /\ InFile' = Positions(0, f)
      BY <1>3, <1>7, <2>1, <2>3, <2>4
    <3> QED
      BY <1>5, <1>10, <3>1, StoreTo
  <2>5. CASE f < paged /\ InFile' = AndThen(InFile, f, paged)
    <3>1. PICK x \in Seq(Nat) : x = InFile
      BY <1>9
    <3>2. PICK p \in Nat : p = paged
      BY <1>1
    <3>3. /\ Increasing(AndThen(x, f, p)) /\ Below(AndThen(x, f, p), p)
          /\ x = Positions(0, f) => AndThen(x, f, p) = Positions(0, p)
          /\ Len(AndThen(x, f, p)) = Len(x) + (p - f)
      BY <1>7, <1>9, <2>5, <3>1, <3>2, PageJoins
    <3>4. InFile' = Positions(0, p)
      BY <2>1, <2>5, <3>1, <3>2, <3>3
    <3>5. p \in Len(InFile) .. handed
      BY <1>3, <1>7, <2>3, <2>5, <3>2
    <3> QED
      BY <1>5, <1>10, <3>4, <3>5, StoreTo
  <2> QED
    BY <1>8, <2>4, <2>5
<1>11. CASE disk = "full"
  <2>1. PICK n \in Nat : Written(Len(bytes), Head(queue), n)
    BY <1>1
  <2>2. Head(queue) \in Seq(Bytes)
    BY <1>1 DEF LibInv, LibType
  <2>3. bytes' = bytes
    BY <1>11, <2>1, <2>2, FullDiskKeeps
  <2> QED
    BY <1>5, <1>11, <2>3 DEF Sound!vars, InFile, InCall
<1>12. CASE disk = "relieved"
  <2>1. CASE InFile' = InFile
    BY <1>5, <1>12, <2>1 DEF Sound!vars, InCall
  <2>2. CASE f < paged /\ InFile' = AndThen(InFile, f, paged)
    <3>1. f \in 0 .. handed /\ paged \in f .. handed
      BY <1>1, <1>3, <1>7, <2>2
    <3>2. \A j \in DOMAIN InFile : InFile[j] < f
      BY <1>9 DEF Below
    <3>3. InFile' = InFile \o Positions(f, paged)
      BY <2>2, Zenon DEF AndThen
    <3>4. disk = "relieved" /\ format # "flac"
      BY <1>4, <1>12
    <3> QED
      BY <1>5, <3>1, <3>2, <3>3, <3>4, StoreAfter
  <2> QED
    BY <1>8, <2>1, <2>2
<1> QED
  BY <1>3, <1>10, <1>11, <1>12

(* The header is written again over its place: the samples stay.           *)
LEMMA HeaderRewritten ==
  ASSUME LibInv, CloseWav, (have_written /\ disk = "fits") \/ disk = "full"
  PROVE  InFile' = InFile /\ disk' = disk
<1>1. LibType /\ CallInv /\ format = "wav" /\ format' = format /\ psf_fwrite(0, Header(HeaderSize, write_current))
  BY DEF LibInv, CloseWav, client
<1>2. PICK n \in Nat : Written(0, Header(HeaderSize, write_current), n)
  BY StepWrites
<1>3. HeaderSize \in Nat /\ bytes \in Seq(Bytes) /\ Len(bytes) \in Nat /\ write_current \in Nat
  BY HeaderAssumption, <1>1 DEF LibType, HeaderSize
<1>4. /\ n <= HeaderSize /\ Len(bytes') = (IF n > Len(bytes) THEN n ELSE Len(bytes))
      /\ \A k \in 1 .. n : bytes'[k] = <<"h", write_current>>
      /\ \A k \in n + 1 .. Len(bytes') : bytes'[k] = bytes[k] /\ k <= Len(bytes)
      /\ n < HeaderSize => Len(bytes') = n /\ disk' # "fits"
      /\ n = HeaderSize => disk' = disk
      /\ disk # "fits" => disk' = disk
  <2>1. PICK m \in Nat, x \in Nat : m = HeaderSize /\ x = write_current
    BY <1>3
  <2>2. Written(0, Header(m, x), n)
    BY <1>2, <2>1
  <2> QED
    BY <1>3, <2>1, <2>2, HeaderWritten
<1>5. PICK a \in 0 .. Len(bytes) : \E o \in 0 .. a : \E c \in Nat :
             Wav(a, o, c) /\ InFile = Positions(0, (Len(bytes) - a) \div 2)
  BY <1>1, WavInFile
<1>6. PICK o \in 0 .. a : \E c \in Nat : Wav(a, o, c)
  BY <1>5
<1>7. PICK c \in Nat : Wav(a, o, c)
  BY <1>6
<1>8. /\ WavShape(bytes, a, o, c) /\ a <= HeaderSize
      /\ a < Len(bytes) => a = HeaderSize /\ o = a
      /\ have_written /\ disk = "fits" => a = HeaderSize
      /\ a \in Nat /\ o \in Nat /\ a <= Len(bytes)
  BY <1>3, <1>7 DEF Wav
<1>9. a <= n /\ Len(bytes') = Len(bytes) /\ disk' = disk
  <2>1. CASE have_written /\ disk = "fits"
    BY <1>2, <1>3, <1>4, <1>8, <2>1
  <2>2. CASE disk = "full"
    <3>1. Len(Header(HeaderSize, write_current)) = HeaderSize /\ room = 0
      <4>1. PICK m \in Nat, x \in Nat : m = HeaderSize /\ x = write_current
        BY <1>3
      <4>2. Len(Header(m, x)) = m
        BY HeaderIsBytes
      <4> QED
        BY <1>1, <2>2, <4>1, <4>2 DEF CallInv
    <3>2. n = IF HeaderSize <= Len(bytes) THEN HeaderSize ELSE Len(bytes)
      <4>1. n = Sent(0, Header(HeaderSize, write_current))
        BY <1>2 DEF Written
      <4> QED
        BY <1>3, <3>1, <4>1 DEF Sent
    <3> QED
      BY <1>2, <1>3, <1>4, <1>8, <2>2, <3>2
  <2> QED
    BY <2>1, <2>2
<1>10. WavShape(bytes', a, o, write_current)
  <2>1. \A k \in 1 .. a : bytes'[k] = <<"h", write_current>>
    BY <1>2, <1>4, <1>8, <1>9
  <2>2. \A k \in a + 1 .. Len(bytes') : bytes'[k] = <<"s", (k - 1 - o) \div 2>>
    <3> SUFFICES ASSUME NEW k \in a + 1 .. Len(bytes')
                 PROVE  bytes'[k] = <<"s", (k - 1 - o) \div 2>>
      OBVIOUS
    <3>1. k \in n + 1 .. Len(bytes') /\ k \in a + 1 .. Len(bytes)
      BY <1>2, <1>3, <1>4, <1>8, <1>9
    <3>2. bytes'[k] = bytes[k]
      BY <1>4, <3>1
    <3> QED
      BY <1>8, <3>1, <3>2 DEF WavShape
  <2> QED
    BY <2>1, <2>2 DEF WavShape
<1>11. o = a \/ a = Len(bytes')
  BY <1>3, <1>8, <1>9
<1>12. Heard("wav", bytes') = Positions(0, (Len(bytes') - a) \div 2)
  <2>1. Len(bytes') \in Nat /\ a \in 0 .. Len(bytes') /\ o \in 0 .. a
    BY <1>3, <1>8, <1>9
  <2> QED
    BY <1>10, <1>11, <2>1, WavHolds
<1> QED
  BY <1>1, <1>5, <1>9, <1>12 DEF InFile

LEMMA CloseWavSteps ==
  ASSUME LibInv, CloseWav
  PROVE  Sound!Store \/ Sound!StoreAnyhow \/ UNCHANGED Sound!vars
<1>1. /\ at = "close" /\ format = "wav" /\ psf_fwrite(0, Header(HeaderSize, write_current))
      /\ UNCHANGED <<format, handle, handed, asked, good>>
  BY DEF CloseWav, client
<1>2. /\ handle = "closing" /\ disk \in {"fits", "full", "relieved"}
      /\ handed \in Nat /\ Len(bytes) \in Nat /\ (~have_written => handed = 0)
  BY <1>1 DEF LibInv, CallInv, LibType
<1>3. InCall
  BY <1>1, <1>2, DiskFills DEF InCall
<1>4. PICK a \in 0 .. Len(bytes) : \E o \in 0 .. a : \E c \in Nat : Wav(a, o, c)
  BY <1>1 DEF LibInv, WavInv
<1>5. PICK o \in 0 .. a : \E c \in Nat : Wav(a, o, c)
  BY <1>4
<1>6. PICK c \in Nat : Wav(a, o, c)
  BY <1>5
<1>7. \E m \in 0 .. handed : \E k \in m .. handed : InFile' = Positions(m, k)
  <2>1. PICK x \in 0 .. Len(bytes') : \E y \in 0 .. x : Wav(x, y, write_current)'
    BY <1>6, CloseWavKept
  <2>2. PICK y \in 0 .. x : Wav(x, y, write_current)'
    BY <2>1
  <2>3. Len(bytes') \in Nat
    BY TypeKept DEF LibNext, Library, LibType
  <2>4. WavShape(bytes', x, y, write_current') /\ (x = Len(bytes') \/ Len(bytes') <= y + 2 * handed)
    BY <1>1, <2>2 DEF Wav
  <2>5. \E m \in 0 .. handed : \E k \in m .. handed : Heard("wav", bytes') = Positions(m, k)
    BY <1>2, <2>3, <2>4, WavHolds
  <2> QED
    BY <1>1, <2>5 DEF InFile
<1>8. CASE (have_written /\ disk = "fits") \/ disk = "full"
  BY <1>1, <1>8, HeaderRewritten DEF Sound!vars
<1>9. CASE ~have_written /\ disk = "fits"
  <2>1. PICK b \in 0 .. Len(bytes) : \E q \in 0 .. b : \E d \in Nat :
               Wav(b, q, d) /\ InFile = Positions(0, (Len(bytes) - b) \div 2)
    BY <1>1, <1>9, WavInFile
  <2>2. b = Len(bytes)
    BY <1>9, <2>1 DEF Wav
  <2>3. (Len(bytes) - b) \div 2 = 0
    BY <1>2, <2>2
  <2>4. InFile = <<>>
    BY <2>1, <2>3, NoPositions
  <2>5. handed = 0 /\ 0 \in Len(InFile) .. handed
    BY <1>2, <1>9, <2>4
  <2>6. InFile' = Positions(0, 0)
    BY <1>7, <2>5
  <2> QED
    BY <1>3, <1>9, <2>5, <2>6, StoreTo
<1>10. CASE disk = "relieved"
  <2>1. format # "flac"
    BY <1>1
  <2> QED
    BY <1>2, <1>3, <1>7, <1>10, <2>1, StoreAfresh
<1> QED
  BY <1>2, <1>8, <1>9, <1>10

LEMMA StartIsSound == LibInit => Sound!Init
<1> SUFFICES ASSUME LibInit PROVE Sound!Init
  OBVIOUS
<1>1. bytes = <<>> /\ Len(bytes) = 0 /\ Len(bytes) \in Nat /\ LibInv
  BY LibInvStarts DEF LibInit
<1>2. InFile = <<>>
  <2>1. CASE format # "wav"
    <3>1. SamplesAt(HeardOnPages(bytes), bytes) = <<>>
      <4>1. \A n \in 1 .. Len(bytes) : n \notin HeardOnPages(bytes)
        BY <1>1
      <4> QED
        BY <1>1, <4>1, NoneHeard
    <3> QED
      BY <2>1, <3>1 DEF InFile, Heard
  <2>2. CASE format = "wav"
    <3>1. disk # "relieved"
      BY DEF LibInit
    <3>2. PICK a \in 0 .. Len(bytes) : InFile = Positions(0, (Len(bytes) - a) \div 2)
      BY <1>1, <2>2, <3>1, WavInFile
    <3>3. (Len(bytes) - a) \div 2 = 0
      BY <1>1
    <3> QED
      BY <3>2, <3>3, NoPositions
  <2> QED
    BY <2>1, <2>2
<1> QED
  BY <1>2 DEF LibInit, Sound!Init, Sound!Formats, Formats

LEMMA StepIsSound ==
  ASSUME LibInv, [LibNext]_lib_vars
  PROVE  [Sound!Next]_Sound!vars
<1> USE DEF Sound!Next, Sound!Inside
<1>1. CASE UNCHANGED lib_vars
  BY <1>1 DEF lib_vars, client, storage, Sound!vars, InFile
<1>2. CASE SetString \/ WriteOggHeader \/ CutPage \/ Encoded \/ FinishEncoding \/ FinishNothing
  BY <1>2, QuietSteps
<1>3. CASE OpenFails \/ OpenCodec \/ CloseNull \/ StartClosing \/ Relieve
  BY <1>3, QuietSteps
<1>4. CASE RefusePiece \/ TakePiece
  BY <1>4, QuietSteps
<1>5. CASE EncodeIntoNull
  BY <1>5, QuietSteps
<1>6. CASE OpenWav
  BY <1>6, OpenWavIsOpen
<1>7. CASE WriteWavHeader
  BY <1>7, WriteWavHeaderIsStore
<1>8. CASE WriteFlacHeader
  BY <1>8, WriteFlacHeaderIsStore
<1>9. CASE WriteWavSamples
  BY <1>9, WriteWavSamplesSteps
<1>10. CASE WritePage
  BY <1>10, WritePageIsStore
<1>11. CASE CloseWav
  BY <1>11, CloseWavSteps
<1>12. CASE Return
  BY <1>12, ReturnIsReturn
<1>13. CASE psf_fclose
  BY <1>13, FcloseIsClosed
<1> QED
  BY <1>1, <1>2, <1>3, <1>4, <1>5, <1>6, <1>7, <1>8, <1>9, <1>10, <1>11, <1>12, <1>13 DEF LibNext, Library, Program

(* libsndfile from sf_open to sf_close, down to the bytes that psf_fwrite  *)
(* gets on the disk, implements what Audio::SaveFile relies on             *)
(* (SoundFile): nothing is lost or out of place while the disk takes what  *)
(* is written, a WAV or FLAC call counts less when something was refused,  *)
(* and all is there after closing.                                         *)
THEOREM LibraryKeepsPromise == LibSpec => Promise
<1>1. LibSpec => []LibInv
  BY LibInvariant
<1>2. LibInv /\ [LibNext]_lib_vars => [Sound!Next]_Sound!vars
  BY StepIsSound
<1> QED
  BY <1>1, <1>2, StartIsSound, PTL DEF LibSpec, Promise, Sound!Spec
=============================================================================
