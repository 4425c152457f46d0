---------------------------- MODULE OptionsProofs ----------------------------
(***************************************************************************)
(* What the options do, for every command line, chart and list: how they   *)
(* are read and become the output's name (module Options), and which       *)
(* position each frame comes from with -rate (module Resample).            *)
(***************************************************************************)
EXTENDS Options, Resample, NatFacts, SequenceTheorems, TLAPS

(* A set of numbers up to N that is not empty has a greatest one.          *)
LEMMA GreatestBelow ==
  ASSUME NEW N \in Nat, NEW I \in SUBSET (1 .. N), I # {}
  PROVE  Max(I) \in I /\ \A k \in I : k <= Max(I)
<1> DEFINE T == {N - k : k \in I}
<1>1. T \subseteq Nat /\ T # {}
  OBVIOUS
<1>2. PICK x \in T : \A y \in T : x <= y
  BY <1>1, LeastNatural
<1>3. PICK g \in I : x = N - g
  BY <1>2
<1>4. \A k \in I : g >= k
  <2> SUFFICES ASSUME NEW k \in I PROVE g >= k
    OBVIOUS
  <2>1. x <= N - k
    BY <1>2
  <2>2. k \in Nat /\ g \in Nat
    OBVIOUS
  <2> HIDE DEF T
  <2> QED
    BY <1>3, <2>1, <2>2
<1>5. Max(I) = CHOOSE m \in I : \A k \in I : m >= k
  BY DEF Max
<1> HIDE DEF T
<1> QED
  BY <1>4, <1>5

LEMMA LastOfIs ==
  ASSUME NEW S, NEW s \in Seq(S), NEW W
  PROVE  /\ LastOf(s, W) \in 0 .. Len(s)
         /\ LastOf(s, W) > 0 => s[LastOf(s, W)] \in W
         /\ \A k \in 1 .. Len(s) : k > LastOf(s, W) => s[k] \notin W
<1> DEFINE I == {k \in 1 .. Len(s) : s[k] \in W}
<1>1. LastOf(s, W) = IF I # {} THEN Max(I) ELSE 0
  BY DEF LastOf, SelectLastInSeq
<1>2. Len(s) \in Nat /\ I \in SUBSET (1 .. Len(s))
  BY LenProperties
<1>3. I # {} => Max(I) \in I /\ \A k \in I : k <= Max(I)
  BY <1>2, GreatestBelow
<1>4. \A k \in 1 .. Len(s) : k \in I <=> s[k] \in W
  OBVIOUS
<1>5. \A k \in I : k \in 1 .. Len(s)
  OBVIOUS
<1> HIDE DEF I
<1>6. PICK m : m = LastOf(s, W)
  OBVIOUS
<1>7. CASE I = {}
  BY <1>1, <1>2, <1>4, <1>6, <1>7
<1>8. CASE I # {}
  <2>1. m \in I /\ \A k \in I : k <= m
    BY <1>1, <1>3, <1>6, <1>8
  <2>2. \A k \in 1 .. Len(s) : k > m => s[k] \notin W
    BY <1>2, <1>4, <2>1
  <2> QED
    BY <1>2, <1>4, <1>5, <1>6, <2>1, <2>2
<1> QED
  BY <1>7, <1>8

LEMMA LastOfUnique ==
  ASSUME NEW S, NEW s \in Seq(S), NEW W, NEW dot \in 0 .. Len(s),
         dot > 0 => s[dot] \in W, \A k \in 1 .. Len(s) : k > dot => s[k] \notin W
  PROVE  LastOf(s, W) = dot
<1>1. PICK m : m = LastOf(s, W)
  OBVIOUS
<1>2. /\ m \in 0 .. Len(s)
      /\ m > 0 => s[m] \in W
      /\ \A k \in 1 .. Len(s) : k > m => s[k] \notin W
  BY <1>1, LastOfIs
<1>3. Len(s) \in Nat
  BY LenProperties
<1> QED
  BY <1>1, <1>2, <1>3

-----------------------------------------------------------------------------
(* Paths are built from parts; what is known of them, position by position. *)

LEMMA PartIs ==
  ASSUME NEW S, NEW s \in Seq(S), NEW m \in 1 .. Len(s) + 1, NEW n \in -1 .. Len(s)
  PROVE  LET r == SubSeq(s, m, n)
         IN  /\ r \in Seq(S)
             /\ Len(r) = IF m <= n THEN n - m + 1 ELSE 0
             /\ \A k \in 1 .. Len(r) : r[k] = s[m + k - 1]
<1>1. Len(s) \in Nat /\ \A k \in 1 .. Len(s) : s[k] \in S
  BY LenProperties, ElementOfSeq
<1>2. \A k \in m .. n : s[k] \in S
  BY <1>1
<1>3. m \in Int /\ n \in Int
  BY <1>1
<1>4. /\ SubSeq(s, m, n) \in Seq(S)
      /\ Len(SubSeq(s, m, n)) = IF m <= n THEN n - m + 1 ELSE 0
      /\ \A k \in 1 .. n - m + 1 : SubSeq(s, m, n)[k] = s[m + k - 1]
  BY <1>2, <1>3, SubSeqProperties
<1> QED
  BY <1>3, <1>4

(* The beginning of a path, followed by something else.                    *)
LEMMA SplicedIs ==
  ASSUME NEW S, NEW s \in Seq(S), NEW e \in Seq(S), NEW n \in 0 .. Len(s),
         NEW r, r = SubSeq(s, 1, n) \o e
  PROVE  /\ r \in Seq(S)
         /\ Len(r) = n + Len(e)
         /\ \A k \in 1 .. n : r[k] = s[k]
         /\ \A k \in 1 .. Len(e) : r[n + k] = e[k]
<1>1. Len(s) \in Nat /\ Len(e) \in Nat
  BY LenProperties
<1>2. PICK a : a = SubSeq(s, 1, n)
  OBVIOUS
<1>3. n \in Nat /\ a \in Seq(S) /\ Len(a) = n /\ \A k \in 1 .. n : a[k] = s[k]
  BY <1>1, <1>2, PartIs
<1>4. /\ r \in Seq(S) /\ Len(r) = n + Len(e)
      /\ \A k \in 1 .. n + Len(e) : r[k] = IF k <= n THEN a[k] ELSE e[k - n]
  BY <1>2, <1>3, ConcatProperties
<1>5. \A k \in 1 .. n : k \in 1 .. n + Len(e) /\ k <= n
  BY <1>1, <1>3
<1>6. \A k \in 1 .. Len(e) : n + k \in 1 .. n + Len(e) /\ ~(n + k <= n) /\ (n + k) - n = k
  BY <1>1, <1>3
<1>7. \A k \in 1 .. n : r[k] = s[k]
  BY <1>3, <1>4, <1>5
<1>8. \A k \in 1 .. Len(e) : r[n + k] = e[k]
  BY <1>4, <1>6
<1> QED
  BY <1>4, <1>7, <1>8

LEMMA JoinedIs ==
  ASSUME NEW S, NEW a \in Seq(S), NEW e \in Seq(S)
  PROVE  /\ a \o e \in Seq(S)
         /\ Len(a \o e) = Len(a) + Len(e)
         /\ \A k \in 1 .. Len(a) : (a \o e)[k] = a[k]
         /\ \A k \in 1 .. Len(e) : (a \o e)[Len(a) + k] = e[k]
<1>1. Len(a) \in Nat /\ Len(e) \in Nat
  BY LenProperties
<1>2. /\ a \o e \in Seq(S) /\ Len(a \o e) = Len(a) + Len(e)
      /\ \A k \in 1 .. Len(a) + Len(e) : (a \o e)[k] = IF k <= Len(a) THEN a[k] ELSE e[k - Len(a)]
  BY ConcatProperties
<1>3. \A k \in 1 .. Len(a) : k \in 1 .. Len(a) + Len(e) /\ k <= Len(a)
  BY <1>1
<1>4. \A k \in 1 .. Len(e) : /\ Len(a) + k \in 1 .. Len(a) + Len(e)
                            /\ ~(Len(a) + k <= Len(a)) /\ (Len(a) + k) - Len(a) = k
  BY <1>1
<1> QED
  BY <1>2, <1>3, <1>4

(* The end of a path that is in the right format.                          *)
LEMMA EndIs ==
  ASSUME NEW S, NEW s \in Seq(S), NEW type
  PROVE  EndsWith(s, type) <=> Len(s) >= 2 /\ s[Len(s) - 1] = "." /\ s[Len(s)] = type
<1> DEFINE n == Len(s)
           e == SubSeq(s, n - 1, n)
<1>1. n \in Nat
  BY LenProperties
<1> SUFFICES ASSUME n >= 2
             PROVE  e = <<".", type>> <=> s[n - 1] = "." /\ s[n] = type
  BY DEF EndsWith
<1>2. /\ e \in Seq(S) /\ Len(e) = 2
      /\ \A k \in 1 .. 2 : e[k] = s[n - 1 + k - 1]
  BY <1>1, PartIs
<1>3. e[1] = s[n - 1] /\ e[2] = s[n]
  BY <1>1, <1>2
<1>4. e = <<e[1], e[2]>>
  <2>1. e[1] \in S /\ e[2] \in S
    BY <1>2, ElementOfSeq
  <2>2. PICK x \in S, y \in S : e[1] = x /\ e[2] = y
    BY <2>1
  <2>3. <<x, y>> \in Seq(S) /\ Len(<<x, y>>) = 2 /\ <<x, y>>[1] = x /\ <<x, y>>[2] = y
    OBVIOUS
  <2>4. \A k \in 1 .. 2 : k = 1 \/ k = 2
    OBVIOUS
  <2>5. \A k \in 1 .. 2 : e[k] = <<x, y>>[k]
    BY <2>2, <2>3, <2>4
  <2>6. e = <<x, y>>
    BY <1>2, <2>3, <2>5, SeqEqual
  <2> QED
    BY <2>2, <2>6
<1> QED
  BY <1>3, <1>4

(* A path that ends with a format, whatever is put before it.              *)
LEMMA EndsBehind ==
  ASSUME NEW S, NEW a \in Seq(S), NEW e \in Seq(S), NEW type, EndsWith(e, type)
  PROVE  EndsWith(a \o e, type)
<1>1. Len(a) \in Nat /\ Len(e) \in Nat
  BY LenProperties
<1>2. Len(e) >= 2 /\ e[Len(e) - 1] = "." /\ e[Len(e)] = type
  BY EndIs
<1>3. PICK r : r = a \o e
  OBVIOUS
<1>4. /\ r \in Seq(S) /\ Len(r) = Len(a) + Len(e)
      /\ \A k \in 1 .. Len(e) : r[Len(a) + k] = e[k]
  BY <1>3, JoinedIs
<1>5. PICK m, n : m = Len(e) - 1 /\ n = Len(e)
  OBVIOUS
<1>6. m \in 1 .. Len(e) /\ n \in 1 .. Len(e)
  BY <1>1, <1>2, <1>5
<1>7. r[Len(a) + m] = e[m] /\ r[Len(a) + n] = e[n]
  BY <1>4, <1>6
<1>8. Len(a) + m = Len(r) - 1 /\ Len(a) + n = Len(r) /\ Len(r) >= 2
  BY <1>1, <1>2, <1>4, <1>5
<1>9. e[m] = "." /\ e[n] = type
  BY <1>2, <1>5
<1>10. EndsWith(r, type)
  BY <1>4, <1>7, <1>8, <1>9, EndIs
<1> QED
  BY <1>3, <1>10

Types == {"ogg", "wav", "flac"}

LEMMA TypeEnds ==
  ASSUME NEW S, {"."} \cup Types \subseteq S, NEW type \in Types
  PROVE  <<".", type>> \in Seq(S) /\ Len(<<".", type>>) = 2 /\ EndsWith(<<".", type>>, type)
<1>1. <<".", type>> \in Seq(S) /\ Len(<<".", type>>) = 2
  OBVIOUS
<1>2. <<".", type>>[1] = "." /\ <<".", type>>[2] = type
  OBVIOUS
<1>3. PICK e : e = <<".", type>>
  OBVIOUS
<1>4. e \in Seq(S) /\ Len(e) = 2 /\ e[1] = "." /\ e[2] = type
  BY <1>1, <1>2, <1>3
<1>5. Len(e) - 1 = 1 /\ Len(e) >= 2
  BY <1>4
<1>6. e[Len(e) - 1] = "." /\ e[Len(e)] = type
  BY <1>4, <1>5
<1>7. EndsWith(e, type)
  BY <1>4, <1>5, <1>6, EndIs
<1> QED
  BY <1>1, <1>3, <1>7

LEMMA ExtensionIsType ==
  ASSUME NEW S, {"."} \cup Types \subseteq S, NEW s \in Seq(S), NEW type \in Types
  PROVE  /\ substitute_output_extension(s, type) \in Seq(S)
         /\ EndsWith(substitute_output_extension(s, type), type)
         /\ Len(substitute_output_extension(s, type)) > 0
<1>1. <<".", type>> \in Seq(S) /\ EndsWith(<<".", type>>, type)
  BY TypeEnds
<1>2. LastDot(s) \in 0 .. Len(s) /\ Len(s) \in Nat
  BY LastOfIs, LenProperties DEF LastDot
<1>3. LastDot(s) # 0 => SubSeq(s, 1, LastDot(s) - 1) \in Seq(S)
  BY <1>2, PartIs
<1>4. PICK a \in Seq(S) : substitute_output_extension(s, type) = a \o <<".", type>>
  BY <1>3 DEF substitute_output_extension, substitute_extension
<1>5. PICK r : r = a \o <<".", type>>
  OBVIOUS
<1>6. r \in Seq(S) /\ EndsWith(r, type)
  BY <1>1, <1>5, EndsBehind, JoinedIs
<1>7. Len(r) > 0
  BY <1>6, EndIs
<1> QED
  BY <1>4, <1>5, <1>6, <1>7

LEMMA DirectoryIsPath ==
  ASSUME NEW S, NEW s \in Seq(S)
  PROVE  get_filedir(s) \in Seq(S)
<1>1. LastSeparator(s) \in 0 .. Len(s) /\ Len(s) \in Nat
  BY LastOfIs, LenProperties DEF LastSeparator
<1>2. LastSeparator(s) # 0 => SubSeq(s, 1, LastSeparator(s) - 1) \in Seq(S)
  BY <1>1, PartIs
<1> QED
  BY <1>2 DEF get_filedir

(* A file name has no separators.                                          *)
LEMMA NameIsBare ==
  ASSUME NEW S, NEW s \in Seq(S)
  PROVE  LET r == get_filename(s)
         IN  r \in Seq(S) /\ \A k \in 1 .. Len(r) : r[k] \notin Separator
<1>1. PICK m : m = LastSeparator(s)
  OBVIOUS
<1>2. /\ m \in 0 .. Len(s) /\ Len(s) \in Nat
      /\ \A k \in 1 .. Len(s) : k > m => s[k] \notin Separator
  BY <1>1, LastOfIs, LenProperties DEF LastSeparator
<1>3. CASE m = 0
  <2>1. get_filename(s) = <<>>
    BY <1>1, <1>3 DEF get_filename
  <2> QED
    BY <2>1, EmptySeq
<1>4. CASE m # 0
  <2>1. PICK r : r = SubSeq(s, m + 1, Len(s))
    OBVIOUS
  <2>2. get_filename(s) = r
    BY <1>1, <1>4, <2>1 DEF get_filename
  <2>3. m + 1 \in 1 .. Len(s) + 1 /\ Len(s) \in -1 .. Len(s)
    BY <1>2
  <2>4. /\ r \in Seq(S)
        /\ Len(r) = IF m + 1 <= Len(s) THEN Len(s) - (m + 1) + 1 ELSE 0
        /\ \A k \in 1 .. Len(r) : r[k] = s[m + 1 + k - 1]
    BY <2>1, <2>3, PartIs
  <2>5. \A k \in 1 .. Len(r) : m + 1 + k - 1 \in 1 .. Len(s) /\ m + 1 + k - 1 > m
    BY <1>2, <2>4
  <2> QED
    BY <1>2, <2>2, <2>4, <2>5
<1> QED
  BY <1>3, <1>4

LEMMA SafeNameIs ==
  ASSUME NEW S, "_" \in S, NEW s \in Seq(S)
  PROVE  LET r == make_filename_safe(s)
         IN  r \in Seq(S) /\ \A k \in 1 .. Len(r) : r[k] # "/"
<1>1. Len(s) \in Nat /\ DOMAIN s = 1 .. Len(s) /\ \A k \in 1 .. Len(s) : s[k] \in S
  BY LenProperties, ElementOfSeq
<1>2. PICK r : r = make_filename_safe(s)
  OBVIOUS
<1>3. /\ r = [k \in 1 .. Len(s) |-> r[k]]
      /\ \A k \in 1 .. Len(s) :
           r[k] = IF s[k] \in {"/", "'", "\""} THEN "_" ELSE s[k]
  BY <1>1, <1>2 DEF make_filename_safe
<1>4. \A k \in 1 .. Len(s) : r[k] \in S /\ r[k] # "/"
  BY <1>1, <1>3
<1>5. r \in [1 .. Len(s) -> S]
  BY <1>3, <1>4, Zenon
<1>6. r \in Seq(S) /\ DOMAIN r = 1 .. Len(s)
  BY <1>1, <1>5, SeqDef
<1>7. 1 .. Len(r) = 1 .. Len(s)
  BY <1>6, LenProperties
<1> QED
  BY <1>2, <1>4, <1>6, <1>7

-----------------------------------------------------------------------------
(* The automatic name.                                                     *)

(* What substitute_filename makes of a path with a dot: its directory, the *)
(* name, and its end from the dot on.                                      *)
LEMMA RenamedIs ==
  ASSUME NEW S, "/" \in S, NEW s \in Seq(S), NEW name \in Seq(S), LastDot(s) > 0
  PROVE  /\ SubSeq(s, LastDot(s), Len(s)) \in Seq(S)
         /\ SubSeq(s, 1, LastSeparator(s) - 1) \o <<"/">> \in Seq(S)
         /\ SubSeq(s, 1, LastSeparator(s) - 1) \o <<"/">> \o name \in Seq(S)
         /\ substitute_filename(s, name) =
              SubSeq(s, 1, LastSeparator(s) - 1) \o <<"/">> \o name
                \o SubSeq(s, LastDot(s), Len(s))
<1>1. PICK dot, m : dot = LastDot(s) /\ m = LastSeparator(s)
  OBVIOUS
<1>2. dot \in 0 .. Len(s) /\ m \in 0 .. Len(s) /\ Len(s) \in Nat
  BY <1>1, LastOfIs, LenProperties DEF LastDot, LastSeparator
<1>3. dot \in 1 .. Len(s) + 1 /\ Len(s) \in -1 .. Len(s) /\ m - 1 \in -1 .. Len(s)
  BY <1>1, <1>2
<1>4. SubSeq(s, dot, Len(s)) \in Seq(S)
  BY <1>3, PartIs
<1>5. <<"/">> \in Seq(S)
  OBVIOUS
<1>6. SubSeq(s, 1, m - 1) \o <<"/">> \in Seq(S)
  <2>1. SubSeq(s, 1, m - 1) \in Seq(S)
    BY <1>2, <1>3, PartIs
  <2> QED
    BY <1>5, <2>1, JoinedIs
<1>7. SubSeq(s, 1, m - 1) \o <<"/">> \o name \in Seq(S)
  BY <1>6, JoinedIs
<1>8. substitute_filename(s, name) =
        SubSeq(s, 1, LastSeparator(s) - 1) \o <<"/">> \o name \o SubSeq(s, LastDot(s), Len(s))
  <2>1. LastDot(s) # 0
    BY <1>1, <1>2
  <2> QED
    BY <2>1, Zenon DEF substitute_filename
<1> QED
  BY <1>1, <1>4, <1>6, <1>7, <1>8

LEMMA RenamedIsPath ==
  ASSUME NEW S, "/" \in S, NEW s \in Seq(S), Len(s) > 0, NEW name \in Seq(S)
  PROVE  substitute_filename(s, name) \in Seq(S)
<1>1. PICK m, dot : m = LastSeparator(s) - 1 /\ dot = IF LastDot(s) = 0 THEN Len(s) ELSE LastDot(s)
  OBVIOUS
<1>2. Len(s) \in Nat /\ LastSeparator(s) \in 0 .. Len(s) /\ LastDot(s) \in 0 .. Len(s)
  BY LastOfIs, LenProperties DEF LastDot, LastSeparator
<1>3. m \in -1 .. Len(s) /\ dot \in 1 .. Len(s)
  BY <1>1, <1>2
<1>4. SubSeq(s, 1, m) \in Seq(S)
  BY <1>2, <1>3, PartIs
<1>5. SubSeq(s, dot, Len(s)) \in Seq(S)
  BY <1>2, <1>3, PartIs
<1>6. <<"/">> \in Seq(S)
  OBVIOUS
<1>7. SubSeq(s, 1, m) \o <<"/">> \in Seq(S)
  BY <1>4, <1>6, JoinedIs
<1>8. SubSeq(s, 1, m) \o <<"/">> \o name \in Seq(S)
  BY <1>7, JoinedIs
<1>9. SubSeq(s, 1, m) \o <<"/">> \o name \o SubSeq(s, dot, Len(s)) \in Seq(S)
  BY <1>5, <1>8, JoinedIs
<1>10. substitute_filename(s, name) =
         SubSeq(s, 1, m) \o <<"/">> \o name \o SubSeq(s, dot, Len(s))
  BY <1>1 DEF substitute_filename
<1> QED
  BY <1>9, <1>10

(* The new name ends as the old one did.                                   *)
LEMMA RenamedKeepsEnd ==
  ASSUME NEW S, {"/", "."} \cup Types \subseteq S, NEW s \in Seq(S), NEW name \in Seq(S),
         NEW type \in Types, EndsWith(s, type)
  PROVE  EndsWith(substitute_filename(s, name), type)
<1>1. Len(s) \in Nat /\ Len(s) >= 2 /\ s[Len(s) - 1] = "." /\ s[Len(s)] = type
  BY EndIs, LenProperties
<1>2. PICK dot : dot = Len(s) - 1
  OBVIOUS
<1>3. dot \in 0 .. Len(s) /\ dot > 0 /\ s[dot] = "."
  BY <1>1, <1>2
<1>4. \A k \in 1 .. Len(s) : k > dot => s[k] \notin {"."}
  <2>1. type # "."
    BY DEF Types
  <2>2. \A k \in 1 .. Len(s) : k > dot => k = Len(s)
    BY <1>1, <1>2
  <2> QED
    BY <1>1, <2>1, <2>2
<1>5. LastDot(s) = dot
  BY <1>3, <1>4, LastOfUnique DEF LastDot
<1>6. SubSeq(s, dot, Len(s)) = <<".", type>>
  BY <1>2 DEF EndsWith
<1>7. PICK a \in Seq(S) : substitute_filename(s, name) = a \o <<".", type>>
  <2>1. LastDot(s) > 0 /\ "/" \in S
    BY <1>3, <1>5
  <2> QED
    BY <1>5, <1>6, <2>1, RenamedIs
<1>8. <<".", type>> \in Seq(S) /\ EndsWith(<<".", type>>, type)
  BY TypeEnds
<1> QED
  BY <1>7, <1>8, EndsBehind
-----------------------------------------------------------------------------
(* Where a file is put.                                                    *)

(* p is a file in the place where q is, and its last dot is in its name.   *)
SamePlace(p, q) ==
  /\ LastSeparator(p) = LastSeparator(q)
  /\ \/ LastDot(p) > LastSeparator(p)
     \/ LastDot(p) = 0 /\ Len(p) > LastSeparator(p)
  /\ \A k \in 1 .. LastSeparator(q) : p[k] = q[k]

(* A path with another extension: what is before the last dot, or all of   *)
(* it, and the new one.                                                    *)
LEMMA ExtendedIs ==
  ASSUME NEW S, {"."} \cup Types \subseteq S, NEW s \in Seq(S), NEW type \in Types,
         NEW r, r = substitute_output_extension(s, type),
         NEW dot, dot = IF LastDot(s) = 0 THEN Len(s) + 1 ELSE LastDot(s)
  PROVE  /\ r \in Seq(S)
         /\ dot \in 1 .. Len(s) + 1
         /\ Len(r) = dot + 1
         /\ \A k \in 1 .. dot - 1 : r[k] = s[k]
         /\ r[dot] = "." /\ r[dot + 1] = type
<1>1. PICK e : e = <<".", type>>
  OBVIOUS
<1>2. e \in Seq(S) /\ Len(e) = 2 /\ e[1] = "." /\ e[2] = type
  BY <1>1, TypeEnds
<1>3. PICK c : c = dot - 1
  OBVIOUS
<1>4. Len(s) \in Nat /\ LastDot(s) \in 0 .. Len(s)
  BY LenProperties, LastOfIs DEF LastDot
<1>5. c \in 0 .. Len(s) /\ dot = c + 1
  BY <1>3, <1>4
<1>6. /\ r \in Seq(S)
      /\ Len(r) = c + 2
      /\ \A k \in 1 .. c : r[k] = s[k]
      /\ r[c + 1] = e[1] /\ r[c + 2] = e[2]
  <2>0. 1 \in 1 .. Len(e) /\ 2 \in 1 .. Len(e)
    BY <1>2
  <2>1. CASE LastDot(s) = 0
    <3>1. r = s \o <<".", type>> /\ c = Len(s)
      BY <1>3, <1>4, <2>1 DEF substitute_output_extension, substitute_extension
    <3>2. PICK x : x = s \o e
      OBVIOUS
    <3>3. /\ x \in Seq(S) /\ Len(x) = Len(s) + Len(e)
          /\ \A k \in 1 .. Len(s) : x[k] = s[k]
          /\ \A k \in 1 .. Len(e) : x[Len(s) + k] = e[k]
      <4>1. e \in Seq(S)
        BY <1>2
      <4> QED
        BY <3>2, <4>1, JoinedIs
    <3>4. x = r
      BY <1>1, <3>1, <3>2
    <3> QED
      BY <1>2, <2>0, <3>1, <3>3, <3>4
  <2>2. CASE LastDot(s) # 0
    <3>1. r = SubSeq(s, 1, LastDot(s) - 1) \o <<".", type>>
      BY <2>2, Zenon DEF substitute_output_extension, substitute_extension
    <3>2. c = LastDot(s) - 1
      BY <1>3, <2>2
    <3>3. PICK x : x = SubSeq(s, 1, c) \o e
      OBVIOUS
    <3>4. /\ x \in Seq(S) /\ Len(x) = c + Len(e)
          /\ \A k \in 1 .. c : x[k] = s[k]
          /\ \A k \in 1 .. Len(e) : x[c + k] = e[k]
      <4>1. e \in Seq(S) /\ c \in 0 .. Len(s)
        BY <1>2, <1>5
      <4> QED
        BY <3>3, <4>1, SplicedIs
    <3>5. x = r
      BY <1>1, <3>1, <3>2, <3>3
    <3> QED
      BY <1>2, <2>0, <3>4, <3>5
  <2> QED
    BY <2>1, <2>2
<1>7. c + 2 = dot + 1 /\ c + 1 = dot /\ dot - 1 = c /\ dot \in 1 .. Len(s) + 1
  BY <1>4, <1>5
<1> QED
  BY <1>2, <1>6, <1>7

(* A new extension leaves a file where it is.                              *)
LEMMA ExtensionKeepsPlace ==
  ASSUME NEW S, {"."} \cup Types \subseteq S, NEW s \in Seq(S), NEW type \in Types,
         LastDot(s) = 0 \/ LastDot(s) > LastSeparator(s)
  PROVE  SamePlace(substitute_output_extension(s, type), s)
<1>1. PICK dot, m : dot = (IF LastDot(s) = 0 THEN Len(s) + 1 ELSE LastDot(s)) /\ m = LastSeparator(s)
  OBVIOUS
<1>2. /\ Len(s) \in Nat /\ m \in 0 .. Len(s) /\ LastDot(s) \in 0 .. Len(s)
      /\ m > 0 => s[m] \in Separator
      /\ \A k \in 1 .. Len(s) : k > m => s[k] \notin Separator
  BY <1>1, LastOfIs, LenProperties DEF LastDot, LastSeparator
<1>3. PICK r : r = substitute_output_extension(s, type)
  OBVIOUS
<1>4. dot \in 1 .. Len(s) + 1 /\ dot > m
  BY <1>1, <1>2
<1>6. /\ r \in Seq(S)
      /\ Len(r) = dot + 1
      /\ \A k \in 1 .. dot - 1 : r[k] = s[k]
      /\ r[dot] = "." /\ r[dot + 1] = type
  BY <1>1, <1>3, ExtendedIs
<1>7. type \notin Separator /\ type # "." /\ "." \notin Separator
  BY DEF Types, Separator
<1>8. \A k \in 1 .. Len(r) : (k \in 1 .. dot - 1 /\ k \in 1 .. Len(s)) \/ k = dot \/ k = dot + 1
  BY <1>2, <1>4, <1>6
<1>9. \A k \in 1 .. Len(r) : k > m => r[k] \notin Separator
  BY <1>2, <1>4, <1>6, <1>7, <1>8
<1>10. LastSeparator(r) = m
  <2>1. m \in 0 .. Len(r) /\ (m > 0 => r[m] \in Separator)
    BY <1>2, <1>4, <1>6
  <2> QED
    BY <1>6, <1>9, <2>1, LastOfUnique DEF LastSeparator
<1>11. LastDot(r) = dot
  <2>1. dot \in 0 .. Len(r) /\ r[dot] \in {"."}
    BY <1>2, <1>4, <1>6
  <2>2. \A k \in 1 .. Len(r) : k > dot => r[k] \notin {"."}
    BY <1>2, <1>4, <1>6, <1>7, <1>8
  <2> QED
    BY <1>6, <2>1, <2>2, LastOfUnique DEF LastDot
<1>12. \A k \in 1 .. m : r[k] = s[k]
  BY <1>2, <1>4, <1>6
<1> QED
  BY <1>1, <1>2, <1>3, <1>4, <1>10, <1>11, <1>12 DEF SamePlace

(* Two paths that agree up to their last slash are in one directory.       *)
LEMMA DirectoryIs ==
  ASSUME NEW S, NEW p \in Seq(S), NEW q \in Seq(S),
         NEW m \in 0 .. Len(p), m <= Len(q),
         LastOf(p, {"/"}) = m, LastOf(q, {"/"}) = m,
         \A k \in 1 .. m : p[k] = q[k]
  PROVE  Directory(p) = Directory(q)
<1>1. Len(p) \in Nat /\ Len(q) \in Nat
  BY LenProperties
<1>2. PICK a, b : a = SubSeq(p, 1, m) /\ b = SubSeq(q, 1, m)
  OBVIOUS
<1>3. m \in -1 .. Len(p) /\ m \in -1 .. Len(q) /\ 1 \in 1 .. Len(p) + 1 /\ 1 \in 1 .. Len(q) + 1
  BY <1>1
<1>4. /\ a \in Seq(S) /\ Len(a) = m
      /\ \A k \in 1 .. Len(a) : a[k] = p[1 + k - 1]
  BY <1>1, <1>2, <1>3, PartIs
<1>5. /\ b \in Seq(S) /\ Len(b) = m
      /\ \A k \in 1 .. Len(b) : b[k] = q[1 + k - 1]
  BY <1>1, <1>2, <1>3, PartIs
<1>6. \A k \in 1 .. Len(a) : a[k] = b[k]
  BY <1>1, <1>4, <1>5
<1>7. a = b
  BY <1>4, <1>5, <1>6, SeqEqual
<1> QED
  BY <1>2, <1>7 DEF Directory

(* If the last separator is a slash, it is the last slash.                 *)
LEMMA SlashIs ==
  ASSUME NEW S, NEW q \in Seq(S), NEW p \in Seq(S), Editable(q),
         LastSeparator(p) = LastSeparator(q),
         \A k \in 1 .. LastSeparator(q) : p[k] = q[k]
  PROVE  LastOf(p, {"/"}) = LastSeparator(q)
<1>1. PICK m : m = LastSeparator(q)
  OBVIOUS
<1>2. /\ LastSeparator(p) = m /\ \A k \in 1 .. m : p[k] = q[k]
      /\ m = 0 \/ q[m] = "/"
  BY <1>1 DEF Editable
<1>3. /\ m \in 0 .. Len(p)
      /\ \A k \in 1 .. Len(p) : k > m => p[k] \notin Separator
  BY <1>2, LastOfIs DEF LastSeparator
<1>4. m > 0 => p[m] \in {"/"}
  <2>1. m > 0 => m \in 1 .. m
    BY <1>3
  <2> QED
    BY <1>2, <1>3, <2>1
<1>5. \A k \in 1 .. Len(p) : k > m => p[k] \notin {"/"}
  BY <1>3 DEF Separator
<1> QED
  BY <1>1, <1>3, <1>4, <1>5, LastOfUnique

(* The last slash of a path with a new name is the one before the name: it *)
(* replaces the last separator, or is the first character of all.          *)
LEMMA RenamedLastSlash ==
  ASSUME NEW S, {"/", "."} \subseteq S, NEW p \in Seq(S), NEW name \in Seq(S),
         \A k \in 1 .. Len(name) : name[k] # "/",
         NEW dot, dot = IF LastDot(p) = 0 THEN Len(p) ELSE LastDot(p),
         dot > LastSeparator(p),
         NEW n, n = IF LastSeparator(p) = 0 THEN 0 ELSE LastSeparator(p) - 1,
         NEW r, r = substitute_filename(p, name)
  PROVE  /\ r \in Seq(S)
         /\ n + 1 \in 1 .. Len(r) /\ LastOf(r, {"/"}) = n + 1 /\ r[n + 1] = "/"
         /\ \A k \in 1 .. n : r[k] = p[k]
<1>1. PICK m, before : m = LastSeparator(p) /\ before = m - 1
  OBVIOUS
<1>2. /\ Len(p) \in Nat /\ Len(name) \in Nat
      /\ dot \in 1 .. Len(p) /\ m \in 0 .. Len(p) /\ dot > m
      /\ \A k \in 1 .. Len(p) : k > m => p[k] \notin Separator
  <2>1. /\ LastDot(p) \in 0 .. Len(p) /\ m \in 0 .. Len(p)
        /\ \A k \in 1 .. Len(p) : k > m => p[k] \notin Separator
    BY <1>1, LastOfIs DEF LastDot, LastSeparator
  <2>2. Len(p) \in Nat /\ Len(name) \in Nat
    BY LenProperties
  <2> QED
    BY <1>1, <2>1, <2>2
<1>3. /\ n \in 0 .. Len(p) /\ n \in Nat /\ n <= m
      /\ (m > 0 => before = n)
      /\ (m = 0 => before = -1 /\ n = 0)
  BY <1>1, <1>2
<1>4. SubSeq(p, 1, before) = SubSeq(p, 1, n)
  <2>1. CASE m > 0
    <3>1. before = n
      BY <1>3, <2>1
    <3> QED
      BY <3>1
  <2>2. CASE m = 0
    <3>1. PICK x, y : x = SubSeq(p, 1, before) /\ y = SubSeq(p, 1, n)
      OBVIOUS
    <3>2. x \in Seq(S) /\ Len(x) = 0 /\ y \in Seq(S) /\ Len(y) = 0
      <4>1. before \in -1 .. Len(p) /\ n \in -1 .. Len(p) /\ 1 \in 1 .. Len(p) + 1
        BY <1>2, <1>3, <2>2
      <4> QED
        BY <1>3, <2>2, <3>1, <4>1, PartIs
    <3>3. \A k \in 1 .. Len(x) : x[k] = y[k]
      BY <3>2
    <3> QED
      BY <3>1, <3>2, <3>3, SeqEqual
  <2>3. m > 0 \/ m = 0
    BY <1>2
  <2> QED
    BY <2>1, <2>2, <2>3, Zenon
<1> DEFINE s == <<"/">>
           b == SubSeq(p, 1, n) \o s
           c == b \o name
           end == SubSeq(p, dot, Len(p))
<1>5. /\ b = SubSeq(p, 1, n) \o s
      /\ c = b \o name
      /\ end = SubSeq(p, dot, Len(p))
  OBVIOUS
<1>6. r = c \o end
  BY <1>1, <1>4 DEF substitute_filename
<1>7. s \in Seq(S) /\ Len(s) = 1 /\ s[1] = "/"
  OBVIOUS
<1> HIDE DEF s, b, c, end
<1>8. /\ b \in Seq(S) /\ Len(b) = n + 1
      /\ \A k \in 1 .. n : b[k] = p[k]
      /\ b[n + 1] = "/"
  <2>1. /\ b \in Seq(S) /\ Len(b) = n + Len(s)
        /\ \A k \in 1 .. n : b[k] = p[k]
        /\ \A k \in 1 .. Len(s) : b[n + k] = s[k]
    <3>1. n \in 0 .. Len(p) /\ s \in Seq(S)
      BY <1>3, <1>7
    <3>2. b = SubSeq(p, 1, n) \o s
      BY <1>5
    <3> QED
      BY <3>1, <3>2, SplicedIs
  <2>2. 1 \in 1 .. Len(s)
    BY <1>7
  <2> QED
    BY <1>7, <2>1, <2>2
<1>9. /\ c \in Seq(S) /\ Len(c) = n + 1 + Len(name)
      /\ \A k \in 1 .. n + 1 : c[k] = b[k]
      /\ \A k \in 1 .. Len(name) : c[n + 1 + k] = name[k]
  <2>1. /\ c \in Seq(S) /\ Len(c) = Len(b) + Len(name)
        /\ \A k \in 1 .. Len(b) : c[k] = b[k]
        /\ \A k \in 1 .. Len(name) : c[Len(b) + k] = name[k]
    <3>1. b \in Seq(S) /\ c = b \o name
      BY <1>5, <1>8
    <3> QED
      BY <3>1, JoinedIs
  <2> QED
    BY <1>8, <2>1
<1>10. /\ end \in Seq(S) /\ Len(end) = Len(p) - dot + 1
       /\ \A k \in 1 .. Len(end) : end[k] = p[dot + k - 1]
  <2>1. dot \in 1 .. Len(p) + 1 /\ Len(p) \in -1 .. Len(p) /\ dot <= Len(p)
    BY <1>2
  <2>2. end = SubSeq(p, dot, Len(p))
    BY <1>5
  <2> QED
    BY <2>1, <2>2, PartIs
<1>11. /\ r \in Seq(S) /\ Len(r) = Len(c) + Len(end)
       /\ \A k \in 1 .. Len(c) : r[k] = c[k]
       /\ \A k \in 1 .. Len(end) : r[Len(c) + k] = end[k]
  <2>1. c \in Seq(S) /\ end \in Seq(S)
    BY <1>9, <1>10
  <2> QED
    BY <1>6, <2>1, JoinedIs
<1>12. \A k \in 1 .. n + 1 : r[k] = b[k]
  <2>1. \A k \in 1 .. n + 1 : k \in 1 .. Len(c)
    BY <1>2, <1>3, <1>9
  <2> QED
    BY <1>9, <1>11, <2>1
<1>13. r[n + 1] = "/" /\ \A k \in 1 .. n : r[k] = p[k]
  <2>1. n + 1 \in 1 .. n + 1 /\ \A k \in 1 .. n : k \in 1 .. n + 1
    BY <1>3
  <2> QED
    BY <1>8, <1>12, <2>1
<1>14. Len(c) \in Nat /\ Len(end) \in Nat /\ Len(r) \in Nat /\ n + 1 \in 1 .. Len(r)
  <2>1. Len(c) \in Nat /\ Len(end) \in Nat /\ Len(r) \in Nat
    BY <1>9, <1>10, <1>11, LenProperties
  <2>2. n + 1 <= Len(c)
    BY <1>2, <1>3, <1>9
  <2> QED
    BY <1>3, <1>11, <2>1, <2>2
<1>15. \A k \in 1 .. Len(r) : k > n + 1 => r[k] \notin {"/"}
  <2> SUFFICES ASSUME NEW k \in 1 .. Len(r), k > n + 1
               PROVE  r[k] # "/"
    OBVIOUS
  <2>1. CASE k <= Len(c)
    <3>1. PICK l \in 1 .. Len(name) : k = n + 1 + l
      <4>1. k \in Nat /\ k <= n + 1 + Len(name)
        BY <1>9, <1>14, <2>1
      <4>2. k - (n + 1) \in 1 .. Len(name) /\ k = n + 1 + (k - (n + 1))
        BY <1>2, <1>3, <4>1
      <4> QED
        BY <4>2
    <3>2. k \in 1 .. Len(c)
      BY <1>3, <2>1
    <3> QED
      BY <1>9, <1>11, <3>1, <3>2
  <2>2. CASE ~(k <= Len(c))
    <3>1. Len(c) \in Nat /\ Len(end) \in Nat
      BY <1>14
    <3>2. PICK l \in 1 .. Len(end) : k = Len(c) + l
      <4>1. k - Len(c) \in 1 .. Len(end) /\ k = Len(c) + (k - Len(c))
        BY <1>11, <2>2, <3>1
      <4> QED
        BY <4>1
    <3>3. r[k] = p[dot + l - 1]
      BY <1>10, <1>11, <3>2
    <3>4. dot + l - 1 \in 1 .. Len(p) /\ dot + l - 1 > m
      BY <1>2, <1>10, <3>1, <3>2
    <3> QED
      BY <1>2, <3>3, <3>4 DEF Separator
  <2> QED
    BY <2>1, <2>2
<1>16. LastOf(r, {"/"}) = n + 1
  <2>1. n + 1 \in 0 .. Len(r) /\ r[n + 1] \in {"/"}
    BY <1>13, <1>14
  <2> QED
    BY <1>11, <1>15, <2>1, LastOfUnique
<1> QED
  BY <1>11, <1>13, <1>14, <1>16

(* Whatever the new name, its file is in the old one's directory.          *)
LEMMA RenamedKeepsDirectory ==
  ASSUME NEW S, {"/", "."} \subseteq S, NEW p \in Seq(S), NEW q \in Seq(S), NEW name \in Seq(S),
         Editable(q), SamePlace(p, q), LastSeparator(q) # 0,
         \A k \in 1 .. Len(name) : name[k] # "/"
  PROVE  Directory(substitute_filename(p, name)) = Directory(q)
<1>1. PICK m, n, dot, r :
        /\ m = LastSeparator(p)
        /\ n = (IF LastSeparator(p) = 0 THEN 0 ELSE LastSeparator(p) - 1)
        /\ dot = (IF LastDot(p) = 0 THEN Len(p) ELSE LastDot(p))
        /\ r = substitute_filename(p, name)
  OBVIOUS
<1>2. /\ m = LastSeparator(q) /\ m \in 0 .. Len(p) /\ m \in 0 .. Len(q)
      /\ Len(p) \in Nat /\ Len(q) \in Nat
  BY <1>1, LastOfIs, LenProperties DEF LastSeparator, SamePlace
<1>3. /\ m > 0 /\ n = m - 1 /\ dot > m /\ q[m] = "/"
      /\ \A k \in 1 .. m : p[k] = q[k]
  BY <1>1, <1>2 DEF Editable, SamePlace
<1>4. /\ r \in Seq(S) /\ n + 1 \in 1 .. Len(r)
      /\ LastOf(r, {"/"}) = n + 1 /\ r[n + 1] = "/"
      /\ \A k \in 1 .. n : r[k] = p[k]
  <2>1. dot > LastSeparator(p)
    BY <1>1, <1>3
  <2> QED
    BY <1>1, <2>1, RenamedLastSlash
<1>5. n + 1 = m /\ m \in 0 .. Len(r) /\ m <= Len(q)
  BY <1>2, <1>3, <1>4
<1>6. LastOf(q, {"/"}) = m
  BY <1>2, SlashIs
<1>7. \A k \in 1 .. m : r[k] = q[k]
  <2>1. \A k \in 1 .. m : (k \in 1 .. n /\ k \in 1 .. m) \/ k = m
    BY <1>2, <1>3
  <2> QED
    BY <1>3, <1>4, <1>5, <2>1
<1>8. Directory(r) = Directory(q)
  BY <1>4, <1>5, <1>6, <1>7, DirectoryIs
<1> QED
  BY <1>1, <1>8

(* A bare name is put into the root directory.                             *)
LEMMA RenamedToRoot ==
  ASSUME NEW S, {"/", "."} \subseteq S, NEW p \in Seq(S), NEW q \in Seq(S), NEW name \in Seq(S),
         SamePlace(p, q), LastSeparator(q) = 0, \A k \in 1 .. Len(name) : name[k] # "/"
  PROVE  Directory(substitute_filename(p, name)) = <<"/">>
<1>1. PICK dot, r : /\ dot = (IF LastDot(p) = 0 THEN Len(p) ELSE LastDot(p))
                    /\ r = substitute_filename(p, name)
  OBVIOUS
<1>2. /\ LastSeparator(p) = 0 /\ dot > LastSeparator(p)
      /\ 0 = IF LastSeparator(p) = 0 THEN 0 ELSE LastSeparator(p) - 1
  BY <1>1 DEF SamePlace
<1>3. r \in Seq(S) /\ 1 \in 1 .. Len(r) /\ LastOf(r, {"/"}) = 1 /\ r[1] = "/"
  <2>1. /\ r \in Seq(S) /\ 0 + 1 \in 1 .. Len(r)
        /\ LastOf(r, {"/"}) = 0 + 1 /\ r[0 + 1] = "/"
    BY <1>1, <1>2, RenamedLastSlash
  <2> QED
    BY <2>1
<1>4. PICK a : a = SubSeq(r, 1, 1)
  OBVIOUS
<1>5. a \in Seq(S) /\ Len(a) = 1 /\ a[1] = "/"
  <2>1. Len(r) \in Nat /\ 1 \in 1 .. Len(r) + 1 /\ 1 \in -1 .. Len(r)
    BY <1>3, LenProperties
  <2>2. /\ a \in Seq(S)
        /\ Len(a) = IF 1 <= 1 THEN 1 - 1 + 1 ELSE 0
        /\ \A k \in 1 .. Len(a) : a[k] = r[1 + k - 1]
    BY <1>3, <1>4, <2>1, PartIs
  <2> QED
    BY <1>3, <2>2
<1>6. a = <<"/">>
  <2>1. <<"/">> \in Seq(S) /\ Len(<<"/">>) = 1 /\ <<"/">>[1] = "/"
    OBVIOUS
  <2>2. \A k \in 1 .. Len(a) : a[k] = <<"/">>[k]
    BY <1>5, <2>1
  <2> QED
    BY <1>5, <2>1, <2>2, SeqEqual
<1>7. Directory(r) = a
  BY <1>3, <1>4 DEF Directory
<1> QED
  BY <1>1, <1>6, <1>7

(* A file that is in its place is in its directory.                        *)
LEMMA SamePlaceSameDirectory ==
  ASSUME NEW S, NEW p \in Seq(S), NEW q \in Seq(S), Editable(q), SamePlace(p, q)
  PROVE  Directory(p) = Directory(q)
<1>1. PICK m : m = LastSeparator(q)
  OBVIOUS
<1>3. LastOf(p, {"/"}) = m /\ LastOf(q, {"/"}) = m
  BY <1>1, SlashIs DEF SamePlace
<1>4. m \in 0 .. Len(p) /\ m \in 0 .. Len(q) /\ \A k \in 1 .. m : p[k] = q[k]
  BY <1>1, LastOfIs DEF SamePlace, LastSeparator
<1>5. m <= Len(q)
  BY <1>4, LenProperties
<1> QED
  BY <1>3, <1>4, <1>5, DirectoryIs

-----------------------------------------------------------------------------
(* Types.                                                                  *)

(* Where parse stands in the argument vector, and what the paths are made  *)
(* of.                                                                     *)
TypeInv ==
  /\ StaysInVector
  /\ argv \in Seq(Seq(Character))
  /\ output_path \in Seq(Character)
  /\ given \in Seq(Character)
  /\ stage = "start" => next = 3
  /\ stage \in {"parse", "name", "ready"} => HasChart
  /\ stage \in {"parse", "name"} => Len(output_path) > 0

LEMMA Characters ==
  /\ {"."} \cup Types \subseteq Character
  /\ {"/", "."} \cup Types \subseteq Character
  /\ "/" \in Character /\ "_" \in Character
BY CharacterAssumption DEF Types

(* An argument that is there is a path, and not an empty one.              *)
LEMMA ArgumentIs ==
  ASSUME TypeInv, NEW k \in Nat \ {0}, k <= Len(argv)
  PROVE  argv[k] \in Seq(Character) /\ Len(argv[k]) > 0 /\ Len(argv[k]) \in Nat
<1>1. argv \in CommandLines /\ argv \in Seq(Seq(Character))
  BY DEF TypeInv, StaysInVector
<1>2. Len(argv) \in Nat /\ DOMAIN argv = 1 .. Len(argv)
  BY <1>1, LenProperties
<1>3. k \in 1 .. Len(argv) /\ k \in DOMAIN argv
  BY <1>2
<1>4. argv[k] \in Seq(Character)
  BY <1>1, <1>3, ElementOfSeq
<1>5. Len(argv[k]) >= 1
  BY <1>1, <1>3, CommandLineAssumption
<1>6. Len(argv[k]) \in Nat
  BY <1>4, LenProperties
<1> QED
  BY <1>4, <1>5, <1>6

(* The program's name and the chart's.                                     *)
LEMMA FirstArguments ==
  ASSUME TypeInv
  PROVE  /\ Len(argv) \in Nat /\ Len(argv) >= 1
         /\ argv[1] \in Seq(Character)
         /\ HasChart => Len(argv) >= 2 /\ bms_path \in Seq(Character)
<1>1. Len(argv) \in Nat /\ Len(argv) >= 1
  BY CommandLineAssumption, LenProperties DEF TypeInv, StaysInVector
<1>2. argv[1] \in Seq(Character)
  BY <1>1, ArgumentIs
<1>3. HasChart => Len(argv) >= 2
  BY <1>1 DEF HasChart
<1>4. HasChart => argv[2] \in Seq(Character)
  BY <1>1, <1>3, ArgumentIs
<1> QED
  BY <1>1, <1>2, <1>3, <1>4 DEF bms_path

LEMMA InitTypes == ParseInit => TypeInv
<1> SUFFICES ASSUME ParseInit PROVE TypeInv
  OBVIOUS
<1>1. argv \in CommandLines /\ argv \in Seq(Seq(Character)) /\ Len(argv) >= 1
  BY CommandLineAssumption DEF ParseInit
<1>2. Len(argv) \in Nat
  BY <1>1, LenProperties
<1>3. 3 \in 3 .. IF Len(argv) < 2 THEN 3 ELSE Len(argv) + 1
  BY <1>2
<1>4. <<>> \in Seq(Character)
  BY EmptySeq
<1>5. DOMAIN numbers = Numeric
  BY DEF ParseInit
<1> QED
  BY <1>1, <1>3, <1>4, <1>5 DEF ParseInit, TypeInv, StaysInVector

(* The path that is proposed, for the program's directory.                 *)
LEMMA ProposedIsPath ==
  ASSUME TypeInv, HasChart
  PROVE  get_filedir(argv[1]) \o <<"/">> \o get_filename(bms_path) \in Seq(Character)
<1>1. get_filedir(argv[1]) \in Seq(Character) /\ get_filename(bms_path) \in Seq(Character)
  BY FirstArguments, DirectoryIsPath, NameIsBare
<1>2. <<"/">> \in Seq(Character)
  <2>1. "/" \in Character
    BY Characters
  <2> QED
    BY <2>1
<1>3. get_filedir(argv[1]) \o <<"/">> \in Seq(Character)
  BY <1>1, <1>2, JoinedIs
<1> QED
  BY <1>1, <1>3, JoinedIs

(* An option and its own argument are both within the vector.              *)
LEMMA StepKeepsPosition ==
  ASSUME TypeInv, stage = "parse", next <= Len(argv),
         next' = next + 1 \/ (next < Len(argv) /\ next' = next + 2), argv' = argv
  PROVE  next' \in 3 .. IF Len(argv') < 2 THEN 3 ELSE Len(argv') + 1
<1>1. Len(argv) \in Nat /\ Len(argv) >= 2
  BY FirstArguments DEF TypeInv
<1>2. next \in 3 .. Len(argv) + 1
  BY <1>1 DEF TypeInv, StaysInVector
<1> QED
  BY <1>1, <1>2

LEMMA NextKeepsTypes == TypeInv /\ [ParseNext]_parseVars => TypeInv'
<1> SUFFICES ASSUME TypeInv, [ParseNext]_parseVars
             PROVE  TypeInv'
  OBVIOUS
<1> DEFINE Rest == /\ argv' = argv
                   /\ next' \in 3 .. IF Len(argv') < 2 THEN 3 ELSE Len(argv') + 1
                   /\ output_type' \in {"ogg", "wav", "flac"}
                   /\ DOMAIN numbers' = Numeric
                   /\ autofilename' \in BOOLEAN /\ typed' \in BOOLEAN
                   /\ stage' \in {"start", "parse", "name", "ready", "usage"}
                   /\ stage' = "start" => next' = 3
                   /\ stage' \in {"parse", "name", "ready"} => HasChart
           Paths2 == /\ output_path' \in Seq(Character) /\ given' \in Seq(Character)
                     /\ stage' \in {"parse", "name"} => Len(output_path') > 0
<1>a. ASSUME Rest, Paths2 PROVE TypeInv'
  <2>1. HasChart' = HasChart
    BY <1>a DEF HasChart
  <2>2. argv' \in CommandLines /\ argv' \in Seq(Seq(Character))
    BY <1>a DEF TypeInv, StaysInVector
  <2> QED
    BY <1>a, <2>1, <2>2 DEF TypeInv, StaysInVector
<1>b. /\ argv \in CommandLines /\ output_type \in {"ogg", "wav", "flac"}
      /\ DOMAIN numbers = Numeric
      /\ autofilename \in BOOLEAN /\ typed \in BOOLEAN
      /\ stage \in {"start", "parse", "name", "ready", "usage"}
      /\ output_path \in Seq(Character) /\ given \in Seq(Character)
      /\ next \in 3 .. IF Len(argv) < 2 THEN 3 ELSE Len(argv) + 1
      /\ stage = "start" => next = 3
      /\ stage \in {"parse", "name", "ready"} => HasChart
      /\ stage \in {"parse", "name"} => Len(output_path) > 0
  BY DEF TypeInv, StaysInVector
<1>c. TypeOfProgram \in {"ogg", "wav", "flac"}
  BY DEF TypeOfProgram
<1>dot. output_type \in Types
  BY <1>b DEF Types
<1>1. CASE Help
  <2>1. Rest /\ Paths2
    BY <1>1, <1>b, <1>c DEF Help
  <2> QED
    BY <1>a, <2>1
<1>2. CASE Defaults
  <2>1. Rest
    BY <1>2, <1>b, <1>c DEF Defaults
  <2>2. given' \in Seq(Character)
    BY <1>2, ProposedIsPath DEF Defaults
  <2>3. output_type' \in Types
    BY <1>2, <1>c DEF Defaults, Types
  <2>4. output_path' = substitute_output_extension(given', output_type')
    BY <1>2 DEF Defaults
  <2>5. output_path' \in Seq(Character) /\ Len(output_path') > 0
    BY <2>2, <2>3, <2>4, Characters, ExtensionIsType
  <2> QED
    BY <1>a, <2>1, <2>2, <2>5
<1>3. CASE MissingArgument
  <2>1. stage = "parse" /\ next <= Len(argv)
    BY <1>3 DEF MissingArgument, At
  <2>2. next' \in 3 .. IF Len(argv') < 2 THEN 3 ELSE Len(argv') + 1
    BY <1>3, <2>1, StepKeepsPosition DEF MissingArgument
  <2>3. Rest /\ Paths2
    BY <1>3, <1>b, <2>2 DEF MissingArgument
  <2> QED
    BY <1>a, <2>3
<1>4. CASE ToBmsDirectory
  <2>1. stage = "parse" /\ next <= Len(argv) /\ HasChart
    BY <1>4, <1>b DEF ToBmsDirectory, At
  <2>2. next' \in 3 .. IF Len(argv') < 2 THEN 3 ELSE Len(argv') + 1
    BY <1>4, <2>1, StepKeepsPosition DEF ToBmsDirectory
  <2>3. Rest
    BY <1>4, <1>b, <2>1, <2>2 DEF ToBmsDirectory
  <2>4. bms_path \in Seq(Character)
    BY <2>1, FirstArguments
  <2>5. Paths2
    BY <1>4, <1>dot, <2>4, Characters, ExtensionIsType DEF ToBmsDirectory
  <2> QED
    BY <1>a, <2>3, <2>5
<1>5. CASE ToCustomPath
  <2>1. stage = "parse" /\ next <= Len(argv) /\ HasChart /\ next < Len(argv)
    BY <1>5, <1>b DEF ToCustomPath, At
  <2>2. next' \in 3 .. IF Len(argv') < 2 THEN 3 ELSE Len(argv') + 1
    BY <1>5, <2>1, StepKeepsPosition DEF ToCustomPath
  <2>3. typed' \in BOOLEAN
    BY <1>5 DEF ToCustomPath
  <2>4. Rest
    BY <1>5, <1>b, <2>1, <2>2, <2>3 DEF ToCustomPath
  <2>5. PICK path : path = argv[next + 1]
    OBVIOUS
  <2>6. path \in Seq(Character) /\ Len(path) > 0 /\ Len(path) \in Nat
    <3>1. next + 1 \in Nat \ {0} /\ next + 1 <= Len(argv)
      BY <1>b, <2>1, FirstArguments
    <3> QED
      BY <2>5, <3>1, ArgumentIs
  <2>7. get_filename(bms_path) \in Seq(Character)
    BY <2>1, FirstArguments, NameIsBare
  <2>8. substitute_output_extension(get_filename(bms_path), output_type) \in Seq(Character)
    BY <1>dot, <2>7, Characters, ExtensionIsType
  <2>9. \A e \in Seq(Character) : path \o e \in Seq(Character) /\ Len(path \o e) > 0
    <3>1. \A e \in Seq(Character) : /\ path \o e \in Seq(Character)
                                    /\ Len(path \o e) = Len(path) + Len(e)
                                    /\ Len(e) \in Nat
      BY <2>6, JoinedIs, LenProperties
    <3> QED
      BY <2>6, <3>1
  <2>10. /\ \/ output_path' = path \o substitute_output_extension(
                                     get_filename(bms_path), output_type)
            \/ output_path' = path
         /\ given' = output_path'
    BY <1>5, <2>5 DEF ToCustomPath
  <2>11. Paths2
    BY <2>6, <2>8, <2>9, <2>10
  <2> QED
    BY <1>a, <2>4, <2>11
<1>6. ASSUME NEW type \in {"wav", "flac"}, SetType(type)
      PROVE  TypeInv'
  <2>1. stage = "parse" /\ next <= Len(argv)
    BY <1>6 DEF SetType, At
  <2>2. next' \in 3 .. IF Len(argv') < 2 THEN 3 ELSE Len(argv') + 1
    BY <1>6, <2>1, StepKeepsPosition DEF SetType
  <2>3. Rest
    BY <1>6, <1>b, <2>1, <2>2 DEF SetType
  <2>4. type \in Types
    BY DEF Types
  <2>5. Paths2
    BY <1>6, <1>b, <2>4, Characters, ExtensionIsType DEF SetType
  <2> QED
    BY <1>a, <2>3, <2>5
<1>7. ASSUME NEW o \in Numeric, SetNumber(o)
      PROVE  TypeInv'
  <2>1. stage = "parse" /\ next <= Len(argv) /\ next < Len(argv)
    BY <1>7 DEF SetNumber, At
  <2>2. next' \in 3 .. IF Len(argv') < 2 THEN 3 ELSE Len(argv') + 1
    BY <1>7, <2>1, StepKeepsPosition DEF SetNumber
  <2>3. DOMAIN numbers' = Numeric
    BY <1>7, <1>b DEF SetNumber
  <2>4. Rest /\ Paths2
    BY <1>7, <1>b, <2>1, <2>2, <2>3 DEF SetNumber
  <2> QED
    BY <1>a, <2>4
<1>8. CASE KeepName
  <2>1. stage = "parse" /\ next <= Len(argv)
    BY <1>8 DEF KeepName, At
  <2>2. next' \in 3 .. IF Len(argv') < 2 THEN 3 ELSE Len(argv') + 1
    BY <1>8, <2>1, StepKeepsPosition DEF KeepName
  <2>3. Rest /\ Paths2
    BY <1>8, <1>b, <2>1, <2>2 DEF KeepName
  <2> QED
    BY <1>a, <2>3
<1>9. CASE Ignore
  <2>1. stage = "parse" /\ next <= Len(argv)
    BY <1>9 DEF Ignore
  <2>2. next' \in 3 .. IF Len(argv') < 2 THEN 3 ELSE Len(argv') + 1
    BY <1>9, <2>1, StepKeepsPosition DEF Ignore
  <2>3. Rest /\ Paths2
    BY <1>9, <1>b, <2>2 DEF Ignore
  <2> QED
    BY <1>a, <2>3
<1>10. CASE EndOfArguments
  <2>1. stage = "parse" /\ argv' = argv /\ next' = next /\ stage' = "name" /\ output_path' = output_path
    BY <1>10 DEF EndOfArguments
  <2>2. Rest
    BY <1>10, <1>b, <2>1 DEF EndOfArguments
  <2>3. Paths2
    BY <1>10, <1>b, <2>1 DEF EndOfArguments
  <2> QED
    BY <1>a, <2>2, <2>3
<1>11. CASE ResetName
  <2>1. Rest
    <3>1. stage = "name" /\ argv' = argv /\ next' = next /\ stage' = "ready"
      BY <1>11 DEF ResetName
    <3> QED
      BY <1>11, <1>b, <3>1 DEF ResetName
  <2>2. given' \in Seq(Character) /\ stage' = "ready" /\ Len(output_path) > 0
    BY <1>11, <1>b DEF ResetName
  <2>3. ASSUME NEW n \in Names
        PROVE  substitute_filename(output_path, make_filename_safe(n)) \in Seq(Character)
    <3>1. n \in Seq(Character)
      BY NamesAssumption
    <3>2. make_filename_safe(n) \in Seq(Character)
      BY <3>1, Characters, SafeNameIs
    <3> QED
      BY <1>b, <2>2, <3>2, Characters, RenamedIsPath
  <2>4. output_path' \in Seq(Character)
    BY <1>11, <1>b, <2>3 DEF ResetName
  <2> QED
    BY <1>a, <2>1, <2>2, <2>4
<1>12. CASE UNCHANGED parseVars
  <2>1. /\ argv' = argv /\ next' = next /\ output_type' = output_type /\ output_path' = output_path
        /\ autofilename' = autofilename /\ numbers' = numbers /\ given' = given
        /\ typed' = typed /\ stage' = stage
    BY <1>12 DEF parseVars
  <2>2. Rest
    BY <1>b, <2>1
  <2>3. Paths2
    BY <1>b, <2>1
  <2> QED
    BY <1>a, <2>2, <2>3
<1> HIDE DEF Rest, Paths2
<1> QED
  BY <1>1, <1>2, <1>3, <1>4, <1>5, <1>6, <1>7, <1>8, <1>9, <1>10, <1>11, <1>12 DEF ParseNext

-----------------------------------------------------------------------------
(* The format and the name.                                                *)

LEMMA NextKeepsFormat ==
  TypeInv /\ FormatMatchesName /\ [ParseNext]_parseVars => FormatMatchesName'
<1> SUFFICES ASSUME TypeInv, FormatMatchesName, [ParseNext]_parseVars,
                    stage' \in {"parse", "name", "ready"}, ~typed'
             PROVE  EndsWith(output_path', output_type')
  BY DEF FormatMatchesName
<1>a. /\ output_type \in Types /\ output_path \in Seq(Character)
      /\ stage \in {"parse", "name", "ready"} => HasChart
  BY DEF TypeInv, StaysInVector, Types
<1>b. ASSUME stage \in {"parse", "name", "ready"}, typed' = typed,
             output_path' = output_path, output_type' = output_type
      PROVE  EndsWith(output_path', output_type')
  BY <1>b DEF FormatMatchesName
<1>1. CASE Help
  BY <1>1 DEF Help
<1>2. CASE Defaults
  <2>1. output_type' \in Types
    BY <1>2 DEF Defaults, TypeOfProgram, Types
  <2>2. given' \in Seq(Character)
    BY <1>2, ProposedIsPath DEF Defaults
  <2>3. output_path' = substitute_output_extension(given', output_type')
    BY <1>2 DEF Defaults
  <2> QED
    BY <2>1, <2>2, <2>3, Characters, ExtensionIsType
<1>3. CASE MissingArgument
  BY <1>3 DEF MissingArgument
<1>4. CASE ToBmsDirectory
  <2>1. HasChart
    BY <1>4, <1>a DEF ToBmsDirectory, At
  <2>2. bms_path \in Seq(Character)
    BY <2>1, FirstArguments
  <2>3. output_path' = substitute_output_extension(bms_path, output_type) /\ output_type' = output_type
    BY <1>4 DEF ToBmsDirectory
  <2> QED
    BY <1>a, <2>2, <2>3, Characters, ExtensionIsType
<1>5. CASE ToCustomPath
  <2>1. HasChart /\ next < Len(argv)
    BY <1>5, <1>a DEF ToCustomPath, At
  <2>2. PICK path, name : path = argv[next + 1] /\ name = get_filename(bms_path)
    OBVIOUS
  <2>3. /\ output_path' = path \o substitute_output_extension(name, output_type)
        /\ output_type' = output_type
    BY <1>5, <2>2 DEF ToCustomPath
  <2>4. path \in Seq(Character)
    <3>1. next + 1 \in Nat \ {0} /\ next + 1 <= Len(argv)
      BY <2>1, FirstArguments DEF TypeInv, StaysInVector
    <3> QED
      BY <2>2, <3>1, ArgumentIs
  <2>5. name \in Seq(Character)
    BY <2>1, <2>2, FirstArguments, NameIsBare
  <2>6. PICK e : e = substitute_output_extension(name, output_type)
    OBVIOUS
  <2>7. e \in Seq(Character) /\ EndsWith(e, output_type)
    BY <1>a, <2>5, <2>6, Characters, ExtensionIsType
  <2>8. EndsWith(path \o e, output_type)
    BY <2>4, <2>7, EndsBehind
  <2> QED
    BY <2>3, <2>6, <2>8
<1>6. ASSUME NEW type \in {"wav", "flac"}, SetType(type)
      PROVE  EndsWith(output_path', output_type')
  <2>1. output_path' = substitute_output_extension(output_path, type) /\ output_type' = type
    BY <1>6 DEF SetType
  <2>2. type \in Types
    BY DEF Types
  <2> QED
    BY <1>a, <2>1, <2>2, Characters, ExtensionIsType
<1>7. ASSUME NEW o \in Numeric, SetNumber(o)
      PROVE  EndsWith(output_path', output_type')
  BY <1>7, <1>b DEF SetNumber, At
<1>8. CASE KeepName
  BY <1>8, <1>b DEF KeepName, At
<1>9. CASE Ignore
  BY <1>9, <1>b DEF Ignore
<1>10. CASE EndOfArguments
  BY <1>10, <1>b DEF EndOfArguments
<1>11. CASE ResetName
  <2>1. stage = "name" /\ typed' = typed /\ output_type' = output_type
    BY <1>11 DEF ResetName
  <2>2. EndsWith(output_path, output_type)
    BY <2>1 DEF FormatMatchesName
  <2>3. CASE output_path' = output_path
    BY <2>1, <2>2, <2>3
  <2>4. ASSUME NEW n \in Names,
               output_path' = substitute_filename(output_path, make_filename_safe(n))
        PROVE  EndsWith(output_path', output_type')
    <3>1. make_filename_safe(n) \in Seq(Character)
      BY NamesAssumption, Characters, SafeNameIs
    <3>2. EndsWith(substitute_filename(output_path, make_filename_safe(n)), output_type)
      BY <1>a, <2>2, <3>1, Characters, RenamedKeepsEnd
    <3> QED
      BY <2>1, <2>4, <3>2
  <2> QED
    BY <1>11, <2>3, <2>4 DEF ResetName
<1>12. CASE UNCHANGED parseVars
  BY <1>12, <1>b DEF parseVars
<1> QED
  BY <1>1, <1>2, <1>3, <1>4, <1>5, <1>6, <1>7, <1>8, <1>9, <1>10, <1>11, <1>12 DEF ParseNext

-----------------------------------------------------------------------------
(* The directory.                                                          *)

(* As long as the arguments are read, the output is in its place; and the  *)
(* automatic name keeps the directory, if there is one.                    *)
PlaceInv ==
  /\ stage \in {"parse", "name"} /\ Editable(given) => SamePlace(output_path, given)
  /\ KeepsPlace

LEMMA NextKeepsPlace ==
  TypeInv /\ PlaceInv /\ [ParseNext]_parseVars => PlaceInv'
<1> DEFINE Kept == IF autofilename' /\ LastSeparator(given') = 0 THEN <<"/">>
                   ELSE Directory(given')
           Goal == /\ stage' \in {"parse", "name"} => SamePlace(output_path', given')
                   /\ stage' = "ready" => Directory(output_path') = Kept
<1> SUFFICES ASSUME TypeInv, PlaceInv, [ParseNext]_parseVars, Editable(given')
             PROVE  Goal
  BY DEF PlaceInv, KeepsPlace
<1>a. /\ output_type \in Types /\ output_path \in Seq(Character) /\ given \in Seq(Character)
      /\ stage \in {"parse", "name", "ready"} => HasChart
  BY DEF TypeInv, StaysInVector, Types
<1>b. ASSUME output_path' = output_path, given' = given,
             stage \in {"parse", "name"} => stage' \in {"parse", "name"},
             stage' = "ready" => stage = "ready" /\ autofilename' = autofilename,
             stage' \in {"parse", "name"} => stage \in {"parse", "name"}
      PROVE  Goal
  BY <1>b DEF PlaceInv, KeepsPlace
<1>c. ASSUME NEW p \in Seq(Character), NEW type \in Types, Editable(p)
      PROVE  SamePlace(substitute_output_extension(p, type), p)
  BY <1>c, Characters, ExtensionKeepsPlace DEF Editable
<1>1. CASE Help
  BY <1>1 DEF Help
<1>2. CASE Defaults
  <2>1. stage' = "parse" /\ output_path' = substitute_output_extension(given', output_type')
    BY <1>2 DEF Defaults
  <2>2. given' \in Seq(Character)
    BY <1>2, ProposedIsPath DEF Defaults
  <2>3. output_type' \in Types
    BY <1>2 DEF Defaults, TypeOfProgram, Types
  <2> QED
    BY <1>c, <2>1, <2>2, <2>3
<1>3. CASE MissingArgument
  BY <1>3 DEF MissingArgument
<1>4. CASE ToBmsDirectory
  <2>1. HasChart /\ stage' = "parse"
    BY <1>4, <1>a DEF ToBmsDirectory, At
  <2>2. bms_path \in Seq(Character)
    BY <2>1, FirstArguments
  <2>3. output_path' = substitute_output_extension(bms_path, output_type) /\ given' = bms_path
    BY <1>4 DEF ToBmsDirectory
  <2>4. SamePlace(output_path', given')
    BY <1>a, <1>c, <2>2, <2>3
  <2> QED
    BY <2>1, <2>4
<1>5. CASE ToCustomPath
  <2>1. HasChart /\ next < Len(argv) /\ stage' = "parse" /\ given' = output_path'
    BY <1>5, <1>a DEF ToCustomPath, At
  <2>2. PICK path, name : path = argv[next + 1] /\ name = get_filename(bms_path)
    OBVIOUS
  <2>3. path \in Seq(Character) /\ Len(path) \in Nat /\ Len(path) > 0
    <3>1. next + 1 \in Nat \ {0} /\ next + 1 <= Len(argv)
      BY <2>1, FirstArguments DEF TypeInv, StaysInVector
    <3> QED
      BY <2>2, <3>1, ArgumentIs
  <2>4. name \in Seq(Character)
    BY <2>1, <2>2, FirstArguments, NameIsBare
  <2>5. CASE output_path' = path \o substitute_output_extension(name, output_type)
    <3>1. PICK e, r : e = substitute_output_extension(name, output_type) /\ r = path \o e
      OBVIOUS
    <3>2. e \in Seq(Character) /\ EndsWith(e, output_type)
      BY <1>a, <2>4, <3>1, Characters, ExtensionIsType
    <3>3. r \in Seq(Character) /\ EndsWith(r, output_type) /\ Len(r) \in Nat
      BY <2>3, <3>1, <3>2, EndsBehind, JoinedIs, LenProperties
    <3>4. Len(r) >= 2 /\ r[Len(r) - 1] = "."
      BY <3>3, EndIs
    <3>5. LastDot(r) # 0
      <4>1. \A k \in 1 .. Len(r) : k > LastDot(r) => r[k] \notin {"."}
        BY <3>3, LastOfIs DEF LastDot
      <4>2. Len(r) - 1 \in 1 .. Len(r) /\ Len(r) - 1 > 0
        BY <3>3, <3>4
      <4> QED
        BY <3>4, <4>1, <4>2
    <3>6. LastDot(r) > LastSeparator(r)
      BY <2>1, <2>5, <3>1, <3>5 DEF Editable
    <3> QED
      BY <2>1, <2>5, <3>1, <3>6 DEF SamePlace
  <2>6. CASE output_path' = path /\ Last(path) \notin Separator
    <3>1. LastSeparator(path) \in 0 .. Len(path) /\ path[Len(path)] \notin Separator
      BY <2>3, <2>6, LastOfIs DEF LastSeparator, Last
    <3>2. LastSeparator(path) > 0 => path[LastSeparator(path)] \in Separator
      BY <2>3, LastOfIs DEF LastSeparator
    <3>3. Len(path) > LastSeparator(path)
      BY <2>3, <3>1, <3>2
    <3> QED
      BY <2>1, <2>6, <3>3 DEF SamePlace, Editable
  <2> QED
    BY <1>5, <2>2, <2>5, <2>6 DEF ToCustomPath
<1>6. ASSUME NEW type \in {"wav", "flac"}, SetType(type)
      PROVE  Goal
  <2>1. /\ output_path' = substitute_output_extension(output_path, type)
        /\ given' = given /\ stage = "parse" /\ stage' = "parse"
    BY <1>6 DEF SetType, At
  <2>2. type \in Types
    BY DEF Types
  <2>3. SamePlace(output_path, given)
    BY <2>1 DEF PlaceInv
  <2>4. LastDot(output_path) = 0 \/ LastDot(output_path) > LastSeparator(output_path)
    BY <2>3 DEF SamePlace
  <2>5. SamePlace(output_path', output_path)
    BY <1>a, <2>1, <2>2, <2>4, Characters, ExtensionKeepsPlace
  <2>6. SamePlace(output_path', given)
    BY <2>3, <2>5 DEF SamePlace
  <2> QED
    BY <2>1, <2>6
<1>7. ASSUME NEW o \in Numeric, SetNumber(o)
      PROVE  Goal
  BY <1>7, <1>b DEF SetNumber, At
<1>8. CASE KeepName
  BY <1>8, <1>b DEF KeepName, At
<1>9. CASE Ignore
  BY <1>9, <1>b DEF Ignore
<1>10. CASE EndOfArguments
  BY <1>10, <1>b DEF EndOfArguments
<1>11. CASE ResetName
  <2>1. /\ stage = "name" /\ given' = given /\ stage' = "ready"
        /\ autofilename' = autofilename
    BY <1>11 DEF ResetName
  <2>2. SamePlace(output_path, given) /\ Editable(given)
    BY <2>1 DEF PlaceInv
  <2>3. CASE ~autofilename /\ output_path' = output_path
    BY <1>a, <2>1, <2>2, <2>3, SamePlaceSameDirectory
  <2>4. ASSUME NEW n \in Names, autofilename,
               output_path' = substitute_filename(output_path, make_filename_safe(n))
        PROVE  Goal
    <3>1. PICK name : name = make_filename_safe(n)
      OBVIOUS
    <3>2. name \in Seq(Character) /\ \A k \in 1 .. Len(name) : name[k] # "/"
      BY <3>1, NamesAssumption, Characters, SafeNameIs
    <3>3. {"/", "."} \subseteq Character
      BY Characters
    <3>4. Directory(substitute_filename(output_path, name)) =
            IF LastSeparator(given) = 0 THEN <<"/">> ELSE Directory(given)
      BY <1>a, <2>2, <3>2, <3>3, RenamedKeepsDirectory, RenamedToRoot
    <3> QED
      BY <2>1, <2>4, <3>1, <3>4
  <2> QED
    BY <1>11, <2>3, <2>4 DEF ResetName
<1>12. CASE UNCHANGED parseVars
  BY <1>12, <1>b DEF parseVars
<1> QED
  BY <1>1, <1>2, <1>3, <1>4, <1>5, <1>6, <1>7, <1>8, <1>9, <1>10, <1>11, <1>12 DEF ParseNext

-----------------------------------------------------------------------------

LEMMA TypesHold == ParseSpec => []TypeInv
<1>1. ParseInit => TypeInv
  BY InitTypes
<1>2. TypeInv /\ [ParseNext]_parseVars => TypeInv'
  BY NextKeepsTypes
<1> QED
  BY <1>1, <1>2, PTL DEF ParseSpec

(* No argument behind the last one is ever looked at, whatever the command *)
(* line.                                                                   *)
THEOREM ParseStaysInVector == ParseSpec => []StaysInVector
<1>1. TypeInv => StaysInVector
  BY DEF TypeInv
<1> QED
  BY <1>1, TypesHold, PTL

(* Whatever the options, their order and the chart's tags, a name that the *)
(* user has not typed to its end promises the format that is written.      *)
THEOREM NamePromisesFormat == ParseSpec => []FormatMatchesName
<1>1. ParseInit => FormatMatchesName
  BY DEF ParseInit, FormatMatchesName
<1>2. TypeInv /\ FormatMatchesName /\ [ParseNext]_parseVars => FormatMatchesName'
  BY NextKeepsFormat
<1> QED
  BY <1>1, <1>2, TypesHold, PTL DEF ParseSpec

(* Whatever the options, their order and the chart's tags, no rewriting of *)
(* the path moves the output out of the directory it was given last,       *)
(* unless its last dot is in a directory; with the automatic name a bare   *)
(* name, and no other, goes to the root directory.                         *)
THEOREM RewritingKeepsDirectory == ParseSpec => []KeepsPlace
<1>1. ParseInit => PlaceInv
  BY DEF ParseInit, PlaceInv, KeepsPlace
<1>2. TypeInv /\ PlaceInv /\ [ParseNext]_parseVars => PlaceInv'
  BY NextKeepsPlace
<1>3. PlaceInv => KeepsPlace
  BY DEF PlaceInv
<1> QED
  BY <1>1, <1>2, <1>3, TypesHold, PTL DEF ParseSpec

-----------------------------------------------------------------------------
(* Module Resample.                                                        *)

(* x is a left sample, the first one at or after the k-th frame's source.  *)
Near(x, k) ==
  /\ x % 2 = 0
  /\ SourceOf(2 * (k - 1), d) <= x
  /\ x <= SourceOf(2 * (k - 1), d) + 1

Timely == \A k \in DOMAIN taken : Near(taken[k], k)

LoopState ==
  /\ pc = "call" => taken = <<>>
  /\ pc # "call" => new_sample = NewCount(count, d) /\ d[1] > 0
  /\ i = 2 * Len(taken)
  /\ i <= new_sample
  /\ pc = "done" => i >= new_sample
  /\ oidx = IF Len(taken) = 0 THEN 0 ELSE taken[Len(taken)]

IInv == TypeOK /\ LoopState /\ Timely

-----------------------------------------------------------------------------

LEMMA CopyFrameKeepsIInv ==
  ASSUME IInv, CopyFrame
  PROVE  IInv'
<1>1. /\ i \in Nat /\ new_sample \in Nat /\ count \in Nat /\ d \in Speed /\ d[1] > 0
      /\ taken \in Seq(Nat) /\ oidx \in Nat
      /\ i = 2 * Len(taken) /\ i < new_sample /\ new_sample = NewCount(count, d)
      /\ pc = "loop"
  BY DEF IInv, TypeOK, LoopState, CopyFrame
<1> DEFINE n == Len(taken)
<1>2. n \in Nat /\ DOMAIN taken = 1 .. n
  BY <1>1, LenProperties
<1>3. i + 2 <= new_sample
  <2>1. new_sample % 2 = 0
    BY <1>1, NewCountBounds
  <2> HIDE DEF n
  <2> QED
    BY <1>1, <1>2, <2>1 DEF n
<1>4. oidx % 2 = 0 /\ oidx <= SourceOf(i, d) + 1 /\ SourceOf(i, d) \in Nat
  <2>1. CASE n = 0
    <3>1. oidx = 0
      BY <2>1 DEF IInv, LoopState
    <3>2. SourceOf(i, d) \in Nat
      BY <1>1, SourceMonotone
    <3> QED
      BY <3>1, <3>2
  <2>2. CASE n > 0
    <3>1. oidx = taken[n] /\ Near(taken[n], n)
      BY <1>2, <2>2 DEF IInv, LoopState, Timely
    <3>2. 2 * (n - 1) \in Nat /\ 2 * (n - 1) <= i
      BY <1>1, <1>2, <2>2
    <3>3. /\ SourceOf(2 * (n - 1), d) \in Nat
          /\ SourceOf(i, d) \in Nat
          /\ SourceOf(2 * (n - 1), d) <= SourceOf(i, d)
      BY <1>1, <3>2, SourceMonotone
    <3> HIDE DEF n
    <3> QED
      BY <1>1, <3>1, <3>3 DEF Near
  <2> QED
    BY <1>2, <2>1, <2>2
<1>5. /\ oidx' \in Nat /\ oidx' % 2 = 0
      /\ SourceOf(i, d) <= oidx' /\ oidx' <= SourceOf(i, d) + 1
  BY <1>1, <1>4, AdvancedLands DEF CopyFrame
<1>6. /\ taken' \in Seq(Nat)
      /\ Len(taken') = n + 1
      /\ DOMAIN taken' = 1 .. n + 1
      /\ \A k \in 1 .. n : taken'[k] = taken[k]
      /\ taken'[n + 1] = oidx'
  <2>1. taken' = Append(taken, oidx')
    BY DEF CopyFrame
  <2> QED
    BY <1>1, <1>5, <2>1, AppendProperties, LenProperties
<1>7. TypeOK'
  BY <1>1, <1>3, <1>5, <1>6 DEF IInv, TypeOK, CopyFrame
<1>8. LoopState'
  <2>1. /\ i' = i + 2 /\ d' = d /\ count' = count /\ new_sample' = new_sample /\ pc' = "loop"
    BY <1>1 DEF CopyFrame
  <2>2. i' = 2 * Len(taken') /\ Len(taken') # 0
    BY <1>1, <1>2, <1>6, <2>1
  <2>3. oidx' = taken'[Len(taken')]
    BY <1>6
  <2> QED
    BY <1>1, <1>3, <2>1, <2>2, <2>3 DEF LoopState
<1>9. Timely'
  <2>1. d' = d
    BY DEF CopyFrame
  <2>2. \A k \in 1 .. n : Near(taken[k], k)
    BY <1>2 DEF IInv, Timely
  <2>3. 2 * ((n + 1) - 1) = i
    BY <1>1, <1>2
  <2>4. \A k \in 1 .. n + 1 : Near(taken'[k], k)
    <3> SUFFICES ASSUME NEW k \in 1 .. n + 1
                 PROVE  Near(taken'[k], k)
      OBVIOUS
    <3>1. CASE k \in 1 .. n
      BY <1>6, <2>2, <3>1
    <3>2. CASE k = n + 1
      BY <1>5, <1>6, <2>3, <3>2 DEF Near
    <3> QED
      BY <1>2, <3>1, <3>2
  <2> QED
    BY <1>6, <2>1, <2>4 DEF Timely, Near
<1> QED
  BY <1>7, <1>8, <1>9 DEF IInv

LEMMA IInvHolds == Spec => []IInv
<1>1. Init => IInv
  <2> SUFFICES ASSUME Init PROVE IInv
    OBVIOUS
  <2>1. Len(taken) = 0 /\ DOMAIN taken = {} /\ taken \in Seq(Nat)
    BY EmptySeq DEF Init
  <2> QED
    BY <2>1, MaxCountAssumption, RatesAssumption
       DEF Init, IInv, TypeOK, LoopState, Timely
<1>2. IInv /\ [Next]_vars => IInv'
  <2> SUFFICES ASSUME IInv, [Next]_vars PROVE IInv'
    OBVIOUS
  <2>1. CASE Prepare
    <3>1. taken = <<>> /\ Len(taken) = 0 /\ DOMAIN taken = {} /\ i = 0 /\ oidx = 0
      BY <2>1, EmptySeq DEF Prepare, IInv, LoopState
    <3>2. d' \in Speed /\ d'[1] > 0
      BY <2>1, ClampedPositive DEF Prepare, IInv, TypeOK
    <3>3. new_sample' \in Nat
      BY <2>1, <3>2, NewCountBounds DEF Prepare, IInv, TypeOK
    <3> QED
      BY <2>1, <3>1, <3>2, <3>3 DEF Prepare, IInv, TypeOK, LoopState, Timely
  <2>2. CASE CopyFrame
    BY <2>2, CopyFrameKeepsIInv
  <2>3. CASE Finish
    BY <2>3 DEF Finish, IInv, TypeOK, LoopState, Timely, Near
  <2>4. CASE UNCHANGED vars
    BY <2>4 DEF vars, IInv, TypeOK, LoopState, Timely, Near
  <2> QED
    BY <2>1, <2>2, <2>3, <2>4 DEF Next
<1> QED
  BY <1>1, <1>2, PTL DEF Spec

-----------------------------------------------------------------------------
(* Every variable of the loop keeps its type, and the new list never       *)
(* outgrows the buffer allocated for it (audio.cpp:123-126).               *)
THEOREM TypesAndBufferSize == Spec => []TypeOK
<1>1. IInv => TypeOK
  BY DEF IInv
<1> QED
  BY <1>1, IInvHolds, PTL

(* Channels are never mixed up and the rounding of positions does not      *)
(* accumulate, for any list and any speed (audio.cpp:132-136).             *)
THEOREM FramesAreOnTime == Spec => []OnTime
<1>1. IInv => OnTime
  <2> SUFFICES ASSUME IInv, NEW k \in DOMAIN taken
               PROVE  LET ideal == 2 * (k - 1) * d[1]
                      IN  /\ taken[k] % 2 = 0
                          /\ ideal - d[2] < taken[k] * d[2]
                          /\ taken[k] * d[2] <= ideal + d[2]
    BY DEF OnTime
  <2> DEFINE a == d[1]
             b == d[2]
             j == 2 * (k - 1)
             q == (j * a) \div b
             x == taken[k]
  <2>1. a \in Nat /\ b \in Nat \ {0}
    BY DEF IInv, TypeOK, Speed
  <2>2. k \in Nat \ {0} /\ x \in Nat
    BY LenProperties, ElementOfSeq DEF IInv, TypeOK
  <2>3. x % 2 = 0 /\ q <= x /\ x <= q + 1
    BY DEF IInv, Timely, Near, SourceOf
  <2> HIDE DEF a, b, x
  <2>4. j \in Nat
    BY <2>2
  <2> HIDE DEF j
  <2>5. j * a \in Nat
    BY <2>1, <2>4, Monotone
  <2>6. q \in Nat /\ q * b <= j * a /\ j * a < q * b + b
    BY <2>1, <2>5, Quotient
  <2> HIDE DEF q
  <2>7. /\ q * b \in Int /\ x * b \in Int /\ (q + 1) * b = q * b + b
        /\ q * b <= x * b /\ x * b <= (q + 1) * b
    <3>1. q + 1 \in Int /\ (q + 1) * b = q * b + b
      BY <2>1, <2>6
    <3> QED
      BY <2>1, <2>2, <2>3, <2>6, <3>1, Monotone
  <2>8. j * a - b < x * b /\ x * b <= j * a + b
    BY <2>1, <2>5, <2>6, <2>7
  <2> QED
    BY <2>3, <2>8 DEF a, b, j, x
<1> QED
  BY <1>1, IInvHolds, PTL

(* Whole frames, and as long as the speed asks for.                        *)
THEOREM LengthIsScaled == Spec => []LengthScaled
<1>1. IInv => LengthScaled
  <2> SUFFICES ASSUME IInv, pc = "done" PROVE LengthScaled
    BY DEF LengthScaled
  <2>1. /\ count \in Nat /\ d \in Speed /\ d[1] > 0 /\ new_sample = NewCount(count, d)
        /\ i = 2 * Len(taken) /\ i = new_sample
    <3>1. i \in Nat /\ new_sample \in Nat /\ i <= new_sample /\ i >= new_sample
      BY DEF IInv, TypeOK, LoopState
    <3> QED
      BY <3>1 DEF IInv, TypeOK, LoopState
  <2>2. new_sample * d[1] <= count * d[2] /\ count * d[2] < (new_sample + 2) * d[1]
    BY <2>1, NewCountBounds
  <2> QED
    BY <2>1, <2>2 DEF LengthScaled
<1> QED
  BY <1>1, IInvHolds, PTL

(* At every speed that stays inside the list (module Rate: from 1 on, and  *)
(* above 1/2 if the list holds whole frames) every position the loop reads *)
(* holds a sample (audio.cpp:135-136).                                     *)
THEOREM ReadsStayInRange == Spec => []ReadsInRange
<1>1. IInv => ReadsInRange
  <2> SUFFICES ASSUME IInv, pc # "call", StaysInList(count, d), NEW k \in DOMAIN taken
               PROVE  taken[k] + 1 < count
    BY DEF ReadsInRange
  <2>1. /\ count \in Nat /\ d \in Speed /\ d[1] > 0 /\ new_sample = NewCount(count, d)
        /\ i = 2 * Len(taken) /\ i <= new_sample
    BY DEF IInv, TypeOK, LoopState
  <2>2. k \in Nat \ {0} /\ k <= Len(taken) /\ Len(taken) \in Nat /\ taken[k] \in Nat
    BY LenProperties, ElementOfSeq DEF IInv, TypeOK
  <2>3. PICK j \in Nat : j = 2 * (k - 1)
    BY <2>2
  <2>4. j % 2 = 0 /\ j + 2 <= NewCount(count, d)
    <3>1. NewCount(count, d) \in Nat
      BY <2>1, NewCountBounds
    <3> QED
      BY <2>1, <2>2, <2>3, <3>1
  <2>5. taken[k] % 2 = 0 /\ SourceOf(j, d) <= taken[k] /\ taken[k] <= SourceOf(j, d) + 1
    BY <2>3 DEF IInv, Timely, Near
  <2> QED
    BY <2>1, <2>2, <2>4, <2>5, FrameInList
<1> QED
  BY <1>1, IInvHolds, PTL
=============================================================================
