------------------------------ MODULE NatFacts ------------------------------
(***************************************************************************)
(* Induction on the natural numbers, stated over a set instead of a        *)
(* predicate, so that a proof can cite it; and what follows from it about  *)
(* the loops of the program that look for a maximum, or add something up;  *)
(* and products and whole quotients of integers, by which the program      *)
(* computes positions and lengths, those of a resampled list (module Rate) *)
(* in particular.                                                          *)
(***************************************************************************)
EXTENDS Rate, Sums, WellFoundedInduction, TLAPS

(* Every non-empty set of natural numbers has a least element.             *)
LEMMA LeastNatural ==
  ASSUME NEW T, T \subseteq Nat, T # {}
  PROVE  \E x \in T : \A y \in T : x <= y
<1> DEFINE R == OpToRel(<, Nat)
<1>1. R = {ss \in Nat \X Nat : ss[1] < ss[2]}
  BY Zenon DEF OpToRel
<1>2. IsWellFoundedOn(R, Nat)
  BY NatLessThanWellFounded, Zenon
<1> HIDE DEF R
<1>3. PICK x \in T : \A y \in T : ~(<<y, x>> \in R)
  BY <1>2, WFMin
<1>4. \A y \in T : ~(y < x)
  BY <1>1, <1>3
<1> QED
  BY <1>4

(* A set that holds 0, and n + 1 with every n, holds every natural number. *)
LEMMA InductionOverSet ==
  ASSUME NEW S, 0 \in S, \A n \in Nat : n \in S => n + 1 \in S
  PROVE  \A n \in Nat : n \in S
<1> SUFFICES ASSUME Nat \ S # {} PROVE FALSE
  OBVIOUS
<1>1. PICK m \in Nat \ S : \A k \in Nat \ S : m <= k
  BY LeastNatural
<1>2. m # 0 /\ m - 1 \in Nat /\ m - 1 \in S
  BY <1>1
<1>3. (m - 1) + 1 \in S
  BY <1>2
<1> QED
  BY <1>1, <1>3

(* Among f[0] .. f[N - 1] one is the greatest.                             *)
LEMMA GreatestOfMany ==
  ASSUME NEW N \in Nat \ {0}, NEW f \in [0 .. N - 1 -> Int]
  PROVE  \E k \in 0 .. N - 1 : \A c \in 0 .. N - 1 : f[c] <= f[k]
<1> DEFINE S == {n \in Nat : n < N =>
                   \E k \in 0 .. n : \A c \in 0 .. n : f[c] <= f[k]}
<1>1. 0 \in S
  OBVIOUS
<1>2. ASSUME NEW n \in Nat, n \in S PROVE n + 1 \in S
  <2> SUFFICES ASSUME n + 1 < N
               PROVE  \E k \in 0 .. n + 1 : \A c \in 0 .. n + 1 : f[c] <= f[k]
    OBVIOUS
  <2>1. PICK k \in 0 .. n : \A c \in 0 .. n : f[c] <= f[k]
    BY <1>2
  <2>2. CASE f[n + 1] <= f[k]
    <3>1. \A c \in 0 .. n + 1 : f[c] <= f[k]
      BY <2>1, <2>2
    <3> QED
      BY <3>1
  <2>3. CASE f[k] < f[n + 1]
    <3>1. \A c \in 0 .. n + 1 : f[c] <= f[n + 1]
      BY <2>1, <2>3
    <3> QED
      BY <3>1
  <2>4. f[k] \in Int /\ f[n + 1] \in Int
    OBVIOUS
  <2> QED
    BY <2>2, <2>3, <2>4
<1> HIDE DEF S
<1>3. N - 1 \in S
  BY <1>1, <1>2, InductionOverSet
<1> QED
  BY <1>3 DEF S

-----------------------------------------------------------------------------
(* Integer arithmetic, in the pieces the provers can use.                  *)

(* `x div y' is the greatest q with q * y <= x.                            *)
LEMMA Quotient ==
  ASSUME NEW x \in Nat, NEW y \in Nat \ {0}
  PROVE  /\ x \div y \in Nat
         /\ (x \div y) * y <= x
         /\ x < (x \div y) * y + y
OBVIOUS

LEMMA ProductInNat ==
  ASSUME NEW x \in Nat, NEW y \in Nat
  PROVE  x * y \in Nat
OBVIOUS

LEMMA Monotone ==
  ASSUME NEW x \in Int, NEW y \in Int, NEW z \in Nat
  PROVE  /\ x * z \in Int /\ y * z \in Int
         /\ x <= y => x * z <= y * z
OBVIOUS

LEMMA Distribute ==
  ASSUME NEW x \in Int, NEW y \in Int, NEW z \in Int
  PROVE  (x + y) * z = x * z + y * z
OBVIOUS

LEMMA DistributeMinus ==
  ASSUME NEW x \in Int, NEW y \in Int, NEW z \in Int
  PROVE  (x - y) * z = x * z - y * z
OBVIOUS

LEMMA Cancel ==
  ASSUME NEW x \in Int, NEW y \in Int, NEW z \in Nat \ {0}, x * z < y * z
  PROVE  x < y
OBVIOUS

LEMMA QuotientMonotone ==
  ASSUME NEW x \in Nat, NEW y \in Nat, NEW z \in Nat \ {0}, x <= y
  PROVE  x \div z <= y \div z
<1>1. /\ x \div z \in Nat /\ (x \div z) * z <= x
      /\ y \div z \in Nat /\ y < (y \div z) * z + z
  BY Quotient
<1>2. (y \div z) * z + z = (y \div z + 1) * z
  BY <1>1, Distribute
<1>3. (x \div z) * z < (y \div z + 1) * z
  BY <1>1, <1>2
<1> QED
  BY <1>1, <1>3, Cancel

-----------------------------------------------------------------------------
(* Sums.  `u' holds the sums of the first 0, 1, ... N elements of `v'.       *)
IsUpTo(u, v, N) ==
  u = [n \in 0 .. N |-> IF n = 0 THEN 0 ELSE u[n - 1] + v[n - 1]]

(* There is such a `u': by induction on N.                                  *)
LEMMA PartialSumsExist ==
  ASSUME NEW N \in Nat, NEW v, \A n \in 0 .. N - 1 : v[n] \in Int
  PROVE  \E u \in [0 .. N -> Int] : IsUpTo(u, v, N)
<1> DEFINE S == {m \in Nat : m <= N => \E u \in [0 .. m -> Int] : IsUpTo(u, v, m)}
<1>1. 0 \in S
  <2>1. [n \in 0 .. 0 |-> 0] \in [0 .. 0 -> Int]
    OBVIOUS
  <2>2. IsUpTo([n \in 0 .. 0 |-> 0], v, 0)
    BY DEF IsUpTo
  <2> QED
    BY <2>1, <2>2
<1>2. ASSUME NEW m \in Nat, m \in S PROVE m + 1 \in S
  <2> SUFFICES ASSUME m + 1 <= N
               PROVE  \E u \in [0 .. m + 1 -> Int] : IsUpTo(u, v, m + 1)
    OBVIOUS
  <2>1. PICK u \in [0 .. m -> Int] : IsUpTo(u, v, m)
    BY <1>2
  <2> DEFINE w == [n \in 0 .. m + 1 |-> IF n = m + 1 THEN u[m] + v[m] ELSE u[n]]
  <2>2. w \in [0 .. m + 1 -> Int]
    BY <1>2
  <2>3. \A n \in 0 .. m : u[n] = IF n = 0 THEN 0 ELSE u[n - 1] + v[n - 1]
    BY <2>1 DEF IsUpTo
  <2>4. \A n \in 0 .. m + 1 : w[n] = IF n = 0 THEN 0 ELSE w[n - 1] + v[n - 1]
    BY <2>3
  <2>5. IsUpTo(w, v, m + 1)
    BY <2>2, <2>4 DEF IsUpTo
  <2> QED
    BY <2>2, <2>5
<1> HIDE DEF S
<1>3. N \in S
  BY <1>1, <1>2, InductionOverSet
<1> QED
  BY <1>3 DEF S

(* And only one, as far as two of them reach.                              *)
LEMMA PartialSumsUnique ==
  ASSUME NEW N \in Nat, NEW v, NEW u, NEW w, IsUpTo(u, v, N), 
         NEW M \in Nat, M <= N, IsUpTo(w, v, M)
  PROVE  \A n \in 0 .. M : u[n] = w[n]
<1> DEFINE S == {n \in Nat : n <= M => u[n] = w[n]}
<1>0. /\ \A n \in 0 .. M : u[n] = IF n = 0 THEN 0 ELSE u[n - 1] + v[n - 1]
      /\ \A n \in 0 .. M : w[n] = IF n = 0 THEN 0 ELSE w[n - 1] + v[n - 1]
  BY DEF IsUpTo
<1>1. 0 \in S
  BY <1>0
<1>2. ASSUME NEW m \in Nat, m \in S PROVE m + 1 \in S
  <2> SUFFICES ASSUME m + 1 <= M
               PROVE  u[m + 1] = w[m + 1]
    OBVIOUS
  <2>1. u[m] = w[m] /\ (m + 1) - 1 = m
    BY <1>2
  <2> QED
    BY <1>0, <2>1
<1> HIDE DEF S
<1>3. \A n \in Nat : n \in S
  BY <1>1, <1>2, InductionOverSet
<1> QED
  BY <1>3 DEF S

(* So the recursive function of module Sums is what its equation says.     *)
LEMMA SumIsPartial == 
  ASSUME NEW N \in Nat, NEW v, \A n \in 0 .. N - 1 : v[n] \in Int
  PROVE  \E u \in [0 .. N -> Int] : IsUpTo(u, v, N) /\ SumUpTo(v, N) = u[N]
<1>1. SumUpTo(v, N) = (CHOOSE u : IsUpTo(u, v, N))[N]
  BY Zenon DEF SumUpTo, IsUpTo
<1>2. PICK u \in [0 .. N -> Int] : IsUpTo(u, v, N)
  BY PartialSumsExist
<1>3. IsUpTo(CHOOSE w : IsUpTo(w, v, N), v, N)
  BY <1>2, Zenon
<1> DEFINE w == CHOOSE w : IsUpTo(w, v, N)
<1> HIDE DEF w
<1>4. \A n \in 0 .. N : u[n] = w[n]
  BY <1>2, <1>3, PartialSumsUnique DEF w
<1> QED
  BY <1>1, <1>2, <1>4 DEF w

(* The sum of no number; of one number more; of numbers that are the same. *)
LEMMA SumOfNone ==
  ASSUME NEW v
  PROVE  SumUpTo(v, 0) = 0
<1>1. PICK u \in [0 .. 0 -> Int] : IsUpTo(u, v, 0) /\ SumUpTo(v, 0) = u[0]
  <2>1. \A n \in 0 .. 0 - 1 : v[n] \in Int
    OBVIOUS
  <2> QED
    BY <2>1, SumIsPartial, Zenon
<1> QED
  BY <1>1 DEF IsUpTo

LEMMA SumOfOneMore ==
  ASSUME NEW N \in Nat, NEW v, \A n \in 0 .. N : v[n] \in Int
  PROVE  /\ SumUpTo(v, N) \in Int
         /\ SumUpTo(v, N + 1) = SumUpTo(v, N) + v[N]
<1>1. PICK u \in [0 .. N -> Int] : IsUpTo(u, v, N) /\ SumUpTo(v, N) = u[N]
  BY SumIsPartial
<1>2. PICK w \in [0 .. N + 1 -> Int] : IsUpTo(w, v, N + 1) /\ SumUpTo(v, N + 1) = w[N + 1]
  <2>1. N + 1 \in Nat /\ \A n \in 0 .. (N + 1) - 1 : v[n] \in Int
    OBVIOUS
  <2> QED
    BY <2>1, SumIsPartial, Zenon
<1>3. w[N] = u[N]
  BY <1>1, <1>2, PartialSumsUnique
<1>4. w[N + 1] = w[N] + v[N]
  BY <1>2 DEF IsUpTo
<1> QED
  BY <1>1, <1>2, <1>3, <1>4

LEMMA SumsAgree ==
  ASSUME NEW N \in Nat, NEW v, NEW w, \A n \in 0 .. N - 1 : v[n] \in Int /\ v[n] = w[n]
  PROVE  SumUpTo(v, N) = SumUpTo(w, N)
<1>1. PICK u \in [0 .. N -> Int] : IsUpTo(u, v, N) /\ SumUpTo(v, N) = u[N]
  BY SumIsPartial
<1>2. PICK x \in [0 .. N -> Int] : IsUpTo(x, w, N) /\ SumUpTo(w, N) = x[N]
  <2>1. \A n \in 0 .. N - 1 : w[n] \in Int
    OBVIOUS
  <2> QED
    BY <2>1, SumIsPartial
<1>3. \A n \in 1 .. N : n - 1 \in 0 .. N - 1
  OBVIOUS
<1>4. IsUpTo(x, v, N)
  BY <1>2, <1>3 DEF IsUpTo
<1>5. u[N] = x[N]
  BY <1>1, <1>4, PartialSumsUnique
<1> QED
  BY <1>1, <1>2, <1>5

(* Terms that are 0 add nothing.                                           *)
LEMMA SumOfZeros ==
  ASSUME NEW N \in Nat, NEW M \in Nat, N <= M, NEW v,
         \A n \in 0 .. M - 1 : v[n] \in Int,
         \A n \in N .. M - 1 : v[n] = 0
  PROVE  SumUpTo(v, M) = SumUpTo(v, N)
<1> DEFINE S == {k \in Nat : N + k <= M => SumUpTo(v, N + k) = SumUpTo(v, N)}
<1>1. 0 \in S
  OBVIOUS
<1>2. ASSUME NEW k \in Nat, k \in S
      PROVE  k + 1 \in S
  <2> SUFFICES ASSUME N + (k + 1) <= M
               PROVE  SumUpTo(v, N + (k + 1)) = SumUpTo(v, N)
    OBVIOUS
  <2>1. PICK m \in Nat : m = N + k
    OBVIOUS
  <2>2. m \in N .. M - 1 /\ N + (k + 1) = m + 1 /\ \A n \in 0 .. m : v[n] \in Int
    BY <2>1
  <2>3. SumUpTo(v, m) \in Int /\ SumUpTo(v, m + 1) = SumUpTo(v, m) + v[m]
    BY <2>2, SumOfOneMore
  <2>4. SumUpTo(v, m) = SumUpTo(v, N) /\ v[m] = 0
    BY <1>2, <2>1, <2>2
  <2> QED
    BY <2>2, <2>3, <2>4
<1> HIDE DEF S
<1>3. \A k \in Nat : k \in S
  BY <1>1, <1>2, InductionOverSet
<1>4. M - N \in Nat /\ N + (M - N) = M
  OBVIOUS
<1>5. M - N \in S
  BY <1>3, <1>4
<1> QED
  BY <1>4, <1>5 DEF S

-----------------------------------------------------------------------------
(* Positions and lengths of a resampled list (module Rate).               *)

(* Where the inner loop stops, coming from at most one sample too far.     *)
LEMMA AdvancedLands ==
  ASSUME NEW o \in Nat, NEW n \in Nat, o % 2 = 0, o <= n + 1
  PROVE  LET a == Advanced(o, n)
         IN  a \in Nat /\ a % 2 = 0 /\ n <= a /\ a <= n + 1
BY DEF Advanced

(* Later frames come from later positions.                                 *)
LEMMA SourceMonotone ==
  ASSUME NEW j \in Nat, NEW k \in Nat, NEW e \in Speed, j <= k
  PROVE  SourceOf(j, e) \in Nat /\ SourceOf(k, e) \in Nat
         /\ SourceOf(j, e) <= SourceOf(k, e)
<1> DEFINE a == e[1]
           b == e[2]
<1>1. a \in Nat /\ b \in Nat \ {0}
  BY DEF Speed
<1> HIDE DEF a, b
<1>2. j * a \in Nat /\ k * a \in Nat /\ j * a <= k * a
  BY <1>1, Monotone
<1> DEFINE q == (j * a) \div b
           r == (k * a) \div b
<1>3. /\ q \in Nat /\ q * b <= j * a
      /\ r \in Nat /\ k * a < r * b + b
  BY <1>1, <1>2, Quotient
<1> HIDE DEF q, r
<1>4. (r + 1) * b = r * b + b /\ q * b \in Int /\ r * b \in Int
  BY <1>1, <1>3
<1>5. q * b < (r + 1) * b
  BY <1>1, <1>2, <1>3, <1>4
<1>6. q < r + 1
  BY <1>1, <1>3, <1>5, Cancel
<1> QED
  BY <1>3, <1>6 DEF SourceOf, a, b, q, r

(* The size of the new list, up to the division's remainder.               *)
LEMMA NewCountBounds ==
  ASSUME NEW n \in Nat, NEW e \in Speed, e[1] > 0
  PROVE  LET m == NewCount(n, e)
         IN  /\ m \in Nat
             /\ m % 2 = 0
             /\ m * e[1] <= n * e[2]
             /\ n * e[2] < (m + 2) * e[1]
<1> DEFINE a == e[1]
           b == e[2]
           q == (n * b) \div (2 * a)
<1>1. a \in Nat \ {0} /\ b \in Nat \ {0}
  BY DEF Speed
<1> HIDE DEF a, b
<1>2. n * b \in Nat /\ 2 * a \in Nat \ {0}
  BY <1>1, Monotone
<1>3. q \in Nat /\ q * (2 * a) <= n * b /\ n * b < q * (2 * a) + 2 * a
  BY <1>2, Quotient
<1> HIDE DEF q
<1>4. (2 * q) * a = q * (2 * a) /\ (2 * q + 2) * a = q * (2 * a) + 2 * a
  BY <1>1, <1>3
<1>5. NewCount(n, e) = 2 * q
  BY DEF NewCount, q, a, b
<1>6. (2 * q) * a <= n * b /\ n * b < (2 * q + 2) * a
  BY <1>3, <1>4
<1>7. 2 * q \in Nat /\ (2 * q) % 2 = 0
  BY <1>3
<1> QED
  BY <1>5, <1>6, <1>7 DEF a, b

(* The clamped speed is positive.                                          *)
LEMMA ClampedPositive ==
  ASSUME NEW e \in Speed
  PROVE  Clamped(e) \in Speed /\ Clamped(e)[1] > 0
<1>1. CASE Faster(<<1, 10>>, e)
  BY <1>1 DEF Clamped, Speed
<1>2. CASE ~Faster(<<1, 10>>, e)
  <2>1. e \in Nat \X (Nat \ {0})
    BY DEF Speed
  <2>2. e[1] \in Nat /\ e[2] \in Nat \ {0}
    BY <2>1
  <2>3. e[1] # 0
    BY <1>2, <2>2 DEF Faster
  <2> QED
    BY <1>2, <2>2, <2>3 DEF Clamped
<1> QED
  BY <1>1, <1>2

(* The source of position j of a list stretched by a / b, bounded by a     *)
(* bound on j * a.                                                         *)
LEMMA SourceBelow ==
  ASSUME NEW j \in Nat, NEW e \in Speed, NEW m \in Int, j * e[1] < m * e[2]
  PROVE  SourceOf(j, e) \in Nat /\ SourceOf(j, e) < m
<1> DEFINE a == e[1]
           b == e[2]
           q == (j * a) \div b
<1>1. a \in Nat /\ b \in Nat \ {0} /\ j * a < m * b
  BY DEF Speed
<1> HIDE DEF a, b
<1>2. j * a \in Nat
  BY <1>1, Monotone
<1>3. q \in Nat /\ q * b <= j * a
  BY <1>1, <1>2, Quotient
<1> HIDE DEF q
<1>4. q * b < m * b
  <2>1. q * b \in Int /\ m * b \in Int
    BY <1>1, <1>3, Monotone
  <2> QED
    BY <1>1, <1>2, <1>3, <2>1
<1>5. q < m
  BY <1>1, <1>3, <1>4, Cancel
<1> QED
  BY <1>3, <1>5 DEF SourceOf, a, b, q

(* The loop of ChangeRate reads positions that hold a sample: x and x + 1, *)
(* where x is the left sample at or after the source of position j, in a   *)
(* list of n samples, at a speed that stays inside it.                     *)
LEMMA FrameInList ==
  ASSUME NEW n \in Nat, NEW e \in Speed, e[1] > 0,
         NEW j \in Nat, j % 2 = 0, j + 2 <= NewCount(n, e),
         NEW x \in Nat, x % 2 = 0, SourceOf(j, e) <= x, x <= SourceOf(j, e) + 1,
         StaysInList(n, e)
  PROVE  x + 1 < n
<1> DEFINE a == e[1]
           b == e[2]
           c == NewCount(n, e)
<1>1. /\ a \in Nat \ {0} /\ b \in Nat \ {0} /\ n \in Nat /\ e \in Speed
      /\ a = e[1] /\ b = e[2]
  BY DEF Speed
<1>2. x \in Nat
  OBVIOUS
<1>3. x % 2 = 0 /\ SourceOf(j, e) <= x /\ x <= SourceOf(j, e) + 1
  OBVIOUS
<1>4. j \in Nat /\ j % 2 = 0
  OBVIOUS
<1>5. c \in Nat /\ j + 2 <= c /\ c * a <= n * b
  BY NewCountBounds
<1>6. \/ a >= b
      \/ 2 * a > b /\ n % 2 = 0
  BY <1>1 DEF StaysInList, Faster
<1> HIDE DEF a, b, c
<1>7. /\ j * a \in Nat /\ (j + 2) * a = j * a + 2 * a /\ (j + 2) * a <= n * b
      /\ n * b \in Nat
  <2>1. (j + 2) * a <= c * a /\ (j + 2) * a \in Int /\ c * a \in Int
    <3>1. j + 2 \in Int
      BY <1>4
    <3> QED
      BY <1>1, <1>5, <3>1, Monotone
  <2>2. j * a \in Nat /\ n * b \in Nat
    BY <1>1, <1>4, ProductInNat
  <2>3. (j + 2) * a = j * a + 2 * a
    <3>1. j \in Int /\ a \in Int
      BY <1>1, <1>4
    <3> QED
      BY <3>1, Distribute
  <2> QED
    BY <1>5, <2>1, <2>2, <2>3
<1>8. ASSUME a = b PROVE x + 1 < n
  <2>1. j + 2 <= n
    <3>1. \/ j + 2 <= n
          \/ n < j + 2
      BY <1>1, <1>4
    <3>2. ASSUME n < j + 2 PROVE FALSE
      <4>1. n + 1 <= j + 2
        BY <1>1, <1>4, <3>2
      <4>2. (n + 1) * b <= (j + 2) * b /\ (n + 1) * b = n * b + b
        BY <1>1, <1>4, <4>1, Monotone
      <4> QED
        BY <1>1, <1>7, <1>8, <4>2
    <3> QED
      BY <3>1, <3>2
  <2>2. SourceOf(j, e) = j
    <3>1. j * a < (j + 1) * b
      BY <1>1, <1>4, <1>8
    <3>2. SourceOf(j, e) \in Nat /\ SourceOf(j, e) < j + 1
      BY <1>1, <1>4, <3>1, SourceBelow
    <3>3. j * b < (SourceOf(j, e) + 1) * b
      <4>1. SourceOf(j, e) = (j * a) \div b
        BY <1>1 DEF SourceOf
      <4>2. j * a < SourceOf(j, e) * b + b
        BY <1>1, <1>7, <4>1, Quotient
      <4> QED
        BY <1>1, <1>8, <3>2, <4>2
    <3>4. j < SourceOf(j, e) + 1
      BY <1>1, <1>4, <3>2, <3>3, Cancel
    <3> QED
      BY <1>4, <3>2, <3>4
  <2> QED
    BY <1>1, <1>2, <1>3, <1>4, <2>1, <2>2
<1>9. ASSUME a > b PROVE x + 1 < n
  <2>1. j * a < (n - 2) * b
    <3>1. (n - 2) * b = n * b - 2 * b
      <4>1. n \in Int /\ 2 \in Int /\ b \in Int
        BY <1>1
      <4> QED
        BY <4>1, DistributeMinus, Zenon
    <3> QED
      BY <1>1, <1>7, <1>9, <3>1
  <2>2. SourceOf(j, e) \in Nat /\ SourceOf(j, e) < n - 2
    BY <1>1, <1>4, <2>1, SourceBelow
  <2> QED
    BY <1>1, <1>2, <1>3, <2>2
<1>10. ASSUME 2 * a > b, n % 2 = 0 PROVE x + 1 < n
  <2>1. j * a < (n - 1) * b
    <3>1. (n - 1) * b = n * b - 1 * b
      <4>1. n \in Int /\ 1 \in Int /\ b \in Int
        BY <1>1
      <4> QED
        BY <4>1, DistributeMinus, Zenon
    <3> QED
      BY <1>1, <1>7, <1>10, <3>1
  <2>2. SourceOf(j, e) \in Nat /\ SourceOf(j, e) < n - 1
    BY <1>1, <1>4, <2>1, SourceBelow
  <2> QED
    BY <1>1, <1>2, <1>3, <1>10, <2>2
<1>11. x + 1 < n
  BY <1>1, <1>6, <1>8, <1>9, <1>10
<1> QED
  BY <1>11

(* FrameOf is the only left sample that near to the source.                *)
LEMMA FrameIsNear ==
  ASSUME NEW k \in Nat, NEW e \in Speed, NEW x \in Nat
  PROVE  /\ SourceOf(2 * k, e) \in Nat
         /\ FrameOf(k, e) \in Nat
         /\ x = FrameOf(k, e) <=> /\ x % 2 = 0
                                 /\ SourceOf(2 * k, e) <= x
                                 /\ x <= SourceOf(2 * k, e) + 1
<1> DEFINE s == SourceOf(2 * k, e)
<1>1. s \in Nat
  BY SourceMonotone
<1>2. FrameOf(k, e) = 2 * ((s + 1) \div 2)
  BY DEF FrameOf
<1> HIDE DEF s
<1>3. /\ 2 * ((s + 1) \div 2) \in Nat
      /\ x = 2 * ((s + 1) \div 2) <=> x % 2 = 0 /\ s <= x /\ x <= s + 1
  BY <1>1
<1> QED
  BY <1>1, <1>2, <1>3 DEF s

(* The two samples of a frame of the new list come from the two samples of *)
(* a frame of the old one.                                                 *)
LEMMA OriginOfFrame ==
  ASSUME NEW j \in Nat, NEW e \in Speed
  PROVE  /\ j % 2 = 0 => Origin(j + 1, e) = FrameOf(j \div 2, e) + 1
         /\ j % 2 = 1 => Origin(j + 1, e) = FrameOf((j - 1) \div 2, e) + 2
<1>1. j \div 2 \in Nat /\ (j + 1) - 1 = j
  OBVIOUS
<1>2. Origin(j + 1, e) = FrameOf(j \div 2, e) + (j % 2) + 1
  BY <1>1 DEF Origin
<1>3. FrameOf(j \div 2, e) \in Nat
  BY <1>1, FrameIsNear
<1>4. j % 2 = 1 => (j - 1) \div 2 = j \div 2
  OBVIOUS
<1> QED
  BY <1>2, <1>3, <1>4

(* Where the samples of the new list come from: never from further than    *)
(* two samples behind the old one, and from the old one itself if the      *)
(* speed stays inside it.                                                  *)
LEMMA OriginInReach ==
  ASSUME NEW n \in Nat, NEW e \in Speed, e[1] > 0, NEW p \in 1 .. NewCount(n, e)
  PROVE  /\ Origin(p, e) \in 1 .. n + 2
         /\ StaysInList(n, e) => Origin(p, e) \in 1 .. n
<1>1. PICK k \in Nat : k = (p - 1) \div 2
  OBVIOUS
<1>2. PICK r \in {0, 1} : r = (p - 1) % 2
  OBVIOUS
<1>3. PICK x : x = FrameOf(k, e)
  OBVIOUS
<1>4. PICK s : s = SourceOf(2 * k, e)
  OBVIOUS
<1>5. s \in Nat /\ x \in Nat /\ x % 2 = 0 /\ s <= x /\ x <= s + 1
  BY <1>3, <1>4, FrameIsNear
<1>6. Origin(p, e) = x + r + 1
  BY <1>1, <1>2, <1>3 DEF Origin
<1>7. 2 * k \in Nat /\ (2 * k) % 2 = 0 /\ 2 * k + 2 <= NewCount(n, e)
  <2>1. PICK m \in Nat : m = NewCount(n, e) /\ m % 2 = 0
    BY NewCountBounds
  <2> QED
    BY <1>1, <2>1
<1>8. s < n
  <2> DEFINE a == e[1]
             b == e[2]
             c == NewCount(n, e)
  <2>1. a \in Nat \ {0} /\ b \in Nat \ {0}
    BY DEF Speed
  <2>2. c \in Nat /\ c * a <= n * b
    BY NewCountBounds
  <2>3. 2 * k + 2 <= c
    BY <1>7
  <2>4. a = e[1] /\ b = e[2]
    OBVIOUS
  <2> HIDE DEF a, b, c
  <2>5. (2 * k) * a < (2 * k + 2) * a /\ (2 * k + 2) * a \in Int /\ (2 * k) * a \in Int
    <3>1. (2 * k + 2) * a = (2 * k) * a + 2 * a
      BY <1>7, <2>1, Distribute
    <3>2. (2 * k) * a \in Int
      BY <1>7, <2>1, ProductInNat
    <3> QED
      BY <2>1, <3>1, <3>2
  <2>6. (2 * k + 2) * a <= c * a /\ c * a \in Int
    BY <1>7, <2>1, <2>2, <2>3, Monotone
  <2>7. n * b \in Int
    BY <2>1, ProductInNat
  <2>8. (2 * k) * a < n * b
    BY <2>2, <2>5, <2>6, <2>7
  <2> QED
    BY <1>4, <1>7, <2>4, <2>8, SourceBelow
<1>9. StaysInList(n, e) => x + 1 < n
  BY <1>4, <1>5, <1>7, FrameInList
<1> QED
  BY <1>5, <1>6, <1>8, <1>9
=============================================================================
