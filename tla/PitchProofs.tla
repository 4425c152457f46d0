----------------------------- MODULE PitchProofs -----------------------------
(***************************************************************************)
(* smbPitchShift, for frames of any size, any overlap and any number of    *)
(* calls: the frames hold the right samples and the output is whole        *)
(* (module PitchFifo); and what a frame is turned into is based on true    *)
(* frequencies, and smbFft is the Fourier transform (module Spectrum).     *)
(***************************************************************************)
EXTENDS PitchFifo, Spectrum, NatFacts, FiniteSetTheorems, SequenceTheorems, TLAPS

(* Frames are made of whole steps, and of more than one.                   *)
LEMMA StepsInFrame ==
  /\ fftFrameSize \in Nat /\ stepSize \in Nat \ {0} /\ osamp \in Nat /\ osamp > 1
  /\ fftFrameSize = osamp * stepSize
  /\ inFifoLatency \in Nat \ {0}
  /\ inFifoLatency = fftFrameSize - stepSize
  /\ stepSize <= inFifoLatency /\ inFifoLatency < fftFrameSize
<1>1. fftFrameSize \in Nat \ {0} /\ osamp \in Nat \ {0} /\ osamp > 1 /\ fftFrameSize % osamp = 0
  BY FrameAssumption
<1>2. PICK F, o, s : F = fftFrameSize /\ o = osamp /\ s = F \div o
  OBVIOUS
<1>3. s \in Nat /\ s * o <= F /\ F < s * o + o
  BY <1>1, <1>2, Quotient
<1>4. F = o * s
  BY <1>1, <1>2, <1>3
<1>5. s # 0
  BY <1>1, <1>2, <1>4
<1>6. 2 * s <= o * s
  BY <1>1, <1>2, <1>3
<1> QED
  BY <1>1, <1>2, <1>3, <1>4, <1>5, <1>6 DEF stepSize, inFifoLatency

-----------------------------------------------------------------------------
(* The invariant.                                                          *)

N == Len(frames)

(* The values of the first m frames that stand for one position.           *)
Terms(m, p) == {v \in (0 .. m - 1) \X Frame : v[2] + v[1] * stepSize = p}

TypeInv ==
  /\ gRover \in Nat /\ done \in Nat /\ n \in Nat /\ given \in Nat
  /\ gInFIFO \in [Frame -> Int]
  /\ frames \in Seq([Frame -> Int])
  /\ outdata \in Seq(SUBSET (Nat \X Frame))
  /\ gOutFIFO \in [0 .. stepSize - 1 -> SUBSET (Nat \X Frame)]
  /\ gOutputAccum \in [Accum -> SUBSET (Nat \X Frame)]

(* The write position counts the samples since the last frame.             *)
RoverInv ==
  /\ gRover = 0 \/ gRover \in inFifoLatency .. fftFrameSize - 1
  /\ done < n => gRover # 0
  /\ gRover = 0 => given = 0 /\ N = 0
  /\ gRover # 0 => given = N * stepSize + gRover - inFifoLatency
  /\ Len(outdata) = given

(* The FIFO holds the last samples, and silence before the first one.      *)
FifoInv ==
  /\ gRover = 0 => \A x \in Frame : gInFIFO[x] = Silence
  /\ \A x \in Frame : x < gRover => gInFIFO[x] = InputAt(given - gRover + x)

(* Each place of the accumulator, and of the output, holds the terms of    *)
(* the frames so far that belong to its position.                          *)
AccumInv ==
  /\ \A x \in Accum : gOutputAccum[x] = Terms(N, x + N * stepSize)
  /\ \A j \in 0 .. stepSize - 1 : gOutFIFO[j] = Terms(N, j + (N - 1) * stepSize)

(* So does what was put out.                                               *)
OutInv ==
  \A p \in 1 .. Len(outdata) :
    \E m \in 0 .. N, j \in 0 .. stepSize - 1 :
      p - 1 = m * stepSize + j /\ outdata[p] = Terms(m, j + (m - 1) * stepSize)

IInv == TypeInv /\ RoverInv /\ FifoInv /\ FramesOverlap /\ AccumInv /\ OutInv

-----------------------------------------------------------------------------
(* Terms.                                                                  *)

LEMMA TermIs ==
  ASSUME NEW m, NEW p, NEW v
  PROVE  v \in Terms(m, p) <=>
           /\ v \in (0 .. m - 1) \X Frame
           /\ v[2] + v[1] * stepSize = p
BY DEF Terms

LEMMA NoTerms ==
  ASSUME NEW p
  PROVE  Terms(0, p) = {}
<1>1. 0 .. 0 - 1 = {}
  OBVIOUS
<1> QED
  BY <1>1 DEF Terms

LEMMA TermsTyped ==
  ASSUME NEW m \in Nat, NEW p
  PROVE  Terms(m, p) \in SUBSET (Nat \X Frame)
<1>1. 0 .. m - 1 \subseteq Nat
  OBVIOUS
<1> QED
  BY <1>1 DEF Terms

(* What frame m, the next one, adds at the places of the accumulator.      *)
LEMMA OneMoreTerm ==
  ASSUME NEW m \in Nat, NEW x \in Frame
  PROVE  Terms(m + 1, x + m * stepSize) = Terms(m, x + m * stepSize) \cup {<<m, x>>}
<1>1. stepSize \in Nat /\ m * stepSize \in Nat /\ fftFrameSize \in Nat
  BY StepsInFrame, ProductInNat
<1>2. x \in Nat /\ x \in Int /\ Frame \subseteq Int
  BY <1>1 DEF Frame
<1>3. ASSUME NEW v, v \in Terms(m + 1, x + m * stepSize)
      PROVE  v \in Terms(m, x + m * stepSize) \cup {<<m, x>>}
  <2>1. PICK a \in 0 .. m, b \in Frame : v = <<a, b>> /\ b + a * stepSize = x + m * stepSize
    BY <1>3 DEF Terms
  <2>2. CASE a = m
    <3>1. b = x
      BY <1>1, <1>2, <2>1, <2>2
    <3> QED
      BY <2>1, <2>2, <3>1
  <2>3. CASE a # m
    <3>1. a \in 0 .. m - 1
      BY <2>1, <2>3
    <3> QED
      BY <2>1, <3>1 DEF Terms
  <2> QED
    BY <2>2, <2>3
<1>4. ASSUME NEW v, v \in Terms(m, x + m * stepSize)
      PROVE  v \in Terms(m + 1, x + m * stepSize)
  <2>1. 0 .. m - 1 \subseteq 0 .. m + 1 - 1
    OBVIOUS
  <2> QED
    BY <1>4, <2>1 DEF Terms
<1>5. <<m, x>> \in Terms(m + 1, x + m * stepSize)
  <2>1. m \in 0 .. m + 1 - 1
    OBVIOUS
  <2> QED
    BY <2>1 DEF Terms
<1> QED
  BY <1>3, <1>4, <1>5

(* No frame reaches further than its own end.                              *)
LEMMA NoTermsBehind ==
  ASSUME NEW m \in Nat, NEW p \in Int,
         p >= fftFrameSize + (m - 1) * stepSize
  PROVE  Terms(m, p) = {}
<1> SUFFICES ASSUME NEW v, v \in Terms(m, p) PROVE FALSE
  OBVIOUS
<1>1. PICK a \in 0 .. m - 1, b \in Frame : b + a * stepSize = p
  BY DEF Terms
<1>2. stepSize \in Nat /\ fftFrameSize \in Nat
  BY StepsInFrame
<1>3. a <= m - 1 /\ a \in Int /\ m - 1 \in Int
  OBVIOUS
<1>4. a * stepSize <= (m - 1) * stepSize /\ a * stepSize \in Int /\ (m - 1) * stepSize \in Int
  BY <1>2, <1>3, Monotone
<1>5. b < fftFrameSize /\ b \in Int
  BY <1>2 DEF Frame
<1> QED
  BY <1>1, <1>2, <1>4, <1>5

(* A position within a step has one term of each frame that reaches it,    *)
(* and osamp frames do, if there are so many.                              *)
LEMMA TermsCounted ==
  ASSUME NEW m \in Nat, NEW j \in 0 .. stepSize - 1
  PROVE  Cardinality(Terms(m, j + (m - 1) * stepSize)) = IF m < osamp THEN m ELSE osamp
<1> DEFINE T == Terms(m, j + (m - 1) * stepSize)
           s == stepSize
           first == IF m < osamp THEN 0 ELSE m - osamp
           b(a) == j + (m - 1 - a) * s
<1>1. /\ s \in Nat \ {0} /\ osamp \in Nat /\ osamp > 1 /\ fftFrameSize = osamp * s
      /\ j \in Nat /\ j < s
  BY StepsInFrame
<1>2. first \in Nat /\ first <= m
  BY <1>1
<1>3. \A a \in 0 .. m - 1 : /\ m - 1 - a \in Nat /\ (m - 1 - a) * s \in Nat
                           /\ (m - 1) * s = (m - 1 - a) * s + a * s
                           /\ a * s \in Nat /\ b(a) \in Nat
  <2> SUFFICES ASSUME NEW a \in 0 .. m - 1
               PROVE  /\ m - 1 - a \in Nat /\ (m - 1 - a) * s \in Nat
                      /\ (m - 1) * s = (m - 1 - a) * s + a * s
                      /\ a * s \in Nat /\ b(a) \in Nat
    OBVIOUS
  <2>1. m - 1 - a \in Nat /\ a \in Nat /\ m - 1 = (m - 1 - a) + a
    OBVIOUS
  <2> HIDE DEF s
  <2>2. (m - 1 - a) * s \in Nat /\ a * s \in Nat
    BY <1>1, <2>1, ProductInNat
  <2>3. ((m - 1 - a) + a) * s = (m - 1 - a) * s + a * s
    BY <1>1, <2>1, Distribute
  <2> QED
    BY <1>1, <2>1, <2>2, <2>3
<1>4. \A a \in 0 .. m - 1 : a >= first => b(a) \in Frame
  <2> SUFFICES ASSUME NEW a \in 0 .. m - 1, a >= first PROVE b(a) \in Frame
    OBVIOUS
  <2>1. m - 1 - a <= osamp - 1 /\ m - 1 - a \in Int /\ osamp - 1 \in Int
    BY <1>1
  <2> HIDE DEF s
  <2>2. (m - 1 - a) * s <= (osamp - 1) * s
    BY <1>1, <2>1, Monotone
  <2>3. (osamp - 1) * s = osamp * s - s /\ osamp * s \in Nat
    BY <1>1
  <2>4. (m - 1 - a) * s \in Nat
    BY <1>3
  <2>5. b(a) <= osamp * s - 1 /\ b(a) \in Nat
    BY <1>1, <2>2, <2>3, <2>4
  <2> QED
    BY <1>1, <2>3, <2>5 DEF Frame
<1>5. \A a \in 0 .. m - 1 : b(a) \in Frame => a >= first
  <2> SUFFICES ASSUME NEW a \in 0 .. m - 1, b(a) \in Frame, a < first PROVE FALSE
    BY <1>2
  <2>1. osamp <= m - 1 - a /\ m - 1 - a \in Int
    BY <1>1
  <2>2. b(a) <= osamp * s - 1
    BY <1>1 DEF Frame
  <2> HIDE DEF s
  <2>3. osamp * s <= (m - 1 - a) * s
    BY <1>1, <2>1, Monotone
  <2>4. (m - 1 - a) * s \in Nat /\ osamp * s \in Nat
    BY <1>1, <1>3
  <2> QED
    BY <1>1, <2>2, <2>3, <2>4
<1> DEFINE f == [a \in first .. m - 1 |-> <<a, b(a)>>]
<1>6. \A a \in first .. m - 1 : f[a] \in T
  <2> SUFFICES ASSUME NEW a \in first .. m - 1 PROVE <<a, b(a)>> \in T
    OBVIOUS
  <2>1. a \in 0 .. m - 1 /\ a >= first
    BY <1>2
  <2>2. b(a) \in Frame
    BY <1>4, <2>1
  <2>3. b(a) + a * s = j + (m - 1) * s
    <3>1. /\ (m - 1) * s = (m - 1 - a) * s + a * s
          /\ (m - 1 - a) * s \in Nat /\ a * s \in Nat
      BY <1>3, <2>1
    <3> HIDE DEF s
    <3> QED
      BY <1>1, <3>1
  <2> HIDE DEF b
  <2> QED
    BY <2>1, <2>2, <2>3 DEF Terms
<1>7. \A v \in T : \E a \in first .. m - 1 : f[a] = v
  <2> SUFFICES ASSUME NEW v \in T PROVE \E a \in first .. m - 1 : <<a, b(a)>> = v
    OBVIOUS
  <2>1. PICK a \in 0 .. m - 1, c \in Frame : v = <<a, c>> /\ c + a * s = j + (m - 1) * s
    BY DEF Terms
  <2>2. c = b(a)
    <3>1. /\ (m - 1) * s = (m - 1 - a) * s + a * s
          /\ (m - 1 - a) * s \in Nat /\ a * s \in Nat
      BY <1>3
    <3>2. c \in Int
      BY <1>1 DEF Frame
    <3> HIDE DEF s
    <3> QED
      BY <1>1, <2>1, <3>1, <3>2
  <2>3. a >= first
    BY <1>5, <2>1, <2>2
  <2>4. a \in first .. m - 1
    BY <1>2, <2>3
  <2> QED
    BY <2>1, <2>2, <2>4
<1>8. \A a, c \in first .. m - 1 : f[a] = f[c] => a = c
  OBVIOUS
<1>9. f \in Bijection(first .. m - 1, T)
  <2>1. f \in [first .. m - 1 -> T]
    BY <1>6
  <2> HIDE DEF f, T, first
  <2> QED
    BY <2>1, <1>7, <1>8 DEF Bijection, Injection, Surjection, IsInjective
<1>10. ExistsBijection(first .. m - 1, T)
  BY <1>9 DEF ExistsBijection
<1>11. IsFiniteSet(first .. m - 1) /\ Cardinality(first .. m - 1) = m - first
  <2>1. first \in Int /\ m - 1 \in Int
    BY <1>2
  <2> HIDE DEF first
  <2>2. /\ IsFiniteSet(first .. m - 1)
        /\ Cardinality(first .. m - 1) = IF first > m - 1 THEN 0 ELSE m - 1 - first + 1
    BY <2>1, FS_Interval
  <2> QED
    BY <1>2, <2>2
<1>12. Cardinality(T) = m - first
  <2> HIDE DEF T, first
  <2> QED
    BY <1>10, <1>11, FS_Bijection
<1> QED
  BY <1>1, <1>12

-----------------------------------------------------------------------------
(* The invariant holds.                                                    *)

LEMMA InitInv == FifoInit => IInv
<1> SUFFICES ASSUME FifoInit PROVE IInv
  OBVIOUS
<1>1. /\ stepSize \in Nat \ {0} /\ fftFrameSize \in Nat
      /\ gInFIFO = [x \in Frame |-> Silence]
      /\ gOutFIFO = [x \in 0 .. stepSize - 1 |-> {}]
      /\ gOutputAccum = [x \in Accum |-> {}]
      /\ gRover = 0 /\ done = 0 /\ n = 0 /\ given = 0 /\ frames = <<>> /\ outdata = <<>>
  BY StepsInFrame DEF FifoInit
<1>2. N = 0 /\ Len(outdata) = 0
  BY <1>1, EmptySeq DEF N
<1>3. TypeInv
  <2>1. frames \in Seq([Frame -> Int]) /\ outdata \in Seq(SUBSET (Nat \X Frame))
    BY <1>1, EmptySeq
  <2> QED
    BY <1>1, <2>1 DEF TypeInv, Silence
<1>4. RoverInv
  BY <1>1, <1>2 DEF RoverInv
<1>5. FifoInv
  BY <1>1 DEF FifoInv, Frame
<1>6. FramesOverlap
  BY <1>1 DEF FramesOverlap
<1>7. AccumInv
  BY <1>1, <1>2, NoTerms DEF AccumInv
<1>8. OutInv
  BY <1>2 DEF OutInv
<1> QED
  BY <1>3, <1>4, <1>5, <1>6, <1>7, <1>8 DEF IInv

LEMMA CallKeepsInv ==
  ASSUME IInv, NEW sample \in Nat, Call(sample)
  PROVE  IInv'
<1>1. /\ inFifoLatency \in Nat \ {0} /\ inFifoLatency < fftFrameSize /\ fftFrameSize \in Nat
      /\ n' = sample /\ done' = 0 /\ gRover' = IF gRover = 0 THEN inFifoLatency ELSE gRover
      /\ gInFIFO' = gInFIFO /\ gOutFIFO' = gOutFIFO /\ gOutputAccum' = gOutputAccum
      /\ given' = given /\ frames' = frames /\ outdata' = outdata
  BY StepsInFrame DEF Call
<1>2. N' = N
  BY <1>1 DEF N
<1>3. TypeInv'
  BY <1>1 DEF IInv, TypeInv
<1>4. RoverInv'
  <2>1. gRover' # 0 /\ gRover' \in inFifoLatency .. fftFrameSize - 1
    <3>1. gRover = 0 \/ gRover \in inFifoLatency .. fftFrameSize - 1
      BY DEF IInv, RoverInv
    <3>2. CASE gRover = 0
      BY <1>1, <3>2
    <3>3. CASE gRover # 0
      BY <1>1, <3>1, <3>3
    <3> QED
      BY <3>2, <3>3
  <2>2. given' = N' * stepSize + gRover' - inFifoLatency
    <3>1. CASE gRover = 0
      <4>1. given = 0 /\ N = 0 /\ gRover' = inFifoLatency
        BY <1>1, <3>1 DEF IInv, RoverInv
      <4>2. 0 * stepSize = 0
        BY StepsInFrame
      <4> QED
        BY <1>1, <1>2, <4>1, <4>2
    <3>2. CASE gRover # 0
      BY <1>1, <1>2, <3>2 DEF IInv, RoverInv
    <3> QED
      BY <3>1, <3>2
  <2>3. Len(outdata') = given'
    BY <1>1 DEF IInv, RoverInv
  <2> QED
    BY <2>1, <2>2, <2>3 DEF RoverInv
<1>5. FifoInv'
  <2>1. CASE gRover = 0
    <3>1. given = 0 /\ gRover' = inFifoLatency /\ \A x \in Frame : gInFIFO[x] = Silence
      BY <1>1, <2>1 DEF IInv, RoverInv, FifoInv
    <3>2. \A x \in Frame : x < inFifoLatency => InputAt(0 - inFifoLatency + x) = Silence
      BY <1>1 DEF Frame, InputAt
    <3> QED
      BY <1>1, <3>1, <3>2 DEF FifoInv
  <2>2. CASE gRover # 0
    BY <1>1, <2>2 DEF IInv, FifoInv
  <2> QED
    BY <2>1, <2>2
<1>6. FramesOverlap'
  BY <1>1 DEF IInv, FramesOverlap
<1>7. AccumInv'
  BY <1>1, <1>2 DEF IInv, AccumInv
<1>8. OutInv'
  BY <1>1, <1>2 DEF IInv, OutInv
<1> QED
  BY <1>3, <1>4, <1>5, <1>6, <1>7, <1>8 DEF IInv

(* What one sample of input and output does, whether a frame becomes       *)
(* complete or not.                                                        *)
LEMMA ExchangeIs ==
  ASSUME IInv, Exchange
  PROVE  /\ done' \in Nat /\ n' \in Nat
         /\ given' = given + 1 /\ given \in Nat
         /\ N \in Nat
         /\ gRover \in inFifoLatency .. fftFrameSize - 1
         /\ given = N * stepSize + (gRover - inFifoLatency)
         /\ N * stepSize \in Nat
         /\ gRover - inFifoLatency \in 0 .. stepSize - 1
         /\ outdata' \in Seq(SUBSET (Nat \X Frame))
         /\ Len(outdata') = given'
         /\ \A p \in 1 .. given : outdata'[p] = outdata[p]
         /\ outdata'[given + 1] =
              Terms(N, (gRover - inFifoLatency) + (N - 1) * stepSize)
<1>1. /\ stepSize \in Nat \ {0} /\ inFifoLatency \in Nat \ {0} /\ fftFrameSize \in Nat
      /\ inFifoLatency = fftFrameSize - stepSize
  BY StepsInFrame
<1>2. /\ done \in Nat /\ n \in Nat /\ given \in Nat /\ gRover \in Nat
      /\ outdata \in Seq(SUBSET (Nat \X Frame))
      /\ gOutFIFO \in [0 .. stepSize - 1 -> SUBSET (Nat \X Frame)]
  BY DEF IInv, TypeInv
<1>3. N \in Nat
  BY LenProperties DEF IInv, TypeInv, N
<1>4. /\ done < n /\ done' = done + 1 /\ given' = given + 1 /\ n' = n
      /\ outdata' = Append(outdata, gOutFIFO[gRover - inFifoLatency])
  BY DEF Exchange
<1>5. /\ gRover \in inFifoLatency .. fftFrameSize - 1
      /\ given = N * stepSize + gRover - inFifoLatency
      /\ Len(outdata) = given
  BY <1>4 DEF IInv, RoverInv
<1>6. gRover - inFifoLatency \in 0 .. stepSize - 1
  BY <1>1, <1>5
<1>7. N * stepSize \in Nat
  BY <1>1, <1>3, ProductInNat
<1>8. gOutFIFO[gRover - inFifoLatency] = Terms(N, (gRover - inFifoLatency) + (N - 1) * stepSize)
  BY <1>6 DEF IInv, AccumInv
<1>9. gOutFIFO[gRover - inFifoLatency] \in SUBSET (Nat \X Frame)
  BY <1>2, <1>6
<1>10. PICK v \in SUBSET (Nat \X Frame) : v = gOutFIFO[gRover - inFifoLatency]
  BY <1>9
<1>11. /\ outdata' \in Seq(SUBSET (Nat \X Frame))
       /\ Len(outdata') = Len(outdata) + 1
       /\ \A p \in 1 .. Len(outdata) : outdata'[p] = outdata[p]
       /\ outdata'[Len(outdata) + 1] = v
  BY <1>2, <1>4, <1>10, AppendProperties
<1>12. given = N * stepSize + (gRover - inFifoLatency)
  BY <1>1, <1>2, <1>5, <1>7
<1> QED
  BY <1>2, <1>3, <1>4, <1>5, <1>6, <1>7, <1>8, <1>10, <1>11, <1>12

(* The sample put out belongs to its position, in which none was before.   *)
LEMMA ExchangeKeepsOut ==
  ASSUME IInv, Exchange, N' \in Nat, N <= N'
  PROVE  OutInv'
<1>1. /\ Len(outdata') = given + 1 /\ given \in Nat /\ N \in Nat
      /\ given = N * stepSize + (gRover - inFifoLatency)
      /\ gRover - inFifoLatency \in 0 .. stepSize - 1
      /\ \A p \in 1 .. given : outdata'[p] = outdata[p]
      /\ outdata'[given + 1] =
           Terms(N, (gRover - inFifoLatency) + (N - 1) * stepSize)
  BY ExchangeIs
<1>2. Len(outdata) = given
  BY DEF IInv, RoverInv
<1> SUFFICES ASSUME NEW p \in 1 .. given + 1
             PROVE  \E m \in 0 .. N', j \in 0 .. stepSize - 1 :
                      p - 1 = m * stepSize + j /\ outdata'[p] = Terms(m, j + (m - 1) * stepSize)
  BY <1>1 DEF OutInv
<1>3. CASE p = given + 1
  <2>1. PICK j \in 0 .. stepSize - 1 : j = gRover - inFifoLatency
    BY <1>1
  <2>2. N \in 0 .. N' /\ p - 1 = N * stepSize + j
    BY <1>1, <1>3, <2>1
  <2>3. outdata'[p] = Terms(N, j + (N - 1) * stepSize)
    BY <1>1, <1>3, <2>1
  <2> QED
    BY <2>2, <2>3
<1>4. CASE p # given + 1
  <2>1. p \in 1 .. given
    BY <1>1, <1>4
  <2>2. PICK m \in 0 .. N, j \in 0 .. stepSize - 1 :
          p - 1 = m * stepSize + j /\ outdata[p] = Terms(m, j + (m - 1) * stepSize)
    BY <1>2, <2>1 DEF IInv, OutInv
  <2>3. m \in 0 .. N' /\ outdata'[p] = outdata[p]
    BY <1>1, <2>1
  <2> QED
    BY <2>2, <2>3
<1> QED
  BY <1>3, <1>4

LEMMA CollectKeepsInv ==
  ASSUME IInv, Collect
  PROVE  IInv'
<1>1. Exchange
  BY DEF Collect
<1>2. /\ gRover + 1 < fftFrameSize
      /\ gInFIFO' = [gInFIFO EXCEPT ![gRover] = given]
      /\ gRover' = gRover + 1
      /\ gOutFIFO' = gOutFIFO /\ gOutputAccum' = gOutputAccum /\ frames' = frames
  BY DEF Collect
<1>3. N' = N
  BY <1>2 DEF N
<1>4. /\ inFifoLatency \in Nat \ {0} /\ fftFrameSize \in Nat
      /\ stepSize \in Nat
  BY StepsInFrame
<1>5. /\ done' \in Nat /\ n' \in Nat /\ given' = given + 1 /\ given \in Nat /\ N \in Nat
      /\ gRover \in inFifoLatency .. fftFrameSize - 1
      /\ given = N * stepSize + (gRover - inFifoLatency)
      /\ N * stepSize \in Nat
      /\ outdata' \in Seq(SUBSET (Nat \X Frame))
      /\ Len(outdata') = given'
  BY <1>1, ExchangeIs
<1>6. gRover \in Frame /\ gInFIFO \in [Frame -> Int]
  BY <1>4, <1>5 DEF Frame, IInv, TypeInv
<1>7. TypeInv'
  <2>1. gInFIFO' \in [Frame -> Int]
    BY <1>2, <1>5, <1>6
  <2>2. gRover' \in Nat /\ given' \in Nat
    BY <1>2, <1>4, <1>5
  <2> QED
    BY <1>2, <1>5, <2>1, <2>2 DEF IInv, TypeInv
<1>8. RoverInv'
  <2>1. gRover' \in inFifoLatency .. fftFrameSize - 1 /\ gRover' # 0
    BY <1>2, <1>4, <1>5
  <2>2. given' = N' * stepSize + gRover' - inFifoLatency
    BY <1>2, <1>3, <1>4, <1>5
  <2> QED
    BY <1>5, <2>1, <2>2 DEF RoverInv
<1>9. FifoInv'
  <2> SUFFICES ASSUME NEW x \in Frame, x < gRover'
               PROVE  gInFIFO'[x] = InputAt(given' - gRover' + x)
    BY <1>2, <1>4, <1>5 DEF FifoInv
  <2>1. x \in Int /\ given' - gRover' + x = given - gRover + x
    BY <1>2, <1>4, <1>5 DEF Frame
  <2>2. CASE x = gRover
    <3>1. given - gRover + x = given
      BY <1>4, <1>5, <2>2
    <3>2. InputAt(given) = given
      BY <1>5 DEF InputAt
    <3> QED
      BY <1>2, <1>6, <2>1, <2>2, <3>1, <3>2
  <2>3. CASE x # gRover
    <3>1. x < gRover
      BY <1>2, <1>4, <1>5, <2>1, <2>3
    <3>2. gInFIFO'[x] = gInFIFO[x]
      BY <1>2, <1>6, <2>3
    <3> QED
      BY <2>1, <3>1, <3>2 DEF IInv, FifoInv
  <2> QED
    BY <2>2, <2>3
<1>10. FramesOverlap'
  BY <1>2 DEF IInv, FramesOverlap
<1>11. AccumInv'
  BY <1>2, <1>3 DEF IInv, AccumInv
<1>12. OutInv'
  BY <1>1, <1>3, <1>5, ExchangeKeepsOut
<1> QED
  BY <1>7, <1>8, <1>9, <1>10, <1>11, <1>12 DEF IInv

LEMMA TransformKeepsInv ==
  ASSUME IInv, Transform
  PROVE  IInv'
<1> DEFINE frame == [gInFIFO EXCEPT ![gRover] = given]
           accum == [x \in Accum |->
                       IF x \in Frame THEN gOutputAccum[x] \cup {<<Len(frames), x>>}
                       ELSE gOutputAccum[x]]
           m == N
<1>1. Exchange
  BY DEF Transform, Kept
<1>2. /\ gRover + 1 >= fftFrameSize
      /\ frames' = Append(frames, frame)
      /\ gOutFIFO' = [x \in 0 .. stepSize - 1 |-> accum[x]]
      /\ gOutputAccum' = Shifted(accum)
      /\ gInFIFO' = [x \in Frame |-> IF x < inFifoLatency THEN frame[x + stepSize] ELSE frame[x]]
      /\ gRover' = inFifoLatency
  BY DEF Transform, Kept
<1>3. /\ fftFrameSize \in Nat /\ stepSize \in Nat \ {0} /\ inFifoLatency \in Nat \ {0}
      /\ inFifoLatency = fftFrameSize - stepSize
      /\ stepSize <= inFifoLatency /\ inFifoLatency < fftFrameSize
  BY StepsInFrame
<1>4. /\ done' \in Nat /\ n' \in Nat /\ given' = given + 1 /\ given \in Nat /\ m \in Nat
      /\ gRover \in inFifoLatency .. fftFrameSize - 1
      /\ given = m * stepSize + (gRover - inFifoLatency)
      /\ m * stepSize \in Nat
      /\ outdata' \in Seq(SUBSET (Nat \X Frame))
      /\ Len(outdata') = given'
  BY <1>1, ExchangeIs
<1>5. /\ gRover = fftFrameSize - 1
      /\ given + 1 = m * stepSize + stepSize
      /\ (m + 1) * stepSize = m * stepSize + stepSize
      /\ given + 1 = (m + 1) * stepSize
  <2>1. gRover = fftFrameSize - 1
    BY <1>2, <1>3, <1>4
  <2>2. given + 1 = m * stepSize + stepSize
    BY <1>3, <1>4, <2>1
  <2>3. (m + 1) * stepSize = m * stepSize + 1 * stepSize
    <3> HIDE DEF m
    <3> QED
      BY <1>3, <1>4, Distribute
  <2> QED
    BY <1>3, <2>1, <2>2, <2>3
<1>6. gRover \in Frame /\ gInFIFO \in [Frame -> Int] /\ frames \in Seq([Frame -> Int])
  BY <1>3, <1>4 DEF Frame, IInv, TypeInv
<1>7. frame \in [Frame -> Int]
  BY <1>4, <1>6
<1>8. \A x \in Frame : frame[x] = InputAt(given + 1 - fftFrameSize + x)
  <2> SUFFICES ASSUME NEW x \in Frame
               PROVE  frame[x] = InputAt(given + 1 - fftFrameSize + x)
    OBVIOUS
  <2>1. /\ x \in Int /\ x < fftFrameSize
        /\ given + 1 - fftFrameSize + x = given - gRover + x
    BY <1>3, <1>4, <1>5 DEF Frame
  <2>2. CASE x = gRover
    <3>1. given - gRover + x = given
      BY <1>3, <1>4, <2>2
    <3>2. InputAt(given) = given
      BY <1>4 DEF InputAt
    <3> QED
      BY <1>6, <2>1, <2>2, <3>1, <3>2
  <2>3. CASE x # gRover
    <3>1. x < gRover
      BY <1>3, <1>5, <2>1, <2>3
    <3>2. frame[x] = gInFIFO[x]
      BY <1>6, <2>3
    <3>3. gInFIFO[x] = InputAt(given - gRover + x)
      BY <3>1 DEF IInv, FifoInv
    <3> QED
      BY <2>1, <3>2, <3>3
  <2> QED
    BY <2>2, <2>3
<1> HIDE DEF frame
<1>9. /\ frames' \in Seq([Frame -> Int])
      /\ Len(frames') = m + 1
      /\ \A f \in 1 .. m : frames'[f] = frames[f]
      /\ frames'[m + 1] = frame
  BY <1>2, <1>6, <1>7, AppendProperties DEF N
<1>10. N' = m + 1
  BY <1>9 DEF N
<1> DEFINE Value == SUBSET (Nat \X Frame)
<1>11. /\ accum \in [Accum -> Value]
       /\ \A x \in Accum : accum[x] = IF x \in Frame THEN gOutputAccum[x] \cup {<<m, x>>}
                                      ELSE gOutputAccum[x]
  <2>1. gOutputAccum \in [Accum -> Value]
    BY DEF IInv, TypeInv
  <2>2. \A x \in Frame : <<m, x>> \in Nat \X Frame
    BY <1>4
  <2>3. \A x \in Accum : gOutputAccum[x] \in Value
    BY <2>1
  <2>4. \A x \in Accum : (IF x \in Frame THEN gOutputAccum[x] \cup {<<m, x>>} ELSE gOutputAccum[x])
                           \in Value
    BY <2>2, <2>3
  <2> QED
    BY <2>4 DEF N
<1>12. \A x \in Accum : gOutputAccum[x] = Terms(m, x + m * stepSize)
  BY DEF IInv, AccumInv
<1> HIDE DEF accum, m, Value
<1>13. \A x \in Frame : x \in Accum /\ accum[x] = Terms(m + 1, x + m * stepSize)
  <2> SUFFICES ASSUME NEW x \in Frame
               PROVE  x \in Accum /\ accum[x] = Terms(m + 1, x + m * stepSize)
    OBVIOUS
  <2>1. x \in Accum
    BY <1>3 DEF Frame, Accum
  <2> QED
    BY <1>4, <1>11, <1>12, <2>1, OneMoreTerm
<1>14. \A x \in Accum : x \notin Frame => accum[x] = {}
  <2> SUFFICES ASSUME NEW x \in Accum, x \notin Frame PROVE accum[x] = {}
    OBVIOUS
  <2>1. accum[x] = Terms(m, x + m * stepSize)
    BY <1>11, <1>12
  <2>2. x \in Nat /\ x >= fftFrameSize
    BY <1>3 DEF Frame, Accum
  <2>3. (m - 1) * stepSize <= m * stepSize /\ (m - 1) * stepSize \in Int
    <3>1. m - 1 <= m /\ m - 1 \in Int /\ m \in Int /\ stepSize \in Nat
      BY <1>3, <1>4
    <3> QED
      BY <3>1, Monotone
  <2>4. x + m * stepSize \in Int /\ x + m * stepSize >= fftFrameSize + (m - 1) * stepSize
    BY <1>3, <1>4, <2>2, <2>3
  <2> QED
    BY <1>4, <2>1, <2>4, NoTermsBehind
<1>15. \A x \in Accum : gOutputAccum'[x] =
                          IF x < fftFrameSize THEN accum[x + stepSize] ELSE accum[x]
  BY <1>2 DEF Shifted
<1>16. \A x \in Accum : x < fftFrameSize => x + stepSize \in Accum
  BY <1>3 DEF Accum
<1>17. TypeInv'
  <2>1. gInFIFO' \in [Frame -> Int]
    <3>1. \A x \in Frame : x < inFifoLatency => x + stepSize \in Frame
      BY <1>3 DEF Frame
    <3>2. \A x \in Frame : (IF x < inFifoLatency THEN frame[x + stepSize] ELSE frame[x]) \in Int
      BY <1>7, <3>1
    <3> QED
      BY <1>2, <3>2
  <2>2. gOutFIFO' \in [0 .. stepSize - 1 -> Value]
    <3>1. \A x \in 0 .. stepSize - 1 : x \in Accum
      BY <1>3 DEF Accum
    <3> QED
      BY <1>2, <1>11, <3>1
  <2>3. gOutputAccum' \in [Accum -> Value]
    <3>1. \A x \in Accum : (IF x < fftFrameSize THEN accum[x + stepSize] ELSE accum[x]) \in Value
      BY <1>11, <1>16
    <3> QED
      BY <1>2, <3>1 DEF Shifted
  <2>4. gRover' \in Nat /\ given' \in Nat
    BY <1>2, <1>3, <1>4
  <2> QED
    BY <1>4, <1>9, <2>1, <2>2, <2>3, <2>4 DEF TypeInv, Value
<1>18. RoverInv'
  <2>1. gRover' \in inFifoLatency .. fftFrameSize - 1 /\ gRover' # 0
    BY <1>2, <1>3
  <2>2. given' = N' * stepSize + gRover' - inFifoLatency
    <3>1. given' = (m + 1) * stepSize
      BY <1>4, <1>5
    <3> QED
      BY <1>2, <1>3, <1>4, <1>10, <3>1
  <2> QED
    BY <1>4, <2>1, <2>2 DEF RoverInv
<1>19. FifoInv'
  <2> SUFFICES ASSUME NEW x \in Frame, x < inFifoLatency
               PROVE  gInFIFO'[x] = InputAt(given' - gRover' + x)
    BY <1>2, <1>3 DEF FifoInv
  <2>1. x + stepSize \in Frame /\ x \in Int
    BY <1>3 DEF Frame
  <2>2. gInFIFO'[x] = frame[x + stepSize]
    BY <1>2
  <2>3. frame[x + stepSize] = InputAt(given + 1 - fftFrameSize + (x + stepSize))
    BY <1>8, <2>1
  <2>4. given + 1 - fftFrameSize + (x + stepSize) = given' - gRover' + x
    BY <1>2, <1>3, <1>4, <2>1
  <2> QED
    BY <2>2, <2>3, <2>4
<1>20. FramesOverlap'
  <2>1. DOMAIN frames' = 1 .. m + 1 /\ DOMAIN frames = 1 .. m
    BY <1>6, <1>9, LenProperties DEF N, m
  <2> SUFFICES ASSUME NEW f \in 1 .. m + 1, NEW x \in Frame
               PROVE  frames'[f][x] = InputAt(f * stepSize - fftFrameSize + x)
    BY <2>1 DEF FramesOverlap
  <2>2. CASE f = m + 1
    <3>1. f * stepSize = given + 1
      BY <1>5, <2>2
    <3>2. (frames')[f] = frame
      BY <1>9, <2>2
    <3>3. frame[x] = InputAt(given + 1 - fftFrameSize + x)
      BY <1>8
    <3>4. f * stepSize - fftFrameSize + x = given + 1 - fftFrameSize + x
      <4>1. PICK t \in Int : t = given + 1 /\ t = f * stepSize
        BY <1>4, <3>1
      <4> QED
        BY <1>3, <1>4, <2>2, <4>1 DEF Frame
    <3> QED
      BY <3>2, <3>3, <3>4
  <2>3. CASE f # m + 1
    <3>1. f \in 1 .. m
      BY <1>4, <2>3
    <3>2. frames[f][x] = InputAt(f * stepSize - fftFrameSize + x)
      BY <2>1, <3>1 DEF IInv, FramesOverlap
    <3>3. (frames')[f] = frames[f]
      BY <1>9, <3>1
    <3> QED
      BY <3>2, <3>3
  <2> HIDE DEF m
  <2> QED
    BY <2>2, <2>3
<1>21. AccumInv'
  <2>1. ASSUME NEW x \in Accum
        PROVE  gOutputAccum'[x] = Terms(m + 1, x + (m + 1) * stepSize)
    <3>1. x \in Nat /\ x + (m + 1) * stepSize = (x + stepSize) + m * stepSize
      BY <1>3, <1>4, <1>5 DEF Accum
    <3>2. CASE x + stepSize \in Frame
      <4>1. x < fftFrameSize
        BY <1>3, <3>1, <3>2 DEF Frame
      <4>2. gOutputAccum'[x] = accum[x + stepSize]
        BY <1>15, <4>1
      <4> QED
        BY <1>13, <3>1, <3>2, <4>2
    <3>3. CASE x + stepSize \notin Frame
      <4>1. gOutputAccum'[x] = {}
        <5>1. CASE x < fftFrameSize
          BY <1>14, <1>15, <1>16, <3>3, <5>1
        <5>2. CASE ~(x < fftFrameSize)
          <6>1. x \notin Frame
            BY <1>3, <3>1, <5>2 DEF Frame
          <6> QED
            BY <1>14, <1>15, <5>2, <6>1
        <5> QED
          BY <5>1, <5>2
      <4>2. x + stepSize >= fftFrameSize
        BY <1>3, <3>1, <3>3 DEF Frame
      <4>3. m + 1 - 1 = m /\ m + 1 \in Nat
        BY <1>4
      <4>4. /\ x + (m + 1) * stepSize \in Int
            /\ x + (m + 1) * stepSize >= fftFrameSize + m * stepSize
        BY <1>3, <1>4, <3>1, <4>2
      <4>5. x + (m + 1) * stepSize >= fftFrameSize + (m + 1 - 1) * stepSize
        BY <4>3, <4>4
      <4>6. Terms(m + 1, x + (m + 1) * stepSize) = {}
        <5>1. PICK M \in Nat, p \in Int : M = m + 1 /\ p = x + (m + 1) * stepSize
          BY <4>3, <4>4
        <5>2. (M - 1) * stepSize = m * stepSize
          <6>1. M - 1 = m
            BY <1>4, <5>1
          <6> QED
            BY <6>1
        <5>4. p >= fftFrameSize + (M - 1) * stepSize
          BY <4>4, <5>1, <5>2
        <5>3. Terms(M, p) = {}
          BY <5>4, NoTermsBehind
        <5> QED
          BY <5>1, <5>3
      <4> QED
        BY <4>1, <4>6
    <3> QED
      BY <3>2, <3>3
  <2>2. ASSUME NEW j \in 0 .. stepSize - 1
        PROVE  gOutFIFO'[j] = Terms(m + 1, j + (m + 1 - 1) * stepSize)
    <3>1. gOutFIFO'[j] = accum[j]
      BY <1>2
    <3>2. j \in Frame
      BY <1>3 DEF Frame
    <3>3. m + 1 - 1 = m
      BY <1>4
    <3> QED
      BY <1>13, <3>1, <3>2, <3>3
  <2>3. \A x \in Accum : gOutputAccum'[x] = Terms(N', x + N' * stepSize)
    BY <1>10, <2>1
  <2>4. \A j \in 0 .. stepSize - 1 : gOutFIFO'[j] = Terms(N', j + (N' - 1) * stepSize)
    <3>1. N' - 1 = m + 1 - 1
      BY <1>4, <1>10
    <3>2. \A j \in 0 .. stepSize - 1 : gOutFIFO'[j] = Terms(m + 1, j + (m + 1 - 1) * stepSize)
      BY <2>2
    <3> QED
      BY <1>10, <3>1, <3>2
  <2> QED
    BY <2>3, <2>4 DEF AccumInv
<1>22. OutInv'
  <2>1. N' \in Nat /\ N <= N'
    BY <1>4, <1>10 DEF m
  <2> QED
    BY <1>1, <2>1, ExchangeKeepsOut
<1> QED
  BY <1>17, <1>18, <1>19, <1>20, <1>21, <1>22 DEF IInv

LEMMA StutterKeepsInv ==
  ASSUME IInv, UNCHANGED fifoVars
  PROVE  IInv'
<1>1. /\ gInFIFO' = gInFIFO /\ gOutFIFO' = gOutFIFO /\ gOutputAccum' = gOutputAccum
      /\ gRover' = gRover /\ done' = done /\ n' = n /\ given' = given
      /\ frames' = frames /\ outdata' = outdata
  BY DEF fifoVars, fifos, history
<1>2. N' = N
  BY <1>1 DEF N
<1> QED
  BY <1>1, <1>2 DEF IInv, TypeInv, RoverInv, FifoInv, FramesOverlap, AccumInv, OutInv

LEMMA InvHolds == FifoSpec => []IInv
<1>1. FifoInit => IInv
  BY InitInv
<1>2. IInv /\ [FifoNext]_fifoVars => IInv'
  <2> SUFFICES ASSUME IInv, [FifoNext]_fifoVars PROVE IInv'
    OBVIOUS
  <2>1. ASSUME NEW sample \in 0 .. MaxSamples, Call(sample) PROVE IInv'
    <3>1. sample \in Nat
      BY CallsAssumption
    <3> QED
      BY <2>1, <3>1, CallKeepsInv
  <2>2. CASE Collect
    BY <2>2, CollectKeepsInv
  <2>3. CASE Transform
    BY <2>3, TransformKeepsInv
  <2>4. CASE UNCHANGED fifoVars
    BY <2>4, StutterKeepsInv
  <2> QED
    BY <2>1, <2>2, <2>3, <2>4 DEF FifoNext
<1> QED
  BY <1>1, <1>2, PTL DEF FifoSpec

-----------------------------------------------------------------------------
(* Through any calls, with any number of samples each, every frame holds   *)
(* consecutive samples, and the next one begins a step later.              *)
THEOREM FramesFollow == FifoSpec => []FramesOverlap
<1>1. IInv => FramesOverlap
  BY DEF IInv
<1> QED
  BY <1>1, InvHolds, PTL

(* Through any calls every output sample is the whole sum of the frames    *)
(* that reach its position, each of which stands for the same input.       *)
THEOREM OutputIsComplete == FifoSpec => []OutputIsWhole
<1>1. IInv => OutputIsWhole
  <2> SUFFICES ASSUME IInv PROVE OutputIsWhole
    OBVIOUS
  <2>1. /\ stepSize \in Nat \ {0} /\ fftFrameSize \in Nat
    BY StepsInFrame
  <2>2. /\ DOMAIN outdata = 1 .. Len(outdata) /\ Len(outdata) \in Nat
        /\ DOMAIN frames = 1 .. N /\ N \in Nat
    BY LenProperties DEF IInv, TypeInv, N
  <2> SUFFICES ASSUME NEW p \in 1 .. Len(outdata)
               PROVE  /\ Cardinality(outdata[p]) =
                           IF (p - 1) \div stepSize < osamp THEN (p - 1) \div stepSize ELSE osamp
                      /\ \A v, w \in outdata[p] : v[1] = w[1] => v = w
                      /\ \A v \in outdata[p] :
                           frames[v[1] + 1][v[2]] = InputAt(p - 1 - fftFrameSize)
    BY <2>2 DEF OutputIsWhole
  <2>3. PICK m \in 0 .. N, j \in 0 .. stepSize - 1 :
          p - 1 = m * stepSize + j /\ outdata[p] = Terms(m, j + (m - 1) * stepSize)
    BY DEF IInv, OutInv
  <2>4. m \in Nat /\ m * stepSize \in Nat /\ (m - 1) * stepSize = m * stepSize - stepSize
    <3>1. m \in Nat /\ 1 \in Int
      BY <2>2
    <3>2. (m - 1) * stepSize = m * stepSize - 1 * stepSize
      BY <2>1, <3>1, DistributeMinus
    <3> QED
      BY <2>1, <3>1, <3>2, ProductInNat
  <2>5. (p - 1) \div stepSize = m
    <3>1. PICK q : q = (p - 1) \div stepSize
      OBVIOUS
    <3>2. p - 1 \in Nat
      BY <2>2
    <3>3. q \in Nat /\ q * stepSize <= p - 1 /\ p - 1 < q * stepSize + stepSize
      BY <2>1, <3>1, <3>2, Quotient
    <3>4. (q + 1) * stepSize = q * stepSize + stepSize /\ (m + 1) * stepSize = m * stepSize + stepSize
      BY <2>1, <2>4, <3>3, Distribute
    <3>5. q * stepSize < (m + 1) * stepSize /\ m * stepSize < (q + 1) * stepSize
      BY <2>1, <2>3, <2>4, <3>3, <3>4
    <3>6. q < m + 1 /\ m < q + 1
      <4>1. q \in Int /\ m \in Int /\ q + 1 \in Int /\ m + 1 \in Int
        BY <2>4, <3>3
      <4> QED
        BY <2>1, <3>5, <4>1, Cancel
    <3> QED
      BY <2>4, <3>1, <3>3, <3>6
  <2>6. Cardinality(outdata[p]) = IF m < osamp THEN m ELSE osamp
    BY <2>3, <2>4, TermsCounted
  <2>7. \A v \in outdata[p] : /\ v \in (0 .. m - 1) \X Frame
                             /\ v[2] + v[1] * stepSize = j + (m - 1) * stepSize
    BY <2>3, TermIs
  <2>8. \A v, w \in outdata[p] : v[1] = w[1] => v = w
    <3> SUFFICES ASSUME NEW v \in outdata[p], NEW w \in outdata[p], v[1] = w[1]
                 PROVE  v = w
      OBVIOUS
    <3>1. PICK a \in 0 .. m - 1, b \in Frame, c \in Frame : v = <<a, b>> /\ w = <<a, c>>
      BY <2>7
    <3>2. b + a * stepSize = c + a * stepSize
      BY <2>7, <3>1
    <3>3. a * stepSize \in Int /\ b \in Int /\ c \in Int
      BY <2>1 DEF Frame
    <3> QED
      BY <3>1, <3>2, <3>3
  <2>9. \A v \in outdata[p] : frames[v[1] + 1][v[2]] = InputAt(p - 1 - fftFrameSize)
    <3> SUFFICES ASSUME NEW v \in outdata[p]
                 PROVE  frames[v[1] + 1][v[2]] = InputAt(p - 1 - fftFrameSize)
      OBVIOUS
    <3>1. PICK a \in 0 .. m - 1, b \in Frame : v = <<a, b>> /\ b + a * stepSize = j + (m - 1) * stepSize
      BY <2>7
    <3>2. a + 1 \in DOMAIN frames
      BY <2>2
    <3>3. frames[a + 1][b] = InputAt((a + 1) * stepSize - fftFrameSize + b)
      BY <3>2 DEF IInv, FramesOverlap
    <3>4. (a + 1) * stepSize = a * stepSize + stepSize /\ a * stepSize \in Int
      BY <2>1, Distribute
    <3>5. b \in Int
      BY <2>1 DEF Frame
    <3>6. (a + 1) * stepSize - fftFrameSize + b = p - 1 - fftFrameSize
      BY <2>1, <2>3, <2>4, <3>1, <3>4, <3>5
    <3> QED
      BY <3>1, <3>3, <3>6
  <2> QED
    BY <2>5, <2>6, <2>8, <2>9
<1> QED
  BY <1>1, InvHolds, PTL

-----------------------------------------------------------------------------
(* Wrapping for a phase that is not negative: q half turns go into it.     *)
LEMMA EvenHalfTurns ==
  ASSUME NEW t \in Nat \ {0}, t % 2 = 0, NEW x \in Nat, NEW q \in Nat,
         q * t <= 2 * x, 2 * x < q * t + t
  PROVE  \E m \in Nat : /\ (t \div 2) * (q + (q % 2)) = m * t
                        /\ 2 * (x - m * t) \in -t .. t
<1>1. PICK h \in Nat : t = 2 * h /\ t \div 2 = h
  OBVIOUS
<1>2. PICK m \in Nat : q + (q % 2) = 2 * m /\ (q = 2 * m \/ q = 2 * m - 1)
  <2>1. CASE q % 2 = 0
    <3>1. q \div 2 \in Nat /\ q = 2 * (q \div 2)
      BY <2>1
    <3> QED
      BY <2>1, <3>1
  <2>2. CASE q % 2 = 1
    <3>1. (q + 1) \div 2 \in Nat /\ q + 1 = 2 * ((q + 1) \div 2)
      BY <2>2
    <3> QED
      BY <2>2, <3>1
  <2> QED
    BY <2>1, <2>2
<1>3. h * (2 * m) = m * t
  BY <1>1
<1>4. m * t \in Nat
  BY <1>1
<1>5. CASE q = 2 * m
  <2>1. q * t = 2 * (m * t)
    BY <1>5
  <2> QED
    BY <2>1, <1>1, <1>2, <1>3, <1>4
<1>6. CASE q = 2 * m - 1
  <2>1. q * t = 2 * (m * t) - t
    BY <1>6
  <2> QED
    BY <2>1, <1>1, <1>2, <1>3, <1>4
<1> QED
  BY <1>2, <1>5, <1>6

(* What a phase is wrapped to is within half a turn, and differs by whole  *)
(* turns from what it was (audio.cpp:423-427): the step that               *)
(* FrequencyExplainsPhase rests on.                                        *)
THEOREM WrappedIsNearest ==
  ASSUME Turn \in Nat \ {0}, Turn % 2 = 0, NEW tmp \in Int
  PROVE  /\ 2 * Wrapped(tmp) \in -Turn .. Turn
         /\ \E w \in Int : tmp = Wrapped(tmp) + w * Turn
<1> DEFINE x == IF tmp >= 0 THEN tmp ELSE -tmp
           q == (2 * x) \div Turn
           t == Turn
<1>1. x \in Nat /\ 2 * x \in Nat /\ t \in Nat \ {0} /\ t % 2 = 0
  OBVIOUS
<1>2. q \in Nat /\ q * t <= 2 * x /\ 2 * x < q * t + t
  BY <1>1, Quotient
<1>3. Wrapped(tmp) = IF tmp >= 0 THEN x - (t \div 2) * (q + (q % 2))
                                 ELSE -(x - (t \div 2) * (q + (q % 2)))
  <2>1. t \div 2 \in Int
    BY <1>1
  <2>2. CASE tmp >= 0
    <3>1. Truncated(2 * tmp, Turn) = q
      BY <2>2 DEF Truncated
    <3> QED
      BY <2>2, <3>1, <1>2 DEF Wrapped
  <2>3. CASE tmp < 0
    <3>1. Truncated(2 * tmp, Turn) = -q
      BY <2>3 DEF Truncated
    <3>2. (-q) % 2 = q % 2 /\ q % 2 \in {0, 1}
      BY <1>2
    <3>3. q = 0 => q % 2 = 0
      OBVIOUS
    <3>4. Wrapped(tmp) = tmp - (t \div 2) * (-(q + (q % 2)))
      BY <3>1, <3>2, <3>3, <1>2 DEF Wrapped
    <3> HIDE DEF q, x, t
    <3>5. (t \div 2) * (-(q + (q % 2))) = -((t \div 2) * (q + (q % 2)))
      BY <2>1, <3>2, <1>2
    <3>6. (t \div 2) * (q + (q % 2)) \in Int
      BY <2>1, <3>2, <1>2
    <3> QED
      BY <3>4, <3>5, <3>6, <2>3 DEF x
  <2> QED
    BY <2>2, <2>3
<1> HIDE DEF q
<1>4. PICK m \in Nat : /\ (t \div 2) * (q + (q % 2)) = m * t
                       /\ 2 * (x - m * t) \in -t .. t
  <2> HIDE DEF x, t
  <2> QED
    BY <1>1, <1>2, EvenHalfTurns
<1>5. m * t \in Int /\ (-m) * t = -(m * t)
  BY <1>1
<1>6. CASE tmp >= 0
  <2>1. Wrapped(tmp) = x - m * t /\ x = tmp
    BY <1>3, <1>4, <1>6
  <2>2. x \in Int
    BY <1>6
  <2>3. tmp = Wrapped(tmp) + m * t /\ m \in Int
    <3> HIDE DEF x, t
    <3> QED
      BY <2>1, <2>2, <1>5
  <2>4. 2 * Wrapped(tmp) \in -t .. t
    BY <2>1, <1>4
  <2> QED
    BY <2>3, <2>4
<1>7. CASE tmp < 0
  <2>1. Wrapped(tmp) = -(x - m * t)
    BY <1>3, <1>4, <1>7
  <2>2. x = -tmp /\ x \in Int
    BY <1>7
  <2>3. tmp = Wrapped(tmp) + (-m) * t /\ -m \in Int
    <3> HIDE DEF x, t
    <3> QED
      BY <2>1, <2>2, <1>5
  <2>4. 2 * Wrapped(tmp) \in -t .. t
    <3> HIDE DEF x
    <3> QED
      BY <2>1, <2>2, <1>1, <1>4, <1>5
  <2> QED
    BY <2>3, <2>4
<1> QED
  BY <1>6, <1>7

(* A multiple leaves no remainder.                                         *)
LEMMA NoRemainder ==
  ASSUME NEW P \in Nat \ {0}, NEW m \in Int
  PROVE  (m * P) % P = 0 /\ (m * P) \div P = m
<1>1. PICK q, r : q = (m * P) \div P /\ r = (m * P) % P
  OBVIOUS
<1>2. m * P \in Int
  OBVIOUS
<1>3. q \in Int /\ r \in Int /\ 0 <= r /\ r < P /\ m * P = q * P + r
  BY <1>1, <1>2
<1>4. (q + 1) * P = q * P + P
  BY <1>3, Distribute
<1>5. q * P <= m * P /\ m * P < (q + 1) * P
  BY <1>2, <1>3, <1>4
<1>6. m < q + 1
  BY <1>3, <1>5, Cancel
<1>7. ~(m < q)
  <2> SUFFICES ASSUME m < q PROVE FALSE
    OBVIOUS
  <2>1. m + 1 <= q /\ m + 1 \in Int
    BY <1>3
  <2>2. (m + 1) * P <= q * P
    BY <1>3, <2>1, Monotone
  <2>3. (m + 1) * P = m * P + P
    BY Distribute
  <2> QED
    BY <1>2, <1>3, <1>5, <2>2, <2>3
<1>8. m = q
  BY <1>3, <1>6, <1>7
<1> QED
  BY <1>1, <1>3, <1>8

(* Nor do multiples change one.                                            *)
LEMMA SameRemainder ==
  ASSUME NEW P \in Nat \ {0}, NEW x \in Int, NEW m \in Int
  PROVE  (x + m * P) % P = x % P
<1>1. PICK q, r, s, z : q = x \div P /\ r = x % P /\ s = (x + m * P) \div P /\ z = (x + m * P) % P
  OBVIOUS
<1>2. m * P \in Int
  OBVIOUS
<1>3. /\ q \in Int /\ r \in Int /\ 0 <= r /\ r < P /\ x = q * P + r
      /\ s \in Int /\ z \in Int /\ 0 <= z /\ z < P /\ x + m * P = s * P + z
  BY <1>1, <1>2
<1>4. PICK d \in Int : d = s - q - m
  BY <1>3
<1>5. d * P = s * P - q * P - m * P
  BY <1>3, <1>4
<1>6. d * P = r - z
  BY <1>2, <1>3, <1>5
<1>7. d < 1 /\ -1 < d
  <2>1. d * P < 1 * P /\ (-1) * P < d * P
    BY <1>3, <1>6
  <2> QED
    BY <2>1, Cancel
<1>8. d = 0
  BY <1>7
<1>9. d * P = 0
  BY <1>8
<1>10. r = z
  BY <1>3, <1>6, <1>9
<1> QED
  BY <1>1, <1>10

(* Of the numbers that differ from x by D, the one within half a D of 0    *)
(* is the nearest to 0.                                                    *)
LEMMA NearestSquare ==
  ASSUME NEW x \in Int, NEW D \in Nat, 2 * x \in -D .. D
  PROVE  x * x <= (x + D) * (x + D) /\ x * x <= (x - D) * (x - D)
<1>1. 0 <= 2 * x + D /\ 0 <= D - 2 * x /\ 2 * x + D \in Nat /\ D - 2 * x \in Nat
  OBVIOUS
<1>2. 0 <= D * (2 * x + D) /\ 0 <= D * (D - 2 * x)
  BY <1>1, ProductInNat
<1>3. (x + D) * (x + D) = x * x + D * (2 * x + D)
  OBVIOUS
<1>4. (x - D) * (x - D) = x * x + D * (D - 2 * x)
  OBVIOUS
<1>5. x * x \in Int /\ D * (2 * x + D) \in Int /\ D * (D - 2 * x) \in Int
  OBVIOUS
<1> QED
  BY <1>2, <1>3, <1>4, <1>5

LEMMA TurnIs ==
  /\ Turn \in Nat \ {0} /\ Turn % 2 = 0
  /\ osamp \in Nat \ {0} /\ expct \in Nat /\ osamp * expct = Turn
  /\ Finer \in Nat \ {0}
  /\ \E h, z \in Nat : Turn = 2 * (Finer * h) /\ expct = Finer * z
<1>1. PICK F, P, o : F = Finer /\ P = Order /\ o = osamp
  OBVIOUS
<1>2. F \in Nat \ {0} /\ P \in Nat \ {0} /\ o \in Nat \ {0} /\ P % 2 = 0 /\ P % o = 0
  BY <1>1, ResidueAssumption, FrameAssumption, TurnAssumption DEF Order
<1>3. PICK h, z \in Nat : P = 2 * h /\ P = o * z
  <2>1. P \div 2 \in Nat /\ P \div o \in Nat /\ P = 2 * (P \div 2) /\ P = o * (P \div o)
    BY <1>2
  <2> QED
    BY <2>1
<1>4. PICK T \in Nat \ {0} : T = Turn /\ T = P * F
  BY <1>1, <1>2 DEF Turn
<1>5. F * h \in Nat /\ F * z \in Nat
  BY <1>2, <1>3, ProductInNat
<1>6. T = 2 * (F * h) /\ T = (F * z) * o
  BY <1>2, <1>3, <1>4
<1>7. T % 2 = 0
  BY <1>5, <1>6
<1>8. PICK e \in Nat : e = F * z
  BY <1>5
<1>9. (e * o) \div o = e
  BY <1>2, <1>8, NoRemainder
<1>10. expct = F * z
  BY <1>1, <1>4, <1>6, <1>8, <1>9 DEF expct
<1>11. o * e = T
  BY <1>2, <1>6, <1>8
<1> QED
  BY <1>1, <1>2, <1>3, <1>4, <1>5, <1>6, <1>7, <1>8, <1>10, <1>11

LEMMA WrappedTyped ==
  ASSUME NEW tmp \in Int
  PROVE  Wrapped(tmp) \in Int
<1>1. PICK T \in Nat \ {0} : T = Turn
  BY TurnIs
<1>2. PICK q : q = Truncated(2 * tmp, Turn)
  OBVIOUS
<1>3. q \in Int
  <2>1. (2 * tmp) \div T \in Int /\ (-(2 * tmp)) \div T \in Int
    OBVIOUS
  <2> QED
    BY <1>1, <1>2, <2>1 DEF Truncated
<1>4. T \div 2 \in Int /\ q % 2 \in Int
  BY <1>3
<1>5. PICK even \in Int : even = IF q >= 0 THEN q + (q % 2) ELSE q - (q % 2)
  BY <1>3, <1>4
<1>6. Wrapped(tmp) = tmp - (T \div 2) * even
  BY <1>1, <1>2, <1>5 DEF Wrapped
<1>7. (T \div 2) * even \in Int
  BY <1>4, <1>5
<1> QED
  BY <1>6, <1>7

(* What Analyse makes of a difference of phases.                           *)
LEMMA FrequencyIs ==
  ASSUME NEW b \in Nat, NEW t \in Int, NEW f,
         f = b * Turn + osamp * Wrapped(t - b * expct)
  PROVE  /\ (f - osamp * t) % (osamp * Turn) = 0
         /\ \A d \in {-1, 1} :
              LET other == f + d * osamp * Turn - b * Turn
                  this == f - b * Turn
              IN  this * this <= other * other
<1>1. PICK T \in Nat \ {0}, o \in Nat \ {0}, e \in Nat :
        T = Turn /\ T % 2 = 0 /\ o = osamp /\ e = expct /\ o * e = T
  BY TurnIs
<1>2. b * e \in Nat
  BY ProductInNat
<1>3. t - b * e \in Int
  BY <1>2
<1>4. PICK w \in Int : w = Wrapped(t - b * e)
  BY <1>3, WrappedTyped
<1>5. /\ 2 * w \in -T .. T
      /\ \E m \in Int : t - b * e = w + m * T
  BY <1>1, <1>3, <1>4, WrappedIsNearest
<1>6. PICK m \in Int : t - b * e = w + m * T
  BY <1>5
<1>7. f = b * T + o * w /\ b * T \in Int /\ o * w \in Int
  BY <1>1, <1>4
<1>8. (f - o * t) % (o * T) = 0
  <2>1. o * (t - b * e) = o * t - b * T
    <3>1. o * (b * e) = b * (o * e)
      BY <1>2
    <3> QED
      BY <1>1, <1>2, <3>1
  <2>2. o * (t - b * e) = o * w + m * (o * T)
    BY <1>6
  <2>3. o * t \in Int /\ m * (o * T) \in Int /\ o * T \in Nat \ {0}
    OBVIOUS
  <2>4. f - o * t = (-m) * (o * T)
    <3>1. (-m) * (o * T) = -(m * (o * T))
      BY <2>3
    <3> QED
      BY <1>7, <2>1, <2>2, <2>3, <3>1
  <2>5. PICK P \in Nat \ {0}, M \in Int : P = o * T /\ M = -m
    BY <2>3
  <2>6. (M * P) % P = 0
    BY NoRemainder
  <2> QED
    BY <2>4, <2>5, <2>6
<1>9. o * w * (o * w) <= (o * w + o * T) * (o * w + o * T) /\ o * w * (o * w) <= (o * w - o * T) * (o * w - o * T)
  <2>1. PICK x \in Int, D \in Nat : x = o * w /\ D = o * T
    BY <1>7, ProductInNat
  <2>2. 2 * x \in -D .. D
    <3>1. -T <= 2 * w /\ 2 * w <= T /\ 2 * w \in Int /\ -T \in Int
      BY <1>5
    <3>2. (-T) * o <= (2 * w) * o /\ (2 * w) * o <= T * o
      BY <3>1, Monotone
    <3>3. (-T) * o = -D /\ (2 * w) * o = 2 * x /\ T * o = D
      BY <2>1
    <3> QED
      BY <3>2, <3>3
  <2> QED
    BY <2>1, <2>2, NearestSquare
<1>10. f - b * T = o * w
  BY <1>7
<1>11. f + 1 * o * T - b * T = o * w + o * T /\ f + (-1) * o * T - b * T = o * w - o * T
  <2>1. 1 * o * T = o * T /\ (-1) * o * T = -(o * T) /\ o * T \in Int
    OBVIOUS
  <2> QED
    BY <1>7, <2>1
<1> QED
  BY <1>1, <1>8, <1>9, <1>10, <1>11

-----------------------------------------------------------------------------
(* The bins, the loop over them, and what has been analysed.               *)
BinInv ==
  /\ pitchShift \in Factors
  /\ k \in Nat
  /\ gLastPhase \in [Bins -> Int]
  /\ pc \in {"shift", "synthesis"} =>
       /\ turned \in [Bins -> Int]
       /\ gAnaFreq = [b \in Bins |-> b * Turn + osamp * Wrapped(turned[b] - b * expct)]

LEMMA AnalyseKeepsBins ==
  ASSUME BinInv, Analyse
  PROVE  BinInv'
<1> DEFINE phase == [b \in Bins |-> Phase(gFFTworksp[b])]
<1>1. /\ pitchShift' = pitchShift /\ k' = 0
      /\ gLastPhase' = phase
      /\ turned' = [b \in Bins |-> phase[b] - gLastPhase[b]]
      /\ gAnaFreq' = [b \in Bins |->
                        b * Turn + osamp * Wrapped(phase[b] - gLastPhase[b] - b * expct)]
  BY DEF Analyse
<1>2. \A v : Phase(v) \in Int
  <2> SUFFICES ASSUME NEW v PROVE Phase(v) \in Int
    OBVIOUS
  <2>1. CASE Directions(v) = {}
    BY <2>1 DEF Phase
  <2>2. CASE Directions(v) # {}
    <3>1. PICK e : e = CHOOSE c \in Directions(v) : TRUE
      OBVIOUS
    <3>2. e \in Directions(v)
      BY <2>2, <3>1
    <3>3. e \in Int
      BY <3>2 DEF Directions
    <3>4. Phase(v) = Finer * e /\ Finer \in Nat
      BY <2>2, <3>1, ResidueAssumption DEF Phase
    <3> QED
      BY <3>3, <3>4
  <2> QED
    BY <2>1, <2>2
<1>3. phase \in [Bins -> Int]
  BY <1>2
<1> HIDE DEF phase
<1>4. turned' \in [Bins -> Int]
  <2>1. \A b \in Bins : phase[b] - gLastPhase[b] \in Int
    BY <1>3 DEF BinInv
  <2> QED
    BY <1>1, <2>1
<1>5. gAnaFreq' = [b \in Bins |-> b * Turn + osamp * Wrapped(turned'[b] - b * expct)]
  BY <1>1
<1> QED
  BY <1>1, <1>3, <1>4, <1>5 DEF BinInv

LEMMA BinsHold == Spec => []BinInv
<1>1. Init => BinInv
  <2> SUFFICES ASSUME Init PROVE BinInv
    OBVIOUS
  <2>1. pitchShift \in Factors /\ k = 0 /\ pc = "window"
    BY DEF Init
  <2>2. gLastPhase \in [Bins -> Int]
    BY DEF Init
  <2> QED
    BY <2>1, <2>2 DEF BinInv
<1>2. BinInv /\ [Next]_vars => BinInv'
  <2> SUFFICES ASSUME BinInv, [Next]_vars PROVE BinInv'
    OBVIOUS
  <2>1. CASE Analyse
    BY <2>1, AnalyseKeepsBins
  <2>2. CASE ~Analyse
    <3>1. pitchShift' = pitchShift /\ gLastPhase' = gLastPhase
      BY <2>2 DEF Next, WindowFrame, Reverse, EndReverse, Combine, EndFft, MoveBin, DropBin,
           EndShift, Synthesise, Accumulate, vars, static
    <3>2. k' \in {k, k + 1, 0}
      BY <2>2 DEF Next, WindowFrame, Reverse, EndReverse, Combine, EndFft, MoveBin, DropBin,
           EndShift, Synthesise, Accumulate, vars
    <3>3. pc' \in {"shift", "synthesis"} =>
            pc \in {"shift", "synthesis"} /\ turned' = turned /\ gAnaFreq' = gAnaFreq
      BY <2>2 DEF Next, WindowFrame, Reverse, EndReverse, Combine, EndFft, MoveBin, DropBin,
           EndShift, Synthesise, Accumulate, StartFft, vars, analysed
    <3> QED
      BY <3>1, <3>2, <3>3 DEF BinInv
  <2> QED
    BY <2>1, <2>2
<1> QED
  BY <1>1, <1>2, PTL DEF Spec

(* Whatever the frames hold and whatever came before, the frequency a bin  *)
(* is taken for explains what its phase has done, and no other that does   *)
(* is nearer to the bin.                                                   *)
THEOREM FrequenciesAreTrue == Spec => []FrequencyExplainsPhase
<1>1. BinInv => FrequencyExplainsPhase
  <2> SUFFICES ASSUME BinInv, pc = "shift", NEW b \in Bins
               PROVE  /\ (gAnaFreq[b] - osamp * turned[b]) % (osamp * Turn) = 0
                      /\ \A d \in {-1, 1} :
                           LET other == gAnaFreq[b] + d * osamp * Turn - b * Turn
                               this == gAnaFreq[b] - b * Turn
                           IN  this * this <= other * other
    BY DEF FrequencyExplainsPhase
  <2>1. b \in Nat /\ turned[b] \in Int
    BY DEF Bins, BinInv
  <2>2. gAnaFreq[b] = b * Turn + osamp * Wrapped(turned[b] - b * expct)
    BY DEF BinInv
  <2> QED
    BY <2>1, <2>2, FrequencyIs
<1> QED
  BY <1>1, BinsHold, PTL

-----------------------------------------------------------------------------
(* Phases and frequencies are multiples of Finer, so that a frequency      *)
(* moved by a factor is exact.                                             *)
Fine == {Finer * z : z \in Int}

LEMMA BinsAre == fftFrameSize2 \in Nat /\ Bins \subseteq Nat /\ 0 \in Bins
BY FrameAssumption DEF fftFrameSize2, Bins

LEMMA FineTyped == Fine \subseteq Int
BY TurnIs DEF Fine

LEMMA FineDifference ==
  ASSUME NEW x \in Fine, NEW y \in Fine
  PROVE  x - y \in Fine
<1>1. PICK F \in Nat, u \in Int, v \in Int : F = Finer /\ x = F * u /\ y = F * v
  BY TurnIs DEF Fine
<1>2. F * (u - v) = F * u - F * v /\ u - v \in Int
  BY <1>1
<1> QED
  BY <1>1, <1>2 DEF Fine

LEMMA FineMultiple ==
  ASSUME NEW x \in Fine, NEW m \in Int
  PROVE  m * x \in Fine
<1>1. PICK F \in Nat, u \in Int : F = Finer /\ x = F * u
  BY TurnIs DEF Fine
<1>2. m * (F * u) = F * (m * u) /\ m * u \in Int
  BY <1>1
<1> QED
  BY <1>1, <1>2 DEF Fine

LEMMA WrappedFine ==
  ASSUME NEW tmp \in Fine
  PROVE  Wrapped(tmp) \in Fine
<1>1. PICK F \in Nat, z \in Int : F = Finer /\ tmp = F * z
  BY TurnIs DEF Fine
<1>2. PICK T \in Nat \ {0}, h \in Nat : T = Turn /\ T = 2 * (F * h)
  BY <1>1, TurnIs
<1>3. PICK q : q = Truncated(2 * tmp, Turn)
  OBVIOUS
<1>4. q \in Int
  <2>1. tmp \in Int
    BY <1>1
  <2>2. (2 * tmp) \div T \in Int /\ (-(2 * tmp)) \div T \in Int
    BY <2>1
  <2>3. T = Turn
    BY <1>2
  <2> QED
    BY <1>3, <2>2, <2>3 DEF Truncated
<1>5. q % 2 \in Int
  BY <1>4
<1>6. PICK even \in Int : even = IF q >= 0 THEN q + (q % 2) ELSE q - (q % 2)
  BY <1>4, <1>5
<1>7. Wrapped(tmp) = tmp - (T \div 2) * even
  BY <1>2, <1>3, <1>6 DEF Wrapped
<1>8. T \div 2 = F * h
  <2>1. F * h \in Nat
    BY <1>1, <1>2, ProductInNat
  <2> QED
    BY <1>2, <2>1
<1>9. F * z - (F * h) * even = F * (z - h * even) /\ z - h * even \in Int
  BY <1>1, <1>2, <1>6
<1> QED
  BY <1>1, <1>7, <1>8, <1>9 DEF Fine

LEMMA PhaseFine ==
  ASSUME NEW v
  PROVE  Phase(v) \in Fine
<1>1. CASE Directions(v) = {}
  <2>1. Phase(v) = Finer * 0
    BY <1>1, TurnIs DEF Phase
  <2> QED
    BY <2>1 DEF Fine
<1>2. CASE Directions(v) # {}
  <2>1. PICK e : e = CHOOSE c \in Directions(v) : TRUE
    OBVIOUS
  <2>2. e \in Directions(v)
    BY <1>2, <2>1
  <2>3. e \in Int
    BY <2>2 DEF Directions
  <2>4. Phase(v) = Finer * e
    BY <1>2, <2>1 DEF Phase
  <2> QED
    BY <2>3, <2>4 DEF Fine
<1> QED
  BY <1>1, <1>2

(* The frequency of a bin whose phase has turned by a multiple of Finer.   *)
LEMMA FrequencyFine ==
  ASSUME NEW b \in Nat, NEW t \in Fine
  PROVE  b * Turn + osamp * Wrapped(t - b * expct) \in Fine
<1>1. PICK F \in Nat, h \in Nat, z \in Nat : F = Finer /\ Turn = 2 * (F * h) /\ expct = F * z
  BY TurnIs
<1>2. expct \in Fine /\ -Turn \in Fine
  <2>1. -(2 * (F * h)) = F * (-(2 * h)) /\ -(2 * h) \in Int /\ z \in Int
    OBVIOUS
  <2> QED
    BY <1>1, <2>1 DEF Fine
<1>3. b * expct \in Fine /\ b * (-Turn) \in Fine
  BY <1>2, FineMultiple
<1>4. Wrapped(t - b * expct) \in Fine
  BY <1>3, FineDifference, WrappedFine
<1>5. osamp * Wrapped(t - b * expct) \in Fine
  BY <1>4, TurnIs, FineMultiple
<1>6. osamp * Wrapped(t - b * expct) - b * (-Turn) \in Fine
  BY <1>3, <1>5, FineDifference
<1>7. osamp * Wrapped(t - b * expct) \in Int /\ Turn \in Int
  <2>1. osamp * Wrapped(t - b * expct) \in Int
    BY <1>5, FineTyped, Zenon
  <2> QED
    BY <2>1, TurnIs
<1>8. PICK x \in Int, T \in Int : x = osamp * Wrapped(t - b * expct) /\ T = Turn
  BY <1>7
<1>9. x - b * (-T) = b * T + x
  OBVIOUS
<1> QED
  BY <1>6, <1>8, <1>9

(* The magnitudes that belong to bin b, bin by bin.                        *)
Shares(b) == [c \in Bins |-> IF c \in Belong(b) THEN gAnaMagn[c] ELSE 0]

(* The frequency of bin c, moved.                                          *)
MovedFrequency(c) == (gAnaFreq[c] * pitchShift[1]) \div pitchShift[2]

(* What has been analysed, and what the first k bins have been made of.    *)
FineInv ==
  /\ gLastPhase \in [Bins -> Fine]
  /\ pc \in {"shift", "synthesis"} =>
       gAnaMagn \in [Bins -> Nat] /\ gAnaFreq \in [Bins -> Fine]

MovedInv ==
  pc \in {"shift", "synthesis"} =>
    /\ k \in 0 .. fftFrameSize2 + 1
    /\ gSynMagn \in [Bins -> Int] /\ gSynFreq \in [Bins -> Int]
    /\ \A b \in Bins : gSynMagn[b] = SumUpTo(Shares(b), k)
    /\ \A b \in Bins : \A c \in Belong(b) :
         c < k /\ (\A d \in Belong(b) : d < k => d <= c) => gSynFreq[b] = MovedFrequency(c)

StretchInv ==
  /\ pitchShift \in Factors
  /\ FineInv
  /\ MovedInv
  /\ pc = "synthesis" => k = fftFrameSize2 + 1

(* A bin belongs where it is moved to.                                     *)
LEMMA BelongsWhereMoved ==
  ASSUME pitchShift \in Factors, pitchShift[1] >= 0, k \in Bins, NEW b \in Bins
  PROVE  k \in Belong(b) <=> index = b
<1>1. PICK p \in Nat, q \in Nat \ {0} : p = pitchShift[1] /\ q = pitchShift[2]
  BY FactorAssumption
<1>2. k \in Nat /\ b \in Nat
  BY BinsAre
<1>3. PICK x \in Nat : x = k * p
  BY <1>2, ProductInNat
<1>4. PICK j : j = x \div q
  OBVIOUS
<1>5. j \in Nat /\ j * q <= x /\ x < j * q + q
  BY <1>4, Quotient
<1>6. index = j
  BY <1>1, <1>3, <1>4 DEF index, Truncated
<1>7. k \in Belong(b) <=> b * q <= x /\ x < (b + 1) * q
  BY <1>1, <1>3 DEF Belong
<1>8. ASSUME b * q <= x, x < (b + 1) * q
      PROVE  j = b
  <2>1. (j + 1) * q = j * q + q /\ j * q \in Int /\ b * q \in Int /\ (b + 1) * q \in Int
    BY <1>2, <1>5, Distribute
  <2>2. b * q < (j + 1) * q /\ j * q < (b + 1) * q
    BY <1>5, <1>8, <2>1
  <2>3. b < j + 1
    BY <1>2, <1>5, <2>2, Cancel
  <2>4. j < b + 1
    BY <1>2, <1>5, <2>2, Cancel
  <2> QED
    BY <1>2, <1>5, <2>3, <2>4
<1>9. ASSUME j = b
      PROVE  b * q <= x /\ x < (b + 1) * q
  <2>1. (b + 1) * q = b * q + q
    BY <1>2, Distribute
  <2> QED
    BY <1>5, <1>9, <2>1
<1> QED
  BY <1>6, <1>7, <1>8, <1>9

LEMMA OneMoreShare ==
  ASSUME gAnaMagn \in [Bins -> Nat], k \in Bins, NEW b \in Bins
  PROVE  /\ SumUpTo(Shares(b), k) \in Int
         /\ SumUpTo(Shares(b), k + 1) =
              SumUpTo(Shares(b), k) + IF k \in Belong(b) THEN gAnaMagn[k] ELSE 0
<1>1. PICK v : v = Shares(b)
  OBVIOUS
<1>2. k \in Nat /\ 0 .. k \subseteq Bins
  BY BinsAre DEF Bins
<1>3. \A c \in Bins : v[c] \in Int
  BY <1>1 DEF Shares
<1>4. \A c \in 0 .. k : v[c] \in Int
  BY <1>2, <1>3
<1>5. SumUpTo(v, k) \in Int /\ SumUpTo(v, k + 1) = SumUpTo(v, k) + v[k]
  BY <1>2, <1>4, SumOfOneMore
<1>6. v[k] = IF k \in Belong(b) THEN gAnaMagn[k] ELSE 0
  BY <1>1 DEF Shares
<1> QED
  BY <1>1, <1>5, <1>6

(* What does not change while bins are moved.                              *)
LEMMA SameAnalysis ==
  ASSUME pitchShift' = pitchShift, gAnaMagn' = gAnaMagn, gAnaFreq' = gAnaFreq
  PROVE  /\ \A b : Belong(b)' = Belong(b)
         /\ \A b : Shares(b)' = Shares(b)
         /\ \A c : MovedFrequency(c)' = MovedFrequency(c)
<1>1. \A b : Belong(b)' = Belong(b)
  BY DEF Belong, Bins, fftFrameSize2
<1>2. \A b : Shares(b)' = Shares(b)
  BY <1>1 DEF Shares, Bins, fftFrameSize2
<1>3. \A c : MovedFrequency(c)' = MovedFrequency(c)
  BY DEF MovedFrequency
<1> QED
  BY <1>1, <1>2, <1>3

LEMMA AnalyseStretches ==
  ASSUME StretchInv, Analyse
  PROVE  StretchInv'
<1>1. /\ pitchShift' = pitchShift /\ k' = 0 /\ pc' = "shift"
      /\ gLastPhase' = [b \in Bins |-> Phase(gFFTworksp[b])]
      /\ gAnaMagn' = [b \in Bins |-> Magnitude(gFFTworksp[b])]
      /\ gSynMagn' = [b \in Bins |-> 0] /\ gSynFreq' = [b \in Bins |-> 0]
  BY DEF Analyse
<1>2. gLastPhase' \in [Bins -> Fine]
  BY <1>1, PhaseFine
<1>3. \A v : Magnitude(v) \in Nat
  BY DEF Magnitude
<1>4. gAnaMagn' \in [Bins -> Nat]
  BY <1>1, <1>3
<1>5. gAnaFreq' \in [Bins -> Fine]
  <2> DEFINE phase == [b \in Bins |-> Phase(gFFTworksp[b])]
             f(b) == b * Turn + osamp * Wrapped(phase[b] - gLastPhase[b] - b * expct)
  <2>1. gAnaFreq' = [b \in Bins |-> f(b)]
    BY DEF Analyse
  <2>2. ASSUME NEW b \in Bins
        PROVE  f(b) \in Fine
    <3>1. phase[b] \in Fine
      BY PhaseFine
    <3>2. gLastPhase[b] \in Fine
      BY DEF StretchInv, FineInv
    <3>3. b \in Nat
      BY BinsAre
    <3> HIDE DEF phase
    <3>4. phase[b] - gLastPhase[b] \in Fine
      BY <3>1, <3>2, FineDifference
    <3> QED
      BY <3>3, <3>4, FrequencyFine
  <2> HIDE DEF f
  <2> QED
    BY <2>1, <2>2
<1>6. FineInv'
  BY <1>2, <1>4, <1>5 DEF FineInv
<1>7. MovedInv'
  <2>1. k' \in 0 .. fftFrameSize2 + 1
    BY <1>1, BinsAre
  <2>2. gSynMagn' \in [Bins -> Int] /\ gSynFreq' \in [Bins -> Int]
    BY <1>1
  <2>3. \A b \in Bins : (gSynMagn')[b] = SumUpTo(Shares(b)', k')
    BY <1>1, SumOfNone
  <2>4. \A b \in Bins : \A c \in Belong(b)' : ~(c < k')
    BY <1>1, BinsAre DEF Belong
  <2> QED
    BY <2>1, <2>2, <2>3, <2>4 DEF MovedInv
<1> QED
  BY <1>1, <1>6, <1>7 DEF StretchInv

(* A bin moves to where it belongs, or nowhere.                            *)
LEMMA MoveStretches ==
  ASSUME StretchInv, \A f \in Factors : f[1] >= 0, MoveBin \/ DropBin
  PROVE  StretchInv'
<1>1. /\ pc = "shift" /\ pc' = "shift" /\ k \in Bins /\ k' = k + 1
      /\ pitchShift' = pitchShift /\ gLastPhase' = gLastPhase
      /\ gAnaMagn' = gAnaMagn /\ gAnaFreq' = gAnaFreq
  BY DEF MoveBin, DropBin, static, analysed
<1>2. /\ pitchShift \in Factors /\ pitchShift[1] >= 0
      /\ gLastPhase \in [Bins -> Fine]
      /\ gAnaMagn \in [Bins -> Nat] /\ gAnaFreq \in [Bins -> Fine]
  BY <1>1 DEF StretchInv, FineInv
<1>3. /\ gSynMagn \in [Bins -> Int] /\ gSynFreq \in [Bins -> Int]
      /\ \A b \in Bins : gSynMagn[b] = SumUpTo(Shares(b), k)
      /\ \A b \in Bins : \A c \in Belong(b) :
           c < k /\ (\A d \in Belong(b) : d < k => d <= c) => gSynFreq[b] = MovedFrequency(c)
  BY <1>1 DEF StretchInv, MovedInv
<1>4. k \in Nat /\ k + 1 \in 0 .. fftFrameSize2 + 1
  BY <1>1, BinsAre DEF Bins
<1>5. \A c \in Bins : MovedFrequency(c) \in Int
  <2> SUFFICES ASSUME NEW c \in Bins PROVE MovedFrequency(c) \in Int
    OBVIOUS
  <2>1. gAnaFreq[c] \in Int
    BY <1>2, FineTyped
  <2>2. pitchShift[1] \in Int /\ pitchShift[2] \in Nat \ {0}
    BY <1>2, FactorAssumption
  <2>3. PICK x \in Int, q \in Nat \ {0} : x = gAnaFreq[c] * pitchShift[1] /\ q = pitchShift[2]
    BY <2>1, <2>2
  <2>4. x \div q \in Int
    OBVIOUS
  <2> QED
    BY <2>3, <2>4 DEF MovedFrequency
<1>6. /\ \A b \in Bins : (gSynMagn')[b] = IF index = b THEN gSynMagn[b] + gAnaMagn[k]
                                                     ELSE gSynMagn[b]
      /\ \A b \in Bins : (gSynFreq')[b] = IF index = b THEN MovedFrequency(k) ELSE gSynFreq[b]
      /\ gSynMagn' \in [Bins -> Int] /\ gSynFreq' \in [Bins -> Int]
  <2>1. CASE MoveBin
    <3>1. /\ index \in Bins
          /\ gSynMagn' = [gSynMagn EXCEPT ![index] = gSynMagn[index] + gAnaMagn[k]]
          /\ gSynFreq' = [gSynFreq EXCEPT ![index] = MovedFrequency(k)]
      BY <2>1 DEF MoveBin, Moved, MovedFrequency
    <3>2. gSynMagn[index] + gAnaMagn[k] \in Int
      BY <1>1, <1>2, <1>3, <3>1
    <3>3. MovedFrequency(k) \in Int
      BY <1>1, <1>5
    <3> QED
      BY <1>3, <3>1, <3>2, <3>3
  <2>2. CASE DropBin
    <3>1. /\ index > fftFrameSize2
          /\ gSynMagn' = gSynMagn /\ gSynFreq' = gSynFreq
      BY <2>2 DEF DropBin, synthesised
    <3>2. \A b \in Bins : index # b
      BY <3>1, BinsAre DEF Bins
    <3> QED
      BY <1>3, <3>1, <3>2
  <2> QED
    BY <2>1, <2>2
<1>7. \A b \in Bins : (gSynMagn')[b] = SumUpTo(Shares(b), k + 1)
  <2> SUFFICES ASSUME NEW b \in Bins PROVE (gSynMagn')[b] = SumUpTo(Shares(b), k + 1)
    OBVIOUS
  <2>1. k \in Belong(b) <=> index = b
    BY <1>1, <1>2, BelongsWhereMoved
  <2>2. /\ SumUpTo(Shares(b), k) \in Int
        /\ SumUpTo(Shares(b), k + 1) =
             SumUpTo(Shares(b), k) + IF k \in Belong(b) THEN gAnaMagn[k] ELSE 0
    BY <1>1, <1>2, OneMoreShare
  <2>3. gSynMagn[b] = SumUpTo(Shares(b), k)
    BY <1>3
  <2>4. (gSynMagn')[b] = IF index = b THEN gSynMagn[b] + gAnaMagn[k] ELSE gSynMagn[b]
    BY <1>6
  <2> QED
    BY <2>1, <2>2, <2>3, <2>4
<1>8. ASSUME NEW b \in Bins, NEW c \in Belong(b), c < k + 1,
             \A d \in Belong(b) : d < k + 1 => d <= c
      PROVE  (gSynFreq')[b] = MovedFrequency(c)
  <2>1. k \in Belong(b) <=> index = b
    BY <1>1, <1>2, BelongsWhereMoved
  <2>2. \A d \in Belong(b) : d \in Nat
    BY BinsAre DEF Belong
  <2>3. (gSynFreq')[b] = IF index = b THEN MovedFrequency(k) ELSE gSynFreq[b]
    BY <1>6
  <2>4. CASE index = b
    <3>1. k <= c
      BY <1>4, <1>8, <2>1, <2>4
    <3>2. c = k
      BY <1>4, <1>8, <2>2, <3>1
    <3> QED
      BY <2>3, <2>4, <3>2
  <2>5. CASE index # b
    <3>1. c # k
      BY <1>8, <2>1, <2>5
    <3>2. c < k /\ \A d \in Belong(b) : d < k => d <= c
      BY <1>4, <1>8, <2>2, <3>1
    <3>3. gSynFreq[b] = MovedFrequency(c)
      BY <1>3, <3>2
    <3> QED
      BY <2>3, <2>5, <3>3
  <2> QED
    BY <2>4, <2>5
<1>9. /\ \A b : Belong(b)' = Belong(b)
      /\ \A b : Shares(b)' = Shares(b)
      /\ \A c : MovedFrequency(c)' = MovedFrequency(c)
  BY <1>1, SameAnalysis
<1>10. MovedInv'
  BY <1>1, <1>4, <1>6, <1>7, <1>8, <1>9 DEF MovedInv
<1>11. FineInv'
  BY <1>1, <1>2 DEF FineInv
<1> QED
  BY <1>1, <1>2, <1>10, <1>11 DEF StretchInv

LEMMA StretchHolds == (\A f \in Factors : f[1] >= 0) => (Spec => []StretchInv)
<1> SUFFICES ASSUME \A f \in Factors : f[1] >= 0 PROVE Spec => []StretchInv
  OBVIOUS
<1>1. Init => StretchInv
  <2> SUFFICES ASSUME Init PROVE StretchInv
    OBVIOUS
  <2>1. pitchShift \in Factors /\ pc = "window" /\ gLastPhase = [b \in Bins |-> 0]
    BY DEF Init
  <2>2. 0 \in Fine
    BY TurnIs DEF Fine
  <2> QED
    BY <2>1, <2>2 DEF StretchInv, FineInv, MovedInv
<1>2. StretchInv /\ [Next]_vars => StretchInv'
  <2> SUFFICES ASSUME StretchInv, [Next]_vars PROVE StretchInv'
    OBVIOUS
  <2>1. CASE Analyse
    BY <2>1, AnalyseStretches
  <2>2. CASE MoveBin \/ DropBin
    BY <2>2, MoveStretches
  <2>3. CASE EndShift \/ UNCHANGED vars
    <3>1. /\ pitchShift' = pitchShift /\ gLastPhase' = gLastPhase
          /\ gAnaMagn' = gAnaMagn /\ gAnaFreq' = gAnaFreq
          /\ gSynMagn' = gSynMagn /\ gSynFreq' = gSynFreq /\ k' = k
      BY <2>3 DEF EndShift, vars, static, analysed, synthesised
    <3>2. \/ pc' = pc
          \/ pc = "shift" /\ pc' = "synthesis" /\ k \notin Bins
      BY <2>3 DEF EndShift, vars
    <3>3. pc' \in {"shift", "synthesis"} => pc \in {"shift", "synthesis"}
      BY <3>2
    <3>4. FineInv'
      BY <3>1, <3>3 DEF StretchInv, FineInv
    <3>5. /\ \A b : Belong(b)' = Belong(b)
          /\ \A b : Shares(b)' = Shares(b)
          /\ \A c : MovedFrequency(c)' = MovedFrequency(c)
      BY <3>1, SameAnalysis
    <3>6. MovedInv'
      BY <3>1, <3>3, <3>5 DEF StretchInv, MovedInv
    <3>7. pc' = "synthesis" => k' = fftFrameSize2 + 1
      <4>1. CASE pc' = pc
        BY <3>1, <4>1 DEF StretchInv
      <4>2. CASE pc = "shift" /\ k \notin Bins
        <5>1. k \in 0 .. fftFrameSize2 + 1
          BY <4>2 DEF StretchInv, MovedInv
        <5> QED
          BY <3>1, <4>2, <5>1, BinsAre DEF Bins
      <4> QED
        BY <3>2, <4>1, <4>2
    <3> QED
      BY <3>1, <3>4, <3>6, <3>7 DEF StretchInv
  <2>4. CASE WindowFrame \/ Reverse \/ EndReverse \/ Combine \/ EndFft \/ Synthesise \/ Accumulate
    <3>1. pitchShift' = pitchShift /\ gLastPhase' = gLastPhase
      BY <2>4 DEF WindowFrame, Reverse, EndReverse, Combine, EndFft, Synthesise, Accumulate, static
    <3>2. pc' \notin {"shift", "synthesis"}
      BY <2>4 DEF WindowFrame, Reverse, EndReverse, Combine, EndFft, Synthesise, Accumulate,
           StartFft
    <3> QED
      BY <3>1, <3>2 DEF StretchInv, FineInv, MovedInv
  <2> QED
    BY <2>1, <2>2, <2>3, <2>4 DEF Next
<1> QED
  BY <1>1, <1>2, PTL DEF Spec

LEMMA GreatestBelongs ==
  ASSUME NEW b \in Bins, Belong(b) # {}
  PROVE  /\ Max(Belong(b)) \in Belong(b)
         /\ \A d \in Belong(b) : d <= Max(Belong(b))
<1>1. fftFrameSize2 \in Nat /\ \A c \in Belong(b) : c \in 0 .. fftFrameSize2
  BY BinsAre DEF Belong, Bins
<1> DEFINE T == {fftFrameSize2 - c : c \in Belong(b)}
<1>2. T \subseteq Nat /\ T # {}
  BY <1>1
<1>3. PICK x \in T : \A y \in T : x <= y
  BY <1>2, LeastNatural
<1>4. PICK c \in Belong(b) : x = fftFrameSize2 - c
  BY <1>3
<1>5. \A d \in Belong(b) : c >= d
  <2> SUFFICES ASSUME NEW d \in Belong(b) PROVE c >= d
    OBVIOUS
  <2>1. x <= fftFrameSize2 - d
    BY <1>3
  <2> QED
    BY <1>1, <1>4, <2>1
<1>6. Max(Belong(b)) \in Belong(b) /\ \A d \in Belong(b) : Max(Belong(b)) >= d
  BY <1>5 DEF Max
<1> QED
  BY <1>1, <1>6

(* With factors that are not negative, whatever they are, a bin has when   *)
(* all are moved (audio.cpp:441-451) all the magnitude that belongs to it  *)
(* and no other, and the frequency of the last that does, moved with it.   *)
THEOREM SpectrumStretched == (\A f \in Factors : f[1] >= 0) => (Spec => []SpectrumIsStretched)
<1> SUFFICES ASSUME \A f \in Factors : f[1] >= 0 PROVE Spec => []SpectrumIsStretched
  OBVIOUS
<1>1. StretchInv => SpectrumIsStretched
  <2> SUFFICES ASSUME StretchInv, pc = "synthesis", NEW b \in Bins
               PROVE  /\ gSynMagn[b] = SumUpTo(Shares(b), fftFrameSize2 + 1)
                      /\ Belong(b) # {} =>
                           gSynFreq[b] * pitchShift[2] = gAnaFreq[Max(Belong(b))] * pitchShift[1]
    BY DEF SpectrumIsStretched, Shares
  <2>1. /\ k = fftFrameSize2 + 1 /\ pitchShift \in Factors
        /\ gAnaFreq \in [Bins -> Fine]
        /\ gSynMagn[b] = SumUpTo(Shares(b), k)
        /\ \A c \in Belong(b) :
             c < k /\ (\A d \in Belong(b) : d < k => d <= c) => gSynFreq[b] = MovedFrequency(c)
    BY DEF StretchInv, FineInv, MovedInv
  <2>2. ASSUME Belong(b) # {}
        PROVE  gSynFreq[b] * pitchShift[2] = gAnaFreq[Max(Belong(b))] * pitchShift[1]
    <3>1. PICK c : c = Max(Belong(b))
      OBVIOUS
    <3>2. c \in Belong(b) /\ \A d \in Belong(b) : d <= c
      BY <2>2, <3>1, GreatestBelongs
    <3>3. c \in Bins /\ c < k
      BY <2>1, <3>2, BinsAre DEF Belong, Bins
    <3>4. gSynFreq[b] = MovedFrequency(c)
      BY <2>1, <3>2, <3>3
    <3>5. PICK F \in Nat, z \in Int : F = Finer /\ gAnaFreq[c] = F * z
      BY <2>1, <3>3, TurnIs DEF Fine
    <3>6. PICK p \in Int, q \in Nat \ {0} : p = pitchShift[1] /\ q = pitchShift[2] /\ F % q = 0
      BY <2>1, <3>5, FactorAssumption
    <3>7. PICK u \in Nat : F = q * u
      <4>1. F \div q \in Nat /\ F = q * (F \div q)
        BY <3>6
      <4> QED
        BY <4>1
    <3>8. PICK m \in Int : m = u * z * p
      BY <3>5, <3>6, <3>7
    <3>9. F * z * p = m * q
      <4>1. q * u * z * p = (u * z * p) * q
        <5>1. q * u * z * p = q * (u * z * p) /\ u * z * p \in Int
          OBVIOUS
        <5> QED
          BY <5>1
      <4> QED
        BY <3>7, <3>8, <4>1
    <3>10. (m * q) \div q = m
      BY <3>6, <3>8, NoRemainder
    <3>11. gSynFreq[b] = m
      BY <3>4, <3>5, <3>6, <3>9, <3>10 DEF MovedFrequency
    <3> QED
      BY <3>1, <3>5, <3>6, <3>9, <3>11
  <2> QED
    BY <2>1, <2>2
<1> QED
  BY <1>1, StretchHolds, PTL

-----------------------------------------------------------------------------
(* smbFft's indices.  A frame has a power of 2 of elements.                *)

LEMMA FrameIs ==
  /\ fftFrameSize \in Nat /\ fftFrameSize > 1
  /\ fftFrameSize2 \in Nat \ {0} /\ fftFrameSize = 2 * fftFrameSize2
  /\ Index \subseteq Nat /\ Bins \subseteq Index
<1>1. fftFrameSize \in Nat /\ fftFrameSize > 1
  BY FrameAssumption, FftAssumption
<1>2. fftFrameSize \in 2 .. fftFrameSize /\ fftFrameSize % fftFrameSize = 0
  BY <1>1
<1>3. fftFrameSize % 2 = 0
  BY <1>2, FftAssumption
<1> QED
  BY <1>1, <1>3 DEF fftFrameSize2, Index, Bins

Divisor == {d \in Nat \ {0} : fftFrameSize % d = 0}

LEMMA DivisorIs ==
  ASSUME NEW d \in Divisor
  PROVE  /\ d <= fftFrameSize
         /\ \E m \in Divisor : fftFrameSize = d * m /\ fftFrameSize \div d = m
<1>1. PICK F \in Nat \ {0} : F = fftFrameSize
  BY FrameIs
<1>2. d \in Nat \ {0} /\ F % d = 0
  BY <1>1 DEF Divisor
<1>3. PICK m : m = F \div d
  OBVIOUS
<1>4. m \in Nat /\ F = m * d
  BY <1>1, <1>2, <1>3
<1>5. m # 0
  BY <1>1, <1>2, <1>4
<1>6. d * m = F
  BY <1>2, <1>4
<1>7. F % m = 0
  BY <1>2, <1>4, <1>5, <1>6, NoRemainder
<1>8. d <= F
  BY <1>2, <1>4, <1>5
<1> QED
  BY <1>1, <1>3, <1>4, <1>5, <1>6, <1>7, <1>8 DEF Divisor

LEMMA DivisorHalves ==
  ASSUME NEW d \in Divisor, d # 1
  PROVE  \E h \in Divisor : d = 2 * h
<1>1. PICK m \in Divisor : fftFrameSize = d * m
  BY DivisorIs
<1>2. d \in Nat \ {0} /\ m \in Nat \ {0} /\ d \in 2 .. fftFrameSize /\ fftFrameSize % d = 0
  <2>1. d <= fftFrameSize /\ fftFrameSize \in Nat
    BY DivisorIs, FrameIs
  <2> QED
    BY <2>1 DEF Divisor
<1>3. d % 2 = 0
  BY <1>2, FftAssumption
<1>4. PICK h \in Nat \ {0} : d = 2 * h
  <2>1. d \div 2 \in Nat \ {0} /\ d = 2 * (d \div 2)
    BY <1>2, <1>3
  <2> QED
    BY <2>1
<1>5. d * m = (2 * m) * h /\ 2 * m \in Int
  BY <1>2, <1>4
<1>6. ((2 * m) * h) % h = 0
  BY <1>5, NoRemainder
<1>7. fftFrameSize % h = 0
  BY <1>1, <1>5, <1>6
<1> QED
  BY <1>4, <1>7 DEF Divisor

LEMMA DivisorDoubles ==
  ASSUME NEW d \in Divisor, d # fftFrameSize
  PROVE  2 * d \in Divisor /\ 2 * d <= fftFrameSize
<1>1. PICK m \in Divisor : fftFrameSize = d * m
  BY DivisorIs
<1>2. d \in Nat \ {0} /\ m \in Nat \ {0}
  BY DEF Divisor
<1>3. m # 1
  BY <1>1, <1>2
<1>4. PICK h \in Divisor : m = 2 * h
  BY <1>3, DivisorHalves
<1>5. h \in Nat \ {0}
  BY DEF Divisor
<1>6. d * (2 * h) = h * (2 * d) /\ 2 * d \in Nat \ {0}
  BY <1>2, <1>5
<1>7. (h * (2 * d)) % (2 * d) = 0
  BY <1>5, <1>6, NoRemainder
<1>8. 2 * d \in Divisor
  BY <1>1, <1>4, <1>6, <1>7 DEF Divisor
<1> QED
  BY <1>8, DivisorIs

(* Between a divisor and its double there is none.                         *)
LEMMA DivisorGap ==
  ASSUME NEW d \in Divisor, NEW e \in Divisor, d < e
  PROVE  2 * d <= e
<1> DEFINE T == {x \in Divisor : \E y \in Divisor : x < y /\ y < 2 * x}
<1>1. Divisor \subseteq Nat /\ \A x \in Divisor : x # 0
  BY DEF Divisor
<1>2. T = {}
  <2> SUFFICES ASSUME T # {} PROVE FALSE
    OBVIOUS
  <2>1. PICK x \in T : \A z \in T : x <= z
    BY <1>1, LeastNatural
  <2>2. PICK y \in Divisor : x \in Divisor /\ x < y /\ y < 2 * x
    OBVIOUS
  <2>3. x \in Nat \ {0} /\ y \in Nat
    BY <1>1, <2>2
  <2>4. x # 1 /\ y # 1
    BY <2>2, <2>3
  <2>5. PICK g \in Divisor, h \in Divisor : x = 2 * g /\ y = 2 * h
    BY <2>2, <2>4, DivisorHalves
  <2>6. g \in Nat \ {0} /\ h \in Nat
    BY <1>1
  <2>7. g < h /\ h < 2 * g /\ g < x
    BY <2>2, <2>5, <2>6
  <2>8. g \in T
    BY <2>7
  <2> QED
    BY <2>1, <2>3, <2>6, <2>7, <2>8
<1>3. d \in Nat /\ e \in Nat
  BY <1>1
<1> QED
  BY <1>2, <1>3

(* Reversing the bits of an index makes an index.                          *)
LEMMA ReversedInIndex ==
  ASSUME NEW x \in Nat
  PROVE  Reversed(x) \in Index
<1>1. PICK F \in Nat, G \in Nat \ {0} : F = fftFrameSize /\ G = fftFrameSize2 /\ F = 2 * G
  BY FrameIs
<1>2. PICK v : v = [b \in Index |-> IF b \in Bits THEN Bit(x, b) * (fftFrameSize2 \div b) ELSE 0]
  OBVIOUS
<1>3. \A b \in Index : b \in Bits <=> b \in Divisor /\ b < F
  BY <1>1 DEF Bits, Divisor, Index
<1>4. ASSUME NEW b \in Index
      PROVE  /\ v[b] \in Nat
             /\ b \notin Bits => v[b] = 0
             /\ b \in Bits => v[b] <= G \div b
  <2>1. CASE b \notin Bits
    BY <1>2, <2>1
  <2>2. CASE b \in Bits
    <3>1. b \in Nat \ {0}
      BY <1>3, <2>2 DEF Divisor
    <3>2. PICK z : z = x \div b
      OBVIOUS
    <3>3. z \in Nat
      BY <3>1, <3>2
    <3>4. Bit(x, b) \in {0, 1}
      BY <3>2, <3>3 DEF Bit
    <3>5. PICK w \in Nat : w = G \div b
      BY <3>1
    <3>6. v[b] = Bit(x, b) * w
      BY <1>1, <1>2, <2>2, <3>5
    <3> QED
      BY <2>2, <3>4, <3>5, <3>6
  <2> QED
    BY <2>1, <2>2
<1> DEFINE S == {m \in Nat : m <= F =>
                   /\ SumUpTo(v, m) \in Nat
                   /\ \A w \in Divisor : m <= w => SumUpTo(v, m) <= F - F \div w}
<1>5. 0 \in S
  <2>1. \A w \in Divisor : F \div w \in Nat /\ F \div w <= F
    <3> SUFFICES ASSUME NEW w \in Divisor PROVE F \div w \in Nat /\ F \div w <= F
      OBVIOUS
    <3>1. PICK m \in Divisor : F \div w = m
      BY <1>1, DivisorIs
    <3> QED
      BY <1>1, <3>1, DivisorIs DEF Divisor
  <2> QED
    BY <2>1, SumOfNone
<1>6. ASSUME NEW m \in Nat, m \in S
      PROVE  m + 1 \in S
  <2> SUFFICES ASSUME m + 1 <= F
               PROVE  /\ SumUpTo(v, m + 1) \in Nat
                      /\ \A w \in Divisor : m + 1 <= w => SumUpTo(v, m + 1) <= F - F \div w
    OBVIOUS
  <2>1. \A b \in 0 .. m : b \in Index
    BY <1>1 DEF Index
  <2>2. m \in Index
    BY <2>1
  <2>3. \A b \in 0 .. m : v[b] \in Int
    BY <1>4, <2>1
  <2>4. PICK s \in Nat : /\ s = SumUpTo(v, m)
                         /\ \A w \in Divisor : m <= w => s <= F - F \div w
    BY <1>6
  <2>5. SumUpTo(v, m + 1) = s + v[m] /\ v[m] \in Nat
    BY <1>4, <2>2, <2>3, <2>4, SumOfOneMore
  <2>6. ASSUME NEW w \in Divisor, m + 1 <= w
        PROVE  s + v[m] <= F - F \div w
    <3>1. w \in Nat /\ m <= w
      BY <2>6 DEF Divisor
    <3>2. CASE m \notin Bits
      <4>1. v[m] = 0 /\ s <= F - F \div w
        BY <1>4, <2>2, <2>4, <3>1, <3>2
      <4> QED
        BY <2>4, <4>1
    <3>3. CASE m \in Bits
      <4>1. m \in Divisor /\ m < F /\ m # 0
        BY <1>3, <2>2, <3>3 DEF Divisor
      <4>2. PICK a \in Divisor : F = m * a /\ F \div m = a
        BY <1>1, <4>1, DivisorIs
      <4>3. a # 1
        BY <4>1, <4>2
      <4>4. PICK h \in Nat : a = 2 * h
        BY <4>3, DivisorHalves DEF Divisor
      <4>5. G = h * m
        BY <1>1, <4>2, <4>4
      <4>6. G \div m = h
        BY <4>1, <4>5, NoRemainder
      <4>7. s <= F - 2 * h
        BY <2>4, <4>1, <4>2, <4>4
      <4>8. v[m] <= h
        BY <1>4, <2>2, <3>3, <4>6
      <4>9. PICK c \in Nat : F = w * c /\ F \div w = c
        BY <1>1, DivisorIs DEF Divisor
      <4>10. 2 * m <= w
        BY <2>6, <4>1, DivisorGap
      <4>11. c <= h
        <5> SUFFICES ASSUME h < c PROVE FALSE
          BY <4>4, <4>9
        <5>1. (2 * m) * c <= w * c /\ 2 * m \in Int
          BY <3>1, <4>10, Monotone
        <5>2. h * (2 * m) = F
          BY <4>2, <4>4
        <5>3. c * (2 * m) <= h * (2 * m)
          BY <4>9, <5>1, <5>2
        <5>4. (h + 1) * (2 * m) <= c * (2 * m)
          BY <4>9, <5>1, Monotone
        <5>5. (h + 1) * (2 * m) = h * (2 * m) + 2 * m
          BY <5>1, Distribute
        <5>6. 2 * m > 0
          BY <4>1
        <5>7. h * (2 * m) \in Int /\ c * (2 * m) \in Int
          BY <5>1
        <5> QED
          BY <5>3, <5>4, <5>5, <5>6, <5>7
      <4> QED
        BY <1>1, <2>4, <2>5, <4>4, <4>7, <4>8, <4>9, <4>11
    <3> QED
      BY <3>2, <3>3
  <2> QED
    BY <2>4, <2>5, <2>6
<1>7. \A m \in Nat : m \in S
  <2> HIDE DEF S
  <2> QED
    BY <1>5, <1>6, InductionOverSet
<1>8. F \in Divisor /\ F \div F = 1
  <2>1. F % F = 0 /\ F \div F = 1 /\ F \in Nat \ {0}
    BY <1>1
  <2> QED
    BY <1>1, <2>1 DEF Divisor
<1>9. SumUpTo(v, F) \in Nat /\ SumUpTo(v, F) <= F - 1
  BY <1>1, <1>7, <1>8
<1>10. Reversed(x) = SumUpTo(v, F)
  BY <1>1, <1>2 DEF Reversed
<1> QED
  BY <1>1, <1>9, <1>10 DEF Index

-----------------------------------------------------------------------------
(* What the variables of module Spectrum hold.                             *)

LEMMA ResiduesAre ==
  /\ Prime \in Nat /\ Prime > 2 /\ Order \in Nat \ {0} /\ Residue \subseteq Int /\ 0 \in Residue
  /\ \A x \in Int : x % Prime \in Residue
  /\ \A e \in Int : e % Order \in 0 .. Order - 1 /\ Power[e % Order] \in Residue \ {0}
<1>1. PICK P \in Nat : P = Prime /\ P > 2
  BY ResidueAssumption
<1>2. PICK R \in Nat \ {0} : R = Order
  BY <1>1 DEF Order
<1>3. \A x \in Int : x % P \in 0 .. P - 1
  BY <1>1
<1>4. \A e \in Int : e % R \in 0 .. R - 1
  OBVIOUS
<1>5. \A e \in 0 .. R - 1 : Power[e] \in Residue \ {0}
  BY <1>2, ResidueAssumption
<1>6. \A x \in Int : x % Prime \in Residue
  BY <1>1, <1>3 DEF Residue
<1>7. \A e \in Int : e % Order \in 0 .. Order - 1 /\ Power[e % Order] \in Residue \ {0}
  BY <1>2, <1>4, <1>5
<1>8. Residue \subseteq Int /\ 0 \in Residue
  BY <1>1 DEF Residue
<1> QED
  BY <1>1, <1>2, <1>6, <1>7, <1>8

LEMMA RootTyped ==
  ASSUME NEW x \in Int
  PROVE  Root(x) \in Int
<1>1. PICK s \in Int : s = Order \div fftFrameSize
  BY ResiduesAre, FrameIs
<1>2. PICK e \in Int : e = s * x
  OBVIOUS
<1>3. Power[e % Order] \in Int
  BY ResiduesAre
<1> QED
  BY <1>1, <1>2, <1>3 DEF Root

LEMMA CartesianTyped ==
  ASSUME NEW magn \in Int, NEW phase \in Int
  PROVE  Cartesian(magn, phase) \in Residue
<1>1. PICK e \in Int : e = phase \div Finer
  BY TurnIs
<1>2. PICK v \in Int : v = Power[e % Order]
  BY ResiduesAre
<1>3. magn * v \in Int
  OBVIOUS
<1> QED
  BY <1>1, <1>2, <1>3, ResiduesAre DEF Cartesian

SpectrumTypes ==
  /\ pitchShift \in Factors
  /\ gFFTworksp \in [Index -> Residue] /\ spectrum \in [Index -> Residue]
  /\ gLastPhase \in [Bins -> Int] /\ gSumPhase \in [Bins -> Int] /\ turned \in [Bins -> Int]
  /\ gAnaMagn \in [Bins -> Int] /\ gAnaFreq \in [Bins -> Int]
  /\ gSynMagn \in [Bins -> Int] /\ gSynFreq \in [Bins -> Int]
  /\ sign \in {-1, 1} /\ i \in Nat
  /\ le \in Nat \ {0} /\ le % 2 = 0
  /\ le <= fftFrameSize => le \in Divisor

(* The variables that smbFft changes.                                      *)
FftTypes ==
  /\ gFFTworksp \in [Index -> Residue]
  /\ sign \in {-1, 1} /\ i \in Nat
  /\ le \in Nat \ {0} /\ le % 2 = 0
  /\ le <= fftFrameSize => le \in Divisor

LEMMA StartTyped ==
  ASSUME NEW buffer \in [Index -> Residue], NEW s \in {-1, 1}, StartFft(buffer, s)
  PROVE  FftTypes'
<1>1. /\ gFFTworksp' = buffer /\ sign' = s /\ i' = 1 /\ le' = 2
  BY DEF StartFft
<1>2. 2 \in Divisor
  BY FrameIs DEF Divisor
<1>3. Index' = Index /\ Residue' = Residue /\ Divisor' = Divisor
  OBVIOUS
<1> QED
  BY <1>1, <1>2 DEF FftTypes

LEMMA WindowTyped ==
  ASSUME SpectrumTypes, WindowFrame
  PROVE  FftTypes'
<1>1. PICK frame \in Inputs : StartFft([x \in Index |-> (frame[x] * Window(x)) % Prime], -1)
  BY DEF WindowFrame
<1>2. frame \in [Index -> Residue]
  BY InputAssumption
<1>3. ASSUME NEW x \in Index
      PROVE  (frame[x] * Window(x)) % Prime \in Residue
  <2>1. x \in Int /\ -x \in Int
    BY FrameIs
  <2>2. PICK u \in Int, v \in Int : u = Root(x) /\ v = Root(-x)
    BY <2>1, RootTyped
  <2>3. PICK w \in Int : w = Window(x)
    BY <2>2 DEF Window
  <2>4. PICK y \in Int : y = frame[x]
    BY <1>2, ResiduesAre
  <2>5. y * w \in Int
    OBVIOUS
  <2> QED
    BY <2>3, <2>4, <2>5, ResiduesAre
<1>4. [x \in Index |-> (frame[x] * Window(x)) % Prime] \in [Index -> Residue]
  BY <1>3
<1> QED
  BY <1>1, <1>4, StartTyped

LEMMA ReverseTyped ==
  ASSUME SpectrumTypes, Reverse
  PROVE  FftTypes'
<1>1. /\ i' = i + 1 /\ i < fftFrameSize - 1 /\ sign' = sign /\ le' = le
      /\ gFFTworksp' = IF Exchanged(i)
                       THEN [gFFTworksp EXCEPT ![i] = gFFTworksp[Reversed(i)],
                                               ![Reversed(i)] = gFFTworksp[i]]
                       ELSE gFFTworksp
  BY DEF Reverse
<1>2. i \in Index /\ Reversed(i) \in Index
  <2>1. i \in Nat
    BY DEF SpectrumTypes
  <2> QED
    BY <1>1, <2>1, FrameIs, ReversedInIndex DEF Index
<1>3. gFFTworksp' \in [Index -> Residue]
  BY <1>1, <1>2 DEF SpectrumTypes
<1> QED
  BY <1>1, <1>3 DEF SpectrumTypes, FftTypes

(* A stage stays within the frame: whole blocks fit into it.               *)
LEMMA CombineTyped ==
  ASSUME SpectrumTypes, Combine
  PROVE  FftTypes'
<1> DEFINE half == le \div 2
           twiddled(x) == gFFTworksp[x] * Root(sign * (fftFrameSize \div le) * (x % half))
           f(x) == IF x % le < half THEN (gFFTworksp[x] + twiddled(x + half)) % Prime
                                    ELSE (gFFTworksp[x - half] - twiddled(x)) % Prime
<1>1. /\ le <= fftFrameSize /\ le' = 2 * le /\ sign' = sign /\ i' = i
      /\ gFFTworksp' = [x \in Index |-> f(x)]
  BY DEF Combine
<1>2. /\ le \in Divisor /\ le \in Nat \ {0} /\ le % 2 = 0 /\ sign \in Int
      /\ gFFTworksp \in [Index -> Residue]
  BY <1>1 DEF SpectrumTypes
<1>3. half \in Nat \ {0} /\ le = 2 * half
  BY <1>2
<1>4. PICK m \in Nat : fftFrameSize = le * m /\ fftFrameSize \div le = m
  BY <1>2, DivisorIs DEF Divisor
<1> HIDE DEF half
<1>5. \A x \in Index : gFFTworksp[x] \in Int
  BY <1>2, ResiduesAre
<1>6. ASSUME NEW x \in Index
      PROVE  twiddled(x) \in Int
  <2>1. PICK r \in Int : r = x % half
    BY <1>3, FrameIs
  <2>2. PICK a \in Int : a = sign * (fftFrameSize \div le) * r
    BY <1>2, <1>4
  <2>3. PICK w \in Int : w = Root(a)
    BY RootTyped
  <2>4. PICK y \in Int : y = gFFTworksp[x]
    BY <1>5
  <2>5. y * w \in Int
    OBVIOUS
  <2> QED
    BY <2>1, <2>2, <2>3, <2>4, <2>5
<1> HIDE DEF twiddled
<1>7. ASSUME NEW x \in Index
      PROVE  f(x) \in Residue
  <2>1. x \in Nat /\ x < fftFrameSize
    BY FrameIs DEF Index
  <2>2. PICK q \in Nat, r \in 0 .. le - 1 : x = q * le + r /\ r = x % le
    <3>1. PICK L \in Nat \ {0} : L = le
      BY <1>2
    <3>2. PICK q, r : q = x \div L /\ r = x % L
      OBVIOUS
    <3>3. q \in Nat /\ r \in 0 .. L - 1 /\ x = q * L + r
      BY <2>1, <3>2
    <3> QED
      BY <3>1, <3>2, <3>3
  <2>3. CASE r < half
    <3>1. x + half < fftFrameSize
      <4>1. q * le \in Int /\ m * le \in Int /\ m * le = fftFrameSize
        BY <1>2, <1>4
      <4>2. q * le < m * le
        BY <2>1, <2>2, <4>1
      <4>3. q < m
        BY <1>2, <4>2, Cancel
      <4>4. (q + 1) * le <= m * le
        <5>1. q + 1 <= m /\ q + 1 \in Int
          BY <4>3
        <5> QED
          BY <1>2, <5>1, Monotone
      <4>5. (q + 1) * le = q * le + le
        BY <1>2, Distribute
      <4> QED
        BY <1>2, <1>3, <2>2, <2>3, <4>1, <4>4, <4>5
    <3>2. x + half \in Index
      BY <1>3, <2>1, <3>1, FrameIs DEF Index
    <3>3. PICK y \in Int, z \in Int : y = gFFTworksp[x] /\ z = twiddled(x + half)
      BY <1>5, <1>6, <3>2
    <3>4. f(x) = (gFFTworksp[x] + twiddled(x + half)) % Prime
      BY <2>2, <2>3, Zenon
    <3>5. (y + z) % Prime \in Residue
      <4>1. PICK u \in Int : u = y + z
        OBVIOUS
      <4>2. u % Prime \in Residue
        BY ResiduesAre
      <4> QED
        BY <4>1, <4>2
    <3> QED
      BY <3>3, <3>4, <3>5, Zenon
  <2>4. CASE ~(r < half)
    <3>1. x - half \in Index
      <4>1. q * le \in Nat
        BY <1>2, ProductInNat
      <4>2. x >= half
        BY <1>3, <2>2, <2>4, <4>1
      <4> QED
        BY <1>3, <2>1, <4>2, FrameIs DEF Index
    <3>2. PICK y \in Int, z \in Int : y = gFFTworksp[x - half] /\ z = twiddled(x)
      BY <1>5, <1>6, <3>1
    <3>3. f(x) = (gFFTworksp[x - half] - twiddled(x)) % Prime
      BY <2>2, <2>4, Zenon
    <3>4. (y - z) % Prime \in Residue
      <4>1. PICK u \in Int : u = y - z
        OBVIOUS
      <4>2. u % Prime \in Residue
        BY ResiduesAre
      <4> QED
        BY <4>1, <4>2
    <3> QED
      BY <3>2, <3>3, <3>4, Zenon
  <2> QED
    BY <2>3, <2>4
<1>8. gFFTworksp' \in [Index -> Residue]
  <2> HIDE DEF f
  <2> QED
    BY <1>1, <1>7
<1>9. 2 * le <= fftFrameSize => 2 * le \in Divisor
  <2>1. 2 * le <= fftFrameSize => le # fftFrameSize
    BY <1>2
  <2> QED
    BY <1>2, <2>1, DivisorDoubles
<1>10. 2 * le \in Nat \ {0} /\ (2 * le) % 2 = 0
  BY <1>2
<1> QED
  BY <1>1, <1>8, <1>9, <1>10 DEF SpectrumTypes, FftTypes

LEMMA AnalyseTyped ==
  ASSUME SpectrumTypes, Analyse
  PROVE  SpectrumTypes'
<1> DEFINE phase == [b \in Bins |-> Phase(gFFTworksp[b])]
           f(b) == b * Turn + osamp * Wrapped(phase[b] - gLastPhase[b] - b * expct)
<1>1. /\ pitchShift' = pitchShift /\ gSumPhase' = gSumPhase
      /\ gFFTworksp' = gFFTworksp /\ sign' = sign /\ i' = i /\ le' = le
      /\ spectrum' = gFFTworksp
      /\ gLastPhase' = phase
      /\ turned' = [b \in Bins |-> phase[b] - gLastPhase[b]]
      /\ gAnaMagn' = [b \in Bins |-> Magnitude(gFFTworksp[b])]
      /\ gAnaFreq' = [b \in Bins |-> f(b)]
      /\ gSynMagn' = [b \in Bins |-> 0] /\ gSynFreq' = [b \in Bins |-> 0]
  BY DEF Analyse, fft
<1>2. phase \in [Bins -> Int]
  <2>1. \A v : Phase(v) \in Int
    BY PhaseFine, FineTyped
  <2> QED
    BY <2>1
<1> HIDE DEF phase
<1>3. turned' \in [Bins -> Int]
  <2>1. \A b \in Bins : phase[b] - gLastPhase[b] \in Int
    BY <1>2 DEF SpectrumTypes
  <2> QED
    BY <1>1, <2>1
<1>4. gAnaMagn' \in [Bins -> Int]
  <2>1. \A v : Magnitude(v) \in Int
    BY DEF Magnitude
  <2> QED
    BY <1>1, <2>1
<1>5. gAnaFreq' \in [Bins -> Int]
  <2>1. ASSUME NEW b \in Bins PROVE f(b) \in Int
    <3>1. b \in Nat /\ phase[b] \in Int /\ gLastPhase[b] \in Int
      BY <1>2, BinsAre DEF SpectrumTypes
    <3>2. PICK T \in Nat, o \in Nat, e \in Nat : T = Turn /\ o = osamp /\ e = expct
      BY TurnIs
    <3>3. PICK x \in Int : x = phase[b] - gLastPhase[b] - b * expct
      BY <3>1, <3>2
    <3>4. PICK w \in Int : w = Wrapped(x)
      BY WrappedTyped
    <3>5. b * T + o * w \in Int
      BY <3>1
    <3> QED
      BY <3>2, <3>3, <3>4, <3>5
  <2> HIDE DEF f
  <2> QED
    BY <1>1, <2>1
<1>6. gSynMagn' \in [Bins -> Int] /\ gSynFreq' \in [Bins -> Int]
  BY <1>1
<1> QED
  BY <1>1, <1>2, <1>3, <1>4, <1>5, <1>6 DEF SpectrumTypes

LEMMA MovedFrequencyTyped ==
  ASSUME SpectrumTypes, NEW c \in Bins
  PROVE  MovedFrequency(c) \in Int
<1>1. gAnaFreq[c] \in Int /\ pitchShift[1] \in Int /\ pitchShift[2] \in Nat \ {0}
  BY FactorAssumption DEF SpectrumTypes
<1>2. PICK x \in Int, q \in Nat \ {0} : x = gAnaFreq[c] * pitchShift[1] /\ q = pitchShift[2]
  BY <1>1
<1>3. x \div q \in Int
  OBVIOUS
<1> QED
  BY <1>2, <1>3 DEF MovedFrequency

LEMMA MoveTyped ==
  ASSUME SpectrumTypes, MoveBin
  PROVE  SpectrumTypes'
<1>1. /\ k \in Bins /\ index \in Bins
      /\ gSynMagn' = [gSynMagn EXCEPT ![index] = gSynMagn[index] + gAnaMagn[k]]
      /\ gSynFreq' = [gSynFreq EXCEPT ![index] = MovedFrequency(k)]
  BY DEF MoveBin, Moved, MovedFrequency
<1>2. gSynMagn[index] + gAnaMagn[k] \in Int
  BY <1>1 DEF SpectrumTypes
<1>3. MovedFrequency(k) \in Int
  BY <1>1, MovedFrequencyTyped
<1>4. gSynMagn' \in [Bins -> Int] /\ gSynFreq' \in [Bins -> Int]
  BY <1>1, <1>2, <1>3 DEF SpectrumTypes
<1>5. UNCHANGED <<static, analysed, fft>>
  BY DEF MoveBin
<1> QED
  BY <1>4, <1>5 DEF SpectrumTypes, static, analysed, fft

(* The phase a bin is given is a whole number, though not of turns.        *)
LEMMA AdvancedTyped ==
  ASSUME SpectrumTypes, NEW b \in Bins
  PROVE  AdvancedPhase(b) \in Int
<1>1. PICK T \in Nat, o \in Nat \ {0}, e \in Nat : T = Turn /\ o = osamp /\ e = expct
  BY TurnIs
<1>2. b \in Nat /\ gSumPhase[b] \in Int /\ gSynFreq[b] \in Int
  BY BinsAre DEF SpectrumTypes
<1>3. PICK x \in Int : x = gSynFreq[b] - b * T
  BY <1>2
<1>4. PICK y \in Int : y = x \div o
  OBVIOUS
<1>5. gSumPhase[b] + y + b * e \in Int
  BY <1>2
<1> QED
  BY <1>1, <1>3, <1>4, <1>5 DEF AdvancedPhase

LEMMA SynthesiseTyped ==
  ASSUME SpectrumTypes, Synthesise
  PROVE  FftTypes' /\ gSumPhase' \in [Bins -> Int]
<1> DEFINE buffer == [x \in Index |-> IF x \in Bins THEN Cartesian(gSynMagn[x], gSumPhase'[x])
                                                  ELSE 0]
<1>1. gSumPhase' = [b \in Bins |-> AdvancedPhase(b)] /\ StartFft(buffer, 1)
  BY DEF Synthesise
<1>2. gSumPhase' \in [Bins -> Int]
  BY <1>1, AdvancedTyped
<1>3. buffer \in [Index -> Residue]
  <2>1. \A x \in Bins : Cartesian(gSynMagn[x], (gSumPhase')[x]) \in Residue
    BY <1>2, CartesianTyped DEF SpectrumTypes
  <2> QED
    BY <2>1, ResiduesAre
<1> HIDE DEF buffer
<1> QED
  BY <1>1, <1>2, <1>3, StartTyped

LEMMA SpectrumTyped == Spec => []SpectrumTypes
<1>1. Init => SpectrumTypes
  <2> SUFFICES ASSUME Init PROVE SpectrumTypes
    OBVIOUS
  <2>1. 2 \in Divisor
    BY FrameIs DEF Divisor
  <2> QED
    BY <2>1, ResiduesAre DEF Init, SpectrumTypes
<1>2. SpectrumTypes /\ [Next]_vars => SpectrumTypes'
  <2> SUFFICES ASSUME SpectrumTypes, [Next]_vars PROVE SpectrumTypes'
    OBVIOUS
  <2>1. CASE Analyse
    BY <2>1, AnalyseTyped
  <2>2. CASE MoveBin
    BY <2>2, MoveTyped
  <2>3. CASE WindowFrame \/ Reverse \/ Combine \/ Synthesise
    <3>1. FftTypes'
      BY <2>3, WindowTyped, ReverseTyped, CombineTyped, SynthesiseTyped
    <3>2. gSumPhase' \in [Bins -> Int]
      <4>1. CASE Synthesise
        BY <4>1, SynthesiseTyped
      <4>2. CASE WindowFrame \/ Reverse \/ Combine
        BY <4>2 DEF WindowFrame, Reverse, Combine, static, SpectrumTypes
      <4> QED
        BY <2>3, <4>1, <4>2
    <3>3. /\ pitchShift' = pitchShift /\ gLastPhase' = gLastPhase
          /\ UNCHANGED <<analysed, synthesised>>
      BY <2>3 DEF WindowFrame, Reverse, Combine, Synthesise, static
    <3> QED
      BY <3>1, <3>2, <3>3 DEF SpectrumTypes, FftTypes, analysed, synthesised
  <2>4. CASE EndReverse \/ EndFft \/ DropBin \/ EndShift \/ Accumulate \/ UNCHANGED vars
    <3>1. UNCHANGED <<static, analysed, synthesised, fft>>
      BY <2>4 DEF EndReverse, EndFft, DropBin, EndShift, Accumulate, vars
    <3> QED
      BY <3>1 DEF SpectrumTypes, static, analysed, synthesised, fft
  <2> QED
    BY <2>1, <2>2, <2>3, <2>4 DEF Next
<1> QED
  BY <1>1, <1>2, PTL DEF Spec

-----------------------------------------------------------------------------
(* A factor of 1.                                                          *)

Unshifted == pitchShift[1] = pitchShift[2]

(* Every number but 0 has a direction, and a phase that differs from that  *)
(* of v by whole turns leads back to v.                                    *)
LEMMA BackFromPhase ==
  ASSUME NEW v \in Residue, NEW w \in Int
  PROVE  Cartesian(Magnitude(v), Phase(v) + w * Turn) = (2 * v) % Prime
<1>1. CASE v = 0
  <2>1. Magnitude(v) = 0
    BY <1>1 DEF Magnitude
  <2>2. PICK T \in Int, f \in Int, d \in Nat \ {0} : T = Turn /\ f = Phase(v) /\ d = Finer
    <3>1. Phase(v) \in Int
      BY PhaseFine, FineTyped, Zenon
    <3> QED
      BY <3>1, TurnIs
  <2>3. PICK x \in Int : x = f + w * T
    OBVIOUS
  <2>4. PICK e \in Int : e = x \div d
    OBVIOUS
  <2>5. PICK u \in Int : u = Power[e % Order]
    BY ResiduesAre
  <2>6. Cartesian(Magnitude(v), Phase(v) + w * Turn) = (0 * u) % Prime
    BY <2>1, <2>2, <2>3, <2>4, <2>5 DEF Cartesian
  <2>7. 0 * u = 0 /\ 2 * v = 0
    BY <1>1
  <2> QED
    BY <2>6, <2>7
<1>2. CASE v # 0
  <2>1. PICK R \in Nat \ {0}, F \in Nat \ {0} :
          R = Order /\ F = Finer /\ Turn = R * F /\ R % 2 = 0
    BY ResiduesAre, TurnIs, TurnAssumption DEF Turn
  <2>2. PICK g \in 0 .. R - 1 : Power[g] = v
    BY <1>2, <2>1, ResidueAssumption
  <2>3. Directions(v) # {}
    <3>1. PICK h \in Nat : R = 2 * h /\ R \div 2 = h
      BY <2>1
    <3>2. CASE g <= h
      <4>1. g \in 1 - h .. h /\ g % R = g
        BY <2>2, <3>1, <3>2
      <4> QED
        BY <2>1, <2>2, <3>1, <4>1 DEF Directions
    <3>3. CASE g > h
      <4>1. g - R \in 1 - h .. h
        BY <2>2, <3>1, <3>3
      <4>2. (g - R) % R = g
        BY <2>1, <2>2
      <4> QED
        BY <2>1, <2>2, <3>1, <4>1, <4>2 DEF Directions
    <3> QED
      BY <2>2, <3>1, <3>2, <3>3
  <2>4. PICK e : e = CHOOSE c \in Directions(v) : TRUE
    OBVIOUS
  <2>5. e \in Directions(v)
    BY <2>3, <2>4
  <2>6. e \in Int /\ Power[e % R] = v
    BY <2>1, <2>5 DEF Directions
  <2>7. Phase(v) = F * e
    BY <2>1, <2>3, <2>4 DEF Phase
  <2>8. PICK x \in Int : x = e + w * R
    BY <2>6
  <2>9. Phase(v) + w * Turn = x * F
    BY <2>1, <2>6, <2>7, <2>8
  <2>10. (x * F) \div F = x
    BY <2>1, <2>8, NoRemainder
  <2>11. x % R = e % R
    BY <2>1, <2>6, <2>8, SameRemainder
  <2>12. Cartesian(Magnitude(v), Phase(v) + w * Turn) = (2 * v) % Prime
    BY <1>2, <2>1, <2>6, <2>9, <2>10, <2>11 DEF Cartesian, Magnitude
  <2> QED
    BY <2>12
<1> QED
  BY <1>1, <1>2

(* The phases put together are those taken apart, up to whole turns; the   *)
(* first k bins are moved to where they are; and the transform back is     *)
(* given what came out of the first.                                       *)
PhasesAgree ==
  /\ pc \notin {"shift", "synthesis"} =>
       \A b \in Bins : \E z \in Int : gSumPhase[b] = gLastPhase[b] + z * Turn
  /\ pc \in {"shift", "synthesis"} =>
       /\ \A b \in Bins : \E z \in Int : gSumPhase[b] + turned[b] = gLastPhase[b] + z * Turn
       /\ \A b \in Bins : gAnaMagn[b] = Magnitude(spectrum[b]) /\ gLastPhase[b] = Phase(spectrum[b])

BinsStay ==
  /\ pc \in {"shift", "synthesis"} =>
       /\ k \in 0 .. fftFrameSize2 + 1
       /\ \A b \in Bins : IF b < k THEN gSynMagn[b] = gAnaMagn[b] /\ gSynFreq[b] = gAnaFreq[b]
                                   ELSE gSynMagn[b] = 0
  /\ pc = "synthesis" => k = fftFrameSize2 + 1

SpectrumReturns ==
  pc = "reverse" /\ sign = 1 => \A b \in Bins : input[b] = (2 * spectrum[b]) % Prime

UnshiftedInv == Unshifted => PhasesAgree /\ BinsStay /\ SpectrumReturns

LEMMA AnalyseUnshifted ==
  ASSUME SpectrumTypes, UnshiftedInv, Unshifted, Analyse
  PROVE  (PhasesAgree /\ BinsStay /\ SpectrumReturns)'
<1> DEFINE phase == [b \in Bins |-> Phase(gFFTworksp[b])]
<1>1. /\ pc = "analysis" /\ pc' = "shift" /\ k' = 0
      /\ gSumPhase' = gSumPhase /\ spectrum' = gFFTworksp
      /\ gLastPhase' = phase
      /\ turned' = [b \in Bins |-> phase[b] - gLastPhase[b]]
      /\ gAnaMagn' = [b \in Bins |-> Magnitude(gFFTworksp[b])]
      /\ gSynMagn' = [b \in Bins |-> 0]
  BY DEF Analyse
<1>2. ASSUME NEW b \in Bins
      PROVE  \E z \in Int : (gSumPhase')[b] + (turned')[b] = (gLastPhase')[b] + z * Turn
  <2>1. PICK z \in Int : gSumPhase[b] = gLastPhase[b] + z * Turn
    BY <1>1 DEF UnshiftedInv, PhasesAgree
  <2>2. PICK f \in Int : f = phase[b]
    <3>1. Phase(gFFTworksp[b]) \in Int
      BY PhaseFine, FineTyped, Zenon
    <3> QED
      BY <3>1
  <2>3. PICK l \in Int, T \in Int : l = gLastPhase[b] /\ T = Turn
    BY TurnIs DEF SpectrumTypes
  <2>4. (turned')[b] = f - l /\ (gLastPhase')[b] = f /\ (gSumPhase')[b] = l + z * T
    BY <1>1, <2>1, <2>2, <2>3
  <2>5. l + z * T + (f - l) = f + z * T
    <3>1. z * T \in Int
      OBVIOUS
    <3> QED
      BY <3>1
  <2> QED
    BY <2>3, <2>4, <2>5
<1>3. \A b \in Bins : /\ (gAnaMagn')[b] = Magnitude((spectrum')[b])
                      /\ (gLastPhase')[b] = Phase((spectrum')[b])
  BY <1>1
<1>4. k' \in 0 .. fftFrameSize2 + 1 /\ \A b \in Bins : ~(b < k') /\ (gSynMagn')[b] = 0
  BY <1>1, BinsAre
<1>5. PhasesAgree'
  BY <1>1, <1>2, <1>3 DEF PhasesAgree
<1>6. BinsStay'
  BY <1>1, <1>4 DEF BinsStay
<1>7. SpectrumReturns'
  BY <1>1 DEF SpectrumReturns
<1> QED
  BY <1>5, <1>6, <1>7

(* Every bin moves, and to its own place.                                  *)
LEMMA MoveUnshifted ==
  ASSUME SpectrumTypes, UnshiftedInv, Unshifted, MoveBin \/ DropBin
  PROVE  (PhasesAgree /\ BinsStay /\ SpectrumReturns)'
<1>1. /\ pc = "shift" /\ pc' = "shift" /\ k \in Bins /\ k' = k + 1
      /\ UNCHANGED <<static, analysed>>
  BY DEF MoveBin, DropBin
<1>2. PICK p \in Nat \ {0} : p = pitchShift[1] /\ p = pitchShift[2]
  BY FactorAssumption DEF SpectrumTypes, Unshifted
<1>3. k \in Nat /\ k \in Int
  BY <1>1, BinsAre
<1>4. index = k
  <2>1. k * p \in Nat
    BY <1>3
  <2>2. (k * p) \div p = k
    BY <1>3, NoRemainder
  <2> QED
    BY <1>2, <2>1, <2>2 DEF index, Truncated
<1>5. MovedFrequency(k) = gAnaFreq[k]
  <2>1. PICK f \in Int : f = gAnaFreq[k]
    BY <1>1 DEF SpectrumTypes
  <2>2. (f * p) \div p = f
    BY NoRemainder
  <2> QED
    BY <1>2, <2>1, <2>2 DEF MovedFrequency
<1>6. MoveBin
  <2>1. ~DropBin
    BY <1>1, <1>3, <1>4, BinsAre DEF DropBin, Bins
  <2> QED
    BY <2>1
<1>7. /\ gSynMagn' = [gSynMagn EXCEPT ![k] = gSynMagn[k] + gAnaMagn[k]]
      /\ gSynFreq' = [gSynFreq EXCEPT ![k] = gAnaFreq[k]]
  BY <1>4, <1>5, <1>6 DEF MoveBin, Moved, MovedFrequency
<1>8. /\ \A b \in Bins : IF b < k THEN gSynMagn[b] = gAnaMagn[b] /\ gSynFreq[b] = gAnaFreq[b]
                                  ELSE gSynMagn[b] = 0
  BY <1>1 DEF UnshiftedInv, BinsStay
<1>9. gAnaMagn' = gAnaMagn /\ gAnaFreq' = gAnaFreq
  BY <1>1 DEF analysed
<1>10. ASSUME NEW b \in Bins
       PROVE  IF b < k' THEN (gSynMagn')[b] = (gAnaMagn')[b] /\ (gSynFreq')[b] = (gAnaFreq')[b]
                        ELSE (gSynMagn')[b] = 0
  <2>1. b \in Nat
    BY BinsAre
  <2>2. CASE b = k
    <3>1. gSynMagn[k] = 0 /\ gAnaMagn[k] \in Int
      BY <1>1, <1>3, <1>8 DEF SpectrumTypes
    <3>2. (gSynMagn')[k] = gAnaMagn[k] /\ (gSynFreq')[k] = gAnaFreq[k]
      BY <1>1, <1>7, <3>1 DEF SpectrumTypes
    <3> QED
      BY <1>1, <1>3, <1>9, <2>2, <3>2
  <2>3. CASE b # k
    <3>1. (gSynMagn')[b] = gSynMagn[b] /\ (gSynFreq')[b] = gSynFreq[b]
      BY <1>7, <2>3 DEF SpectrumTypes
    <3>2. b < k' <=> b < k
      BY <1>1, <1>3, <2>1, <2>3
    <3> QED
      BY <1>8, <1>9, <3>1, <3>2
  <2> QED
    BY <2>2, <2>3
<1>11. k' \in 0 .. fftFrameSize2 + 1
  BY <1>1, <1>3, BinsAre DEF Bins
<1>12. BinsStay'
  BY <1>1, <1>10, <1>11 DEF BinsStay
<1>13. PhasesAgree'
  BY <1>1 DEF UnshiftedInv, PhasesAgree, static, analysed
<1>14. SpectrumReturns'
  BY <1>1 DEF SpectrumReturns
<1> QED
  BY <1>12, <1>13, <1>14

(* What has been put together, when every bin is where it was.             *)
LEMMA SynthesiseUnshifted ==
  ASSUME SpectrumTypes, BinInv, UnshiftedInv, Unshifted, Synthesise
  PROVE  (PhasesAgree /\ BinsStay /\ SpectrumReturns)'
<1>1. /\ pc = "synthesis" /\ pc' = "reverse"
      /\ gSumPhase' = [b \in Bins |-> AdvancedPhase(b)]
      /\ input' = [x \in Index |-> IF x \in Bins THEN Cartesian(gSynMagn[x], gSumPhase'[x])
                                                ELSE 0]
      /\ gLastPhase' = gLastPhase /\ spectrum' = spectrum
  BY DEF Synthesise, StartFft, analysed
<1>2. ASSUME NEW b \in Bins
      PROVE  \E z \in Int : AdvancedPhase(b) = gLastPhase[b] + z * Turn
  <2>1. PICK T \in Nat \ {0}, o \in Nat \ {0}, e \in Nat : T = Turn /\ o = osamp /\ e = expct
    BY TurnIs
  <2>2. b \in Nat /\ turned[b] \in Int /\ gSumPhase[b] \in Int /\ gLastPhase[b] \in Int
    BY BinsAre DEF SpectrumTypes
  <2>3. PICK t \in Int : t = turned[b] - b * e
    BY <2>2
  <2>4. PICK w \in Int, m \in Int : w = Wrapped(t) /\ t = w + m * T
    <3>1. Wrapped(t) \in Int
      BY WrappedTyped
    <3>2. \E m \in Int : t = Wrapped(t) + m * T
      BY <2>1, TurnIs, WrappedIsNearest
    <3> QED
      BY <3>1, <3>2
  <2>5. gSynFreq[b] = b * T + o * w
    <3>1. gSynFreq[b] = gAnaFreq[b]
      BY <1>1, BinsAre DEF UnshiftedInv, BinsStay, Bins
    <3>2. gAnaFreq[b] = b * Turn + osamp * Wrapped(turned[b] - b * expct)
      BY <1>1 DEF BinInv
    <3> QED
      BY <2>1, <2>3, <2>4, <3>1, <3>2
  <2>6. gSynFreq[b] - b * T = w * o
    <3>1. b * T \in Int /\ o * w \in Int /\ o * w = w * o
      BY <2>1, <2>2
    <3> QED
      BY <2>5, <3>1
  <2>7. (w * o) \div o = w
    BY NoRemainder
  <2>8. AdvancedPhase(b) = gSumPhase[b] + w + b * e
    BY <2>1, <2>6, <2>7 DEF AdvancedPhase
  <2>9. PICK z \in Int : gSumPhase[b] + turned[b] = gLastPhase[b] + z * T
    BY <1>1, <2>1 DEF UnshiftedInv, PhasesAgree
  <2>10. z * T - m * T = (z - m) * T /\ z * T \in Int /\ m * T \in Int /\ b * e \in Int
    BY <2>2, DistributeMinus
  <2>11. PICK g \in Int, l \in Int, u \in Int, c \in Int, M \in Int, Z \in Int :
           /\ g = gSumPhase[b] /\ l = gLastPhase[b] /\ u = turned[b]
           /\ c = b * e /\ M = m * T /\ Z = z * T
    BY <2>2, <2>10
  <2>12. g + w + c = l + (Z - M)
    <3>1. u - c = w + M
      BY <2>3, <2>4, <2>11
    <3>2. g + u = l + Z
      BY <2>9, <2>11
    <3> QED
      BY <3>1, <3>2
  <2>13. AdvancedPhase(b) = gLastPhase[b] + (z - m) * T
    BY <2>8, <2>10, <2>11, <2>12
  <2>14. z - m \in Int
    OBVIOUS
  <2> QED
    BY <2>1, <2>13, <2>14
<1>3. PhasesAgree'
  BY <1>1, <1>2 DEF PhasesAgree
<1>4. ASSUME NEW b \in Bins
      PROVE  (input')[b] = (2 * spectrum[b]) % Prime
  <2>1. b \in Index
    BY FrameIs
  <2>2. PICK z \in Int : AdvancedPhase(b) = Phase(spectrum[b]) + z * Turn
    BY <1>1, <1>2 DEF UnshiftedInv, PhasesAgree
  <2>3. gSynMagn[b] = Magnitude(spectrum[b])
    BY <1>1, BinsAre DEF UnshiftedInv, PhasesAgree, BinsStay, Bins
  <2>4. (input')[b] = Cartesian(gSynMagn[b], AdvancedPhase(b))
    BY <1>1, <2>1
  <2>5. spectrum[b] \in Residue
    BY <2>1 DEF SpectrumTypes
  <2> QED
    BY <2>2, <2>3, <2>4, <2>5, BackFromPhase
<1>5. SpectrumReturns'
  BY <1>1, <1>4 DEF SpectrumReturns
<1>6. BinsStay'
  BY <1>1 DEF BinsStay
<1> QED
  BY <1>3, <1>5, <1>6

LEMMA UnshiftedHolds == Spec => []UnshiftedInv
<1>1. Init => UnshiftedInv
  <2> SUFFICES ASSUME Init PROVE PhasesAgree /\ BinsStay /\ SpectrumReturns
    BY DEF UnshiftedInv
  <2>1. pc = "window" /\ gSumPhase = [b \in Bins |-> 0] /\ gLastPhase = [b \in Bins |-> 0]
    BY DEF Init
  <2>2. 0 = 0 + 0 * Turn
    BY TurnIs
  <2> QED
    BY <2>1, <2>2 DEF PhasesAgree, BinsStay, SpectrumReturns
<1>2. SpectrumTypes /\ BinInv /\ UnshiftedInv /\ [Next]_vars => UnshiftedInv'
  <2> SUFFICES ASSUME SpectrumTypes, BinInv, UnshiftedInv, [Next]_vars, Unshifted'
               PROVE  (PhasesAgree /\ BinsStay /\ SpectrumReturns)'
    BY DEF UnshiftedInv
  <2>1. pitchShift' = pitchShift
    BY DEF Next, WindowFrame, Reverse, EndReverse, Combine, EndFft, Analyse, MoveBin, DropBin,
         EndShift, Synthesise, Accumulate, vars, static
  <2>2. Unshifted
    BY <2>1 DEF Unshifted
  <2>3. CASE Analyse
    BY <2>2, <2>3, AnalyseUnshifted
  <2>4. CASE MoveBin \/ DropBin
    BY <2>2, <2>4, MoveUnshifted
  <2>5. CASE Synthesise
    BY <2>2, <2>5, SynthesiseUnshifted
  <2>6. CASE EndShift \/ UNCHANGED vars
    <3>1. UNCHANGED <<static, analysed, synthesised, fft, k>>
      BY <2>6 DEF EndShift, vars
    <3>2. pc' = pc \/ (pc = "shift" /\ pc' = "synthesis" /\ k \notin Bins)
      BY <2>6 DEF EndShift, vars
    <3>3. PhasesAgree'
      BY <2>2, <3>1, <3>2 DEF UnshiftedInv, PhasesAgree, static, analysed
    <3>4. pc' = "synthesis" => k = fftFrameSize2 + 1
      BY <2>2, <3>2, BinsAre DEF UnshiftedInv, BinsStay, Bins
    <3>5. BinsStay'
      BY <2>2, <3>1, <3>2, <3>4 DEF UnshiftedInv, BinsStay, analysed, synthesised
    <3>6. SpectrumReturns'
      BY <2>2, <3>1, <3>2 DEF UnshiftedInv, SpectrumReturns, analysed, fft
    <3> QED
      BY <3>3, <3>5, <3>6
  <2>7. CASE WindowFrame \/ Reverse \/ EndReverse \/ Combine \/ EndFft \/ Accumulate
    <3>1. UNCHANGED <<static, analysed>>
      BY <2>7 DEF WindowFrame, Reverse, EndReverse, Combine, EndFft, Accumulate
    <3>2. pc \notin {"shift", "synthesis"} /\ pc' \notin {"shift", "synthesis"}
      BY <2>7 DEF WindowFrame, StartFft, Reverse, EndReverse, Combine, EndFft, Accumulate
    <3>3. PhasesAgree'
      BY <2>2, <3>1, <3>2 DEF UnshiftedInv, PhasesAgree, static, analysed
    <3>4. BinsStay'
      BY <3>2 DEF BinsStay
    <3>5. pc' = "reverse" /\ sign' = 1 => pc = "reverse" /\ sign = 1 /\ input' = input
      BY <2>7 DEF WindowFrame, StartFft, Reverse, EndReverse, Combine, EndFft, Accumulate
    <3>6. SpectrumReturns'
      BY <2>2, <3>1, <3>5 DEF UnshiftedInv, SpectrumReturns, analysed
    <3> QED
      BY <3>3, <3>4, <3>6
  <2> QED
    BY <2>3, <2>4, <2>5, <2>6, <2>7 DEF Next
<1> QED
  BY <1>1, <1>2, SpectrumTyped, BinsHold, PTL DEF Spec

(* A factor of 1 changes nothing (audio.cpp:299), in frames of any size,   *)
(* whatever they hold and however many came before: each bin goes back to  *)
(* the transform as it came out of it.                                     *)
THEOREM NoShiftNoChange == Spec => []UnshiftedIsUnchanged
<1>1. UnshiftedInv => UnshiftedIsUnchanged
  BY DEF UnshiftedInv, Unshifted, SpectrumReturns, UnshiftedIsUnchanged
<1> QED
  BY <1>1, UnshiftedHolds, PTL

-----------------------------------------------------------------------------
(* Sums.                                                                    *)

(* A sum is the sum of its terms at even and of its terms at odd places.   *)
LEMMA SumOfHalves ==
  ASSUME NEW M \in Nat, NEW v, \A t \in 0 .. 2 * M - 1 : v[t] \in Int,
         NEW e, NEW o, \A t \in 0 .. M - 1 : e[t] = v[2 * t] /\ o[t] = v[2 * t + 1]
  PROVE  /\ SumUpTo(v, 2 * M) = SumUpTo(e, M) + SumUpTo(o, M)
         /\ SumUpTo(e, M) \in Int /\ SumUpTo(o, M) \in Int
<1> DEFINE Q(m) == /\ SumUpTo(v, 2 * m) = SumUpTo(e, m) + SumUpTo(o, m)
                   /\ SumUpTo(e, m) \in Int /\ SumUpTo(o, m) \in Int
           S == {m \in Nat : m <= M => Q(m)}
<1>1. 0 \in S
  <2>1. SumUpTo(v, 0) = 0 /\ SumUpTo(e, 0) = 0 /\ SumUpTo(o, 0) = 0 /\ 2 * 0 = 0
    BY SumOfNone
  <2> QED
    BY <2>1
<1>2. ASSUME NEW m \in Nat, m \in S
      PROVE  m + 1 \in S
  <2> SUFFICES ASSUME m + 1 <= M PROVE Q(m + 1)
    OBVIOUS
  <2>1. Q(m)
    BY <1>2
  <2>2. \A t \in 0 .. m : t \in 0 .. M - 1 /\ 2 * t \in 0 .. 2 * M - 1 /\ 2 * t + 1 \in 0 .. 2 * M - 1
    OBVIOUS
  <2>3. \A t \in 0 .. m : e[t] \in Int /\ o[t] \in Int
    BY <2>2
  <2>4. /\ SumUpTo(e, m + 1) = SumUpTo(e, m) + e[m]
        /\ SumUpTo(o, m + 1) = SumUpTo(o, m) + o[m]
    BY <2>3, SumOfOneMore
  <2>5. PICK a \in Nat : a = 2 * m
    OBVIOUS
  <2>6. a + 1 \in Nat /\ \A t \in 0 .. a + 1 : v[t] \in Int
    BY <2>5
  <2>7. SumUpTo(v, a + 1) = SumUpTo(v, a) + v[a]
    BY <2>6, SumOfOneMore
  <2>8. SumUpTo(v, (a + 1) + 1) = SumUpTo(v, a + 1) + v[a + 1]
    BY <2>6, SumOfOneMore
  <2>9. 2 * (m + 1) = (a + 1) + 1 /\ a + 1 = 2 * m + 1
    BY <2>5
  <2>10. m \in 0 .. M - 1 /\ e[m] \in Int /\ o[m] \in Int
    BY <2>3
  <2>11. e[m] = v[a] /\ o[m] = v[a + 1]
    BY <2>5, <2>9, <2>10
  <2>12. SumUpTo(v, 2 * (m + 1)) = SumUpTo(v, a) + v[a] + v[a + 1]
    BY <2>7, <2>8, <2>9
  <2> HIDE DEF Q
  <2>13. SumUpTo(v, a) = SumUpTo(e, m) + SumUpTo(o, m) /\ SumUpTo(e, m) \in Int /\ SumUpTo(o, m) \in Int
    BY <2>1, <2>5 DEF Q
  <2> QED
    BY <2>4, <2>10, <2>11, <2>12, <2>13 DEF Q
<1> HIDE DEF S
<1>3. M \in S
  BY <1>1, <1>2, InductionOverSet
<1> QED
  BY <1>3 DEF S

(* Where two families differ in one term their sums differ by as much.     *)
LEMMA SumsDiffer ==
  ASSUME NEW M \in Nat, NEW v, NEW w, NEW a \in 0 .. M - 1,
         \A t \in 0 .. M - 1 : v[t] \in Int /\ w[t] \in Int /\ (t # a => w[t] = v[t])
  PROVE  SumUpTo(v, M) \in Int /\ SumUpTo(w, M) = SumUpTo(v, M) + w[a] - v[a]
<1> DEFINE Q(m) == /\ SumUpTo(v, m) \in Int
                   /\ SumUpTo(w, m) = IF a < m THEN SumUpTo(v, m) + w[a] - v[a] ELSE SumUpTo(v, m)
           S == {m \in Nat : m <= M => Q(m)}
<1>1. 0 \in S
  <2>1. SumUpTo(v, 0) = 0 /\ SumUpTo(w, 0) = 0
    BY SumOfNone
  <2> QED
    BY <2>1
<1>2. ASSUME NEW m \in Nat, m \in S
      PROVE  m + 1 \in S
  <2> SUFFICES ASSUME m + 1 <= M PROVE Q(m + 1)
    OBVIOUS
  <2>1. Q(m)
    BY <1>2
  <2>2. \A t \in 0 .. m : v[t] \in Int /\ w[t] \in Int
    OBVIOUS
  <2>3. /\ SumUpTo(v, m + 1) = SumUpTo(v, m) + v[m]
        /\ SumUpTo(w, m + 1) = SumUpTo(w, m) + w[m]
    BY <2>2, SumOfOneMore
  <2>4. v[m] \in Int /\ w[m] \in Int /\ v[a] \in Int /\ w[a] \in Int /\ (m # a => w[m] = v[m])
    OBVIOUS
  <2> QED
    BY <2>1, <2>3, <2>4
<1> HIDE DEF S
<1>3. M \in S
  BY <1>1, <1>2, InductionOverSet
<1>4. Q(M)
  BY <1>3 DEF S
<1> QED
  BY <1>4

(* A sum of multiples is one.                                              *)
LEMMA SumOfMultiples ==
  ASSUME NEW M \in Nat, NEW v, NEW h \in Nat,
         \A t \in 0 .. M - 1 : \E z \in Nat : v[t] = z * h
  PROVE  \E z \in Nat : SumUpTo(v, M) = z * h
<1> DEFINE S == {m \in Nat : m <= M => \E z \in Nat : SumUpTo(v, m) = z * h}
<1>0. \A t \in 0 .. M - 1 : v[t] \in Int
  OBVIOUS
<1>1. 0 \in S
  <2>1. SumUpTo(v, 0) = 0 * h
    BY SumOfNone
  <2> QED
    BY <2>1
<1>2. ASSUME NEW m \in Nat, m \in S
      PROVE  m + 1 \in S
  <2> SUFFICES ASSUME m + 1 <= M PROVE \E z \in Nat : SumUpTo(v, m + 1) = z * h
    OBVIOUS
  <2>1. PICK z \in Nat : SumUpTo(v, m) = z * h
    BY <1>2
  <2>2. \A t \in 0 .. m : v[t] \in Int
    BY <1>0
  <2>3. SumUpTo(v, m + 1) = SumUpTo(v, m) + v[m]
    BY <2>2, SumOfOneMore
  <2>4. m \in 0 .. M - 1
    OBVIOUS
  <2>5. PICK y \in Nat : v[m] = y * h
    BY <2>4
  <2>6. z * h + y * h = (z + y) * h /\ z + y \in Nat
    OBVIOUS
  <2> QED
    BY <2>1, <2>3, <2>5, <2>6
<1> HIDE DEF S
<1>3. M \in S
  BY <1>1, <1>2, InductionOverSet
<1> QED
  BY <1>3 DEF S

-----------------------------------------------------------------------------
(* Numbers with the same residue.                                          *)

Same(x, y) == \E z \in Int : x = y + z * Prime

LEMMA PrimeIs == Prime \in Nat \ {0}
BY ResidueAssumption

LEMMA SameResidue ==
  ASSUME NEW x \in Int, NEW y \in Int
  PROVE  /\ Same(x, y) <=> x % Prime = y % Prime
         /\ x % Prime \in Int /\ Same(x % Prime, x)
<1>1. PICK P \in Nat \ {0} : P = Prime
  BY PrimeIs
<1>2. PICK a, b, c, d : a = x \div P /\ b = x % P /\ c = y \div P /\ d = y % P
  OBVIOUS
<1>3. a \in Int /\ b \in Int /\ c \in Int /\ d \in Int /\ x = a * P + b /\ y = c * P + d
  BY <1>2
<1>4. ASSUME NEW z \in Int, x = y + z * P
      PROVE  b = d
  BY <1>2, <1>4, SameRemainder
<1>5. ASSUME b = d
      PROVE  Same(x, y)
  <2>1. (a - c) * P = a * P - c * P /\ a - c \in Int
    BY <1>3, DistributeMinus
  <2>2. x = y + (a - c) * P
    BY <1>3, <1>5, <2>1
  <2> QED
    BY <1>1, <2>1, <2>2 DEF Same
<1>6. Same(b, x)
  <2>1. (-a) * P = -(a * P) /\ -a \in Int
    BY <1>3
  <2>2. b = x + (-a) * P
    BY <1>3, <2>1
  <2> QED
    BY <1>1, <2>1, <2>2 DEF Same
<1> QED
  BY <1>1, <1>2, <1>3, <1>4, <1>5, <1>6 DEF Same

LEMMA SameSums ==
  ASSUME NEW a \in Int, NEW b \in Int, NEW c \in Int, NEW d \in Int, Same(a, b), Same(c, d)
  PROVE  Same(a + c, b + d) /\ Same(a - c, b - d)
<1>1. PICK P \in Nat \ {0} : P = Prime
  BY PrimeIs
<1>2. PICK y \in Int, z \in Int : a = b + y * P /\ c = d + z * P
  BY <1>1 DEF Same
<1>3. a + c = (b + d) + (y + z) * P /\ a - c = (b - d) + (y - z) * P
  <2>1. (y + z) * P = y * P + z * P /\ (y - z) * P = y * P - z * P
    BY Distribute, DistributeMinus
  <2> QED
    BY <1>2, <2>1
<1>4. y + z \in Int /\ y - z \in Int
  OBVIOUS
<1> QED
  BY <1>1, <1>3, <1>4 DEF Same

LEMMA SameProducts ==
  ASSUME NEW a \in Int, NEW b \in Int, NEW c \in Int, NEW d \in Int, Same(a, b), Same(c, d)
  PROVE  Same(a * c, b * d)
<1>1. PICK P \in Nat \ {0} : P = Prime
  BY PrimeIs
<1>2. PICK y \in Int, z \in Int : a = b + y * P /\ c = d + z * P
  BY <1>1 DEF Same
<1>3. PICK w \in Int : w = b * z + y * d + y * z * P
  OBVIOUS
<1>4. (b + y * P) * (d + z * P) = b * d + (b * z + y * d + y * z * P) * P
  OBVIOUS
<1>5. a * c = b * d + w * P
  BY <1>2, <1>3, <1>4
<1> QED
  BY <1>1, <1>5 DEF Same

LEMMA SameIsEquivalence ==
  ASSUME NEW a \in Int, NEW b \in Int, NEW c \in Int
  PROVE  /\ Same(a, a)
         /\ Same(a, b) => Same(b, a)
         /\ Same(a, b) /\ Same(b, c) => Same(a, c)
BY SameResidue

(* Equal terms, up to multiples of Prime, make equal sums.                 *)
LEMMA SumsSame ==
  ASSUME NEW M \in Nat, NEW v, NEW w,
         \A t \in 0 .. M - 1 : v[t] \in Int /\ w[t] \in Int /\ Same(v[t], w[t])
  PROVE  SumUpTo(v, M) \in Int /\ SumUpTo(w, M) \in Int /\ Same(SumUpTo(v, M), SumUpTo(w, M))
<1> DEFINE Q(m) == SumUpTo(v, m) \in Int /\ SumUpTo(w, m) \in Int /\ Same(SumUpTo(v, m), SumUpTo(w, m))
           S == {m \in Nat : m <= M => Q(m)}
<1>1. 0 \in S
  <2>1. SumUpTo(v, 0) = 0 /\ SumUpTo(w, 0) = 0
    BY SumOfNone
  <2>2. Same(0, 0)
    BY SameIsEquivalence
  <2> QED
    BY <2>1, <2>2
<1>2. ASSUME NEW m \in Nat, m \in S
      PROVE  m + 1 \in S
  <2> SUFFICES ASSUME m + 1 <= M PROVE Q(m + 1)
    OBVIOUS
  <2>1. \A t \in 0 .. m : v[t] \in Int /\ w[t] \in Int
    OBVIOUS
  <2>2. /\ SumUpTo(v, m + 1) = SumUpTo(v, m) + v[m]
        /\ SumUpTo(w, m + 1) = SumUpTo(w, m) + w[m]
    BY <2>1, SumOfOneMore
  <2>3. v[m] \in Int /\ w[m] \in Int /\ Same(v[m], w[m])
    OBVIOUS
  <2>4. Q(m)
    BY <1>2
  <2>5. Same(SumUpTo(v, m) + v[m], SumUpTo(w, m) + w[m])
    BY <2>3, <2>4, SameSums
  <2> QED
    BY <2>2, <2>3, <2>4, <2>5
<1> HIDE DEF S
<1>3. M \in S
  BY <1>1, <1>2, InductionOverSet
<1> QED
  BY <1>3 DEF S

(* A factor of all the terms is one of the sum.                            *)
LEMMA SumOfProducts ==
  ASSUME NEW M \in Nat, NEW v, NEW w, NEW c \in Int,
         \A t \in 0 .. M - 1 : v[t] \in Int /\ w[t] = c * v[t]
  PROVE  SumUpTo(v, M) \in Int /\ SumUpTo(w, M) = c * SumUpTo(v, M)
<1> DEFINE Q(m) == SumUpTo(v, m) \in Int /\ SumUpTo(w, m) = c * SumUpTo(v, m)
           S == {m \in Nat : m <= M => Q(m)}
<1>0. \A t \in 0 .. M - 1 : w[t] \in Int
  OBVIOUS
<1>1. 0 \in S
  <2>1. SumUpTo(v, 0) = 0 /\ SumUpTo(w, 0) = 0 /\ c * 0 = 0
    BY SumOfNone
  <2> QED
    BY <2>1
<1>2. ASSUME NEW m \in Nat, m \in S
      PROVE  m + 1 \in S
  <2> SUFFICES ASSUME m + 1 <= M PROVE Q(m + 1)
    OBVIOUS
  <2>1. \A t \in 0 .. m : v[t] \in Int /\ w[t] \in Int
    BY <1>0
  <2>2. /\ SumUpTo(v, m + 1) = SumUpTo(v, m) + v[m]
        /\ SumUpTo(w, m + 1) = SumUpTo(w, m) + w[m]
    BY <2>1, SumOfOneMore
  <2>3. v[m] \in Int /\ w[m] = c * v[m]
    OBVIOUS
  <2>4. PICK x \in Int, y \in Int : x = SumUpTo(v, m) /\ y = v[m] /\ SumUpTo(w, m) = c * x
    BY <1>2, <2>3
  <2>5. c * (x + y) = c * x + c * y
    OBVIOUS
  <2> QED
    BY <2>2, <2>3, <2>4, <2>5
<1> HIDE DEF S
<1>3. M \in S
  BY <1>1, <1>2, InductionOverSet
<1> QED
  BY <1>3 DEF S

-----------------------------------------------------------------------------
(* Powers of Generator.                                                    *)

ArePowers(u, M) == \A e \in 0 .. M : u[e] = IF e = 0 THEN 1 ELSE (u[e - 1] * Generator) % Prime

LEMMA PowersExist ==
  ASSUME NEW M \in Nat
  PROVE  \E u \in [0 .. M -> Int] : ArePowers(u, M)
<1> DEFINE S == {m \in Nat : \E u \in [0 .. m -> Int] : ArePowers(u, m)}
<1>0. PICK P \in Nat \ {0}, g \in Nat : P = Prime /\ g = Generator
  BY ResidueAssumption
<1>1. 0 \in S
  <2>1. [e \in 0 .. 0 |-> 1] \in [0 .. 0 -> Int]
    OBVIOUS
  <2>2. ArePowers([e \in 0 .. 0 |-> 1], 0)
    BY DEF ArePowers
  <2> QED
    BY <2>1, <2>2
<1>2. ASSUME NEW m \in Nat, m \in S
      PROVE  m + 1 \in S
  <2>1. PICK u \in [0 .. m -> Int] : ArePowers(u, m)
    BY <1>2
  <2>2. PICK x \in Int : x = u[m]
    OBVIOUS
  <2>3. PICK y \in Int : y = (x * g) % P
    <3>1. x * g \in Int
      OBVIOUS
    <3> QED
      BY <3>1
  <2>4. PICK w : w = [e \in 0 .. m + 1 |-> IF e = m + 1 THEN y ELSE u[e]]
    OBVIOUS
  <2>5. w \in [0 .. m + 1 -> Int]
    BY <2>4
  <2>6. ASSUME NEW e \in 0 .. m + 1
        PROVE  w[e] = IF e = 0 THEN 1 ELSE (w[e - 1] * Generator) % Prime
    <3>1. CASE e = m + 1
      <4>1. w[e] = y /\ w[e - 1] = x /\ e # 0
        BY <2>2, <2>4, <3>1
      <4> QED
        BY <1>0, <2>3, <4>1
    <3>2. CASE e # m + 1
      <4>1. e \in 0 .. m /\ w[e] = u[e]
        BY <2>4, <3>2
      <4>2. e # 0 => w[e - 1] = u[e - 1]
        BY <2>4, <4>1
      <4>3. u[e] = IF e = 0 THEN 1 ELSE (u[e - 1] * Generator) % Prime
        BY <2>1, <4>1 DEF ArePowers
      <4> QED
        BY <4>1, <4>2, <4>3
    <3> QED
      BY <3>1, <3>2
  <2>7. ArePowers(w, m + 1)
    BY <2>6 DEF ArePowers
  <2> QED
    BY <2>5, <2>7
<1> HIDE DEF S
<1>3. M \in S
  BY <1>1, <1>2, InductionOverSet
<1> QED
  BY <1>3 DEF S

LEMMA PowerIs ==
  /\ Power[0] = 1
  /\ \A e \in 0 .. Order : Power[e] \in Int
  /\ \A e \in 0 .. Order - 1 : Power[e + 1] = (Power[e] * Generator) % Prime
<1> DEFINE Is(u) == u = [e \in 0 .. Order |-> IF e = 0 THEN 1 ELSE (u[e - 1] * Generator) % Prime]
<1>1. Power = CHOOSE u : Is(u)
  BY Zenon DEF Power
<1>2. PICK R \in Nat : R = Order
  BY ResiduesAre
<1>3. PICK u \in [0 .. R -> Int] : ArePowers(u, R)
  BY <1>2, PowersExist
<1>4. Is(u)
  BY <1>2, <1>3 DEF ArePowers
<1>5. Is(Power)
  BY <1>1, <1>4, Zenon
<1>6. \A e \in 0 .. R : Power[e] = IF e = 0 THEN 1 ELSE (Power[e - 1] * Generator) % Prime
  BY <1>2, <1>5
<1> HIDE DEF Is
<1>7. Power[0] = 1
  BY <1>6
<1>8. ASSUME NEW e \in 0 .. R - 1
      PROVE  Power[e + 1] = (Power[e] * Generator) % Prime
  <2>1. e + 1 \in 0 .. R /\ e + 1 # 0 /\ (e + 1) - 1 = e
    OBVIOUS
  <2> QED
    BY <1>6, <2>1
<1>9. ASSUME NEW e \in 0 .. R
      PROVE  Power[e] \in Int
  <2>1. CASE e = R
    BY <1>2, <2>1, ResidueAssumption
  <2>2. CASE e # R
    <3>1. e \in 0 .. R - 1 /\ e \in Int /\ e % R = e
      BY <2>2
    <3> QED
      BY <1>2, <3>1, ResiduesAre
  <2> QED
    BY <2>1, <2>2
<1> QED
  BY <1>2, <1>7, <1>8, <1>9

(* The power of a sum is the product of the powers.                        *)
LEMMA PowerOfSum ==
  ASSUME NEW a \in Nat, NEW b \in Nat, a + b <= Order
  PROVE  Same(Power[a + b], Power[a] * Power[b])
<1>1. PICK R \in Nat : R = Order
  BY ResiduesAre
<1>2. PICK g \in Int, P \in Nat \ {0} : g = Generator /\ P = Prime
  BY ResidueAssumption
<1> DEFINE S == {m \in Nat : a + m <= R => Same(Power[a + m], Power[a] * Power[m])}
<1>3. Power[a] \in Int
  BY <1>1, PowerIs
<1>4. 0 \in S
  <2>1. a + 0 = a /\ Power[a] * Power[0] = Power[a]
    BY <1>3, PowerIs
  <2>2. Same(Power[a], Power[a])
    BY <1>3, SameIsEquivalence
  <2> QED
    BY <2>1, <2>2
<1>5. ASSUME NEW m \in Nat, m \in S
      PROVE  m + 1 \in S
  <2> SUFFICES ASSUME a + (m + 1) <= R PROVE Same(Power[a + (m + 1)], Power[a] * Power[m + 1])
    OBVIOUS
  <2>1. Same(Power[a + m], Power[a] * Power[m])
    BY <1>5
  <2>2. m \in 0 .. R - 1 /\ a + m \in 0 .. R - 1 /\ a + (m + 1) = (a + m) + 1
    OBVIOUS
  <2>3. PICK x \in Int, y \in Int, z \in Int : x = Power[a] /\ y = Power[m] /\ z = Power[a + m]
    BY <1>1, <1>3, <2>2, PowerIs
  <2>4. PICK d \in Int, e \in Int : d = y * g /\ e = z * g
    OBVIOUS
  <2>5. Power[m + 1] = d % P /\ Power[a + (m + 1)] = e % P
    BY <1>1, <1>2, <2>2, <2>3, <2>4, PowerIs
  <2>6. Same(g, g) /\ Same(x, x)
    BY SameIsEquivalence
  <2>7. x * y \in Int /\ x * d \in Int /\ (x * y) * g \in Int
    OBVIOUS
  <2>8. Same(e, (x * y) * g)
    BY <2>1, <2>3, <2>4, <2>6, <2>7, SameProducts
  <2>9. (x * y) * g = x * d
    BY <2>4
  <2>10. d % P \in Int /\ e % P \in Int /\ Same(d % P, d) /\ Same(e % P, e)
    BY <1>2, SameResidue
  <2>11. Same(x * (d % P), x * d) /\ x * (d % P) \in Int
    <3>1. x * (d % P) \in Int
      BY <2>10
    <3> QED
      BY <2>6, <2>10, <3>1, SameProducts
  <2>12. Same(e % P, x * d)
    BY <2>4, <2>7, <2>8, <2>9, <2>10, SameIsEquivalence
  <2>13. Same(e % P, x * (d % P))
    BY <2>7, <2>10, <2>11, <2>12, SameIsEquivalence
  <2> QED
    BY <2>3, <2>5, <2>13
<1> HIDE DEF S
<1>6. b \in S
  BY <1>4, <1>5, InductionOverSet
<1> QED
  BY <1>1, <1>6 DEF S

(* The powers, for exponents of any size.                                  *)
Cyclic(e) == Power[e % Order]

LEMMA CyclicOfSum ==
  ASSUME NEW a \in Int, NEW b \in Int
  PROVE  Cyclic(a) \in Int /\ Same(Cyclic(a + b), Cyclic(a) * Cyclic(b))
<1>1. PICK R \in Nat \ {0} : R = Order
  BY ResiduesAre
<1>2. PICK r, s : r = a % R /\ s = b % R
  OBVIOUS
<1>3. r \in 0 .. R - 1 /\ s \in 0 .. R - 1
  BY <1>2
<1>4. (a + b) % R = (r + s) % R
  <2>1. PICK x \in Int, y \in Int : x = a \div R /\ y = b \div R
    OBVIOUS
  <2>2. a = x * R + r /\ b = y * R + s
    BY <1>2, <2>1
  <2>3. (x + y) * R = x * R + y * R /\ x + y \in Int
    BY Distribute
  <2>4. PICK u \in Int, z \in Int : u = r + s /\ z = x + y
    BY <1>3, <2>3
  <2>5. z * R = x * R + y * R
    BY <2>3, <2>4
  <2>6. a + b = u + z * R
    <3>1. PICK v \in Int, w \in Int : v = x * R /\ w = y * R
      OBVIOUS
    <3>2. a = v + r /\ b = w + s /\ z * R = v + w
      BY <2>2, <2>5, <3>1
    <3> QED
      BY <1>3, <2>4, <3>2
  <2>7. (u + z * R) % R = u % R
    BY SameRemainder
  <2> QED
    BY <2>4, <2>6, <2>7
<1>5. Cyclic(a) = Power[r] /\ Cyclic(b) = Power[s] /\ Cyclic(a + b) = Power[(r + s) % R]
  BY <1>1, <1>2, <1>4 DEF Cyclic
<1>6. \A e \in 0 .. R : Power[e] \in Int
  BY <1>1, PowerIs
<1>7. Same(Power[(r + s) % R], Power[r] * Power[s])
  <2>1. CASE r + s < R
    <3>1. (r + s) % R = r + s
      BY <1>3, <2>1
    <3> QED
      BY <1>1, <1>3, <2>1, <3>1, PowerOfSum
  <2>2. CASE r + s >= R
    <3>1. PICK c \in Nat, d \in Nat : d = R - r /\ c = r + s - R
      BY <1>3, <2>2
    <3>2. (r + s) % R = c /\ s = d + c /\ r + d = R /\ d \in 0 .. R /\ c \in 0 .. R
      BY <1>3, <2>2, <3>1
    <3>3. PICK u \in Int, v \in Int, w \in Int, z \in Int :
            u = Power[r] /\ v = Power[d] /\ w = Power[c] /\ z = Power[s]
      BY <1>3, <1>6, <3>2
    <3>4. Same(1, u * v)
      <4>1. Power[R] = 1
        BY <1>1, ResidueAssumption
      <4> QED
        BY <1>1, <1>3, <3>1, <3>2, <3>3, <4>1, PowerOfSum
    <3>5. Same(z, v * w)
      BY <1>1, <1>3, <3>1, <3>2, <3>3, PowerOfSum
    <3>6. u * v \in Int /\ v * w \in Int /\ u * z \in Int /\ u * (v * w) \in Int
      OBVIOUS
    <3>7. Same(w, w) /\ Same(u, u)
      BY SameIsEquivalence
    <3>8. Same(1 * w, (u * v) * w)
      BY <3>4, <3>6, <3>7, SameProducts
    <3>9. Same(u * z, u * (v * w))
      BY <3>5, <3>6, <3>7, SameProducts
    <3>10. 1 * w = w /\ (u * v) * w = u * (v * w)
      OBVIOUS
    <3>11. Same(w, u * (v * w))
      BY <3>8, <3>10
    <3>12. Same(w, u * z)
      BY <3>6, <3>9, <3>11, SameIsEquivalence
    <3> QED
      BY <3>2, <3>3, <3>12
  <2> QED
    BY <1>3, <2>1, <2>2
<1> QED
  BY <1>3, <1>5, <1>6, <1>7

(* No two of the powers are the same.                                      *)
LEMMA PowersDiffer ==
  ASSUME NEW a \in 0 .. Order - 1, NEW b \in 0 .. Order - 1, Power[a] = Power[b]
  PROVE  a = b
<1>1. PICK R \in Nat \ {0} : R = Order
  BY ResiduesAre
<1>2. PICK P \in Nat : P = Prime /\ P = R + 1 /\ Residue = 0 .. P - 1
  BY <1>1, ResidueAssumption DEF Order, Residue
<1> DEFINE D == 0 .. R - 1
           T == 1 .. R
<1>3. T = Residue \ {0}
  BY <1>2
<1>4. PICK f : f = [e \in D |-> Power[e]]
  OBVIOUS
<1>5. \A e \in D : Power[e] \in T
  BY <1>1, <1>3, ResidueAssumption
<1>6. \A x \in T : \E e \in D : Power[e] = x
  BY <1>1, <1>3, ResidueAssumption
<1>7. f \in Surjection(D, T)
  <2>1. f \in [D -> T] /\ \A x \in T : \E e \in D : f[e] = x
    BY <1>4, <1>5, <1>6
  <2> QED
    BY <2>1 DEF Surjection
<1>8. IsFiniteSet(D) /\ IsFiniteSet(T) /\ Cardinality(D) = R /\ Cardinality(T) = R
  <2>1. /\ IsFiniteSet(0 .. R - 1) /\ IsFiniteSet(1 .. R)
        /\ Cardinality(0 .. R - 1) = IF 0 > R - 1 THEN 0 ELSE R - 1 - 0 + 1
        /\ Cardinality(1 .. R) = IF 1 > R THEN 0 ELSE R - 1 + 1
    BY FS_Interval
  <2> QED
    BY <2>1
<1>9. f \in Injection(D, T)
  BY <1>7, <1>8, FS_SurjSameCardinalityImpliesInj
<1>10. a \in D /\ b \in D /\ f[a] = f[b]
  BY <1>1, <1>4
<1> HIDE DEF D, T
<1> QED
  BY <1>9, <1>10 DEF Injection, IsInjective

-----------------------------------------------------------------------------
(* Roots of unity.                                                         *)

LEMMA RootIs ==
  \E z \in Nat \ {0} : z * fftFrameSize = Order /\ \A a \in Int : Root(a) = Cyclic(z * a)
<1>1. PICK F \in Nat \ {0} : F = fftFrameSize
  BY FrameIs
<1>2. PICK R \in Nat \ {0} : R = Order
  BY ResiduesAre
<1>3. R % F = 0
  BY <1>1, <1>2, ResidueAssumption
<1>4. PICK z : z = R \div F
  OBVIOUS
<1>5. z \in Nat /\ R = z * F
  BY <1>3, <1>4
<1>6. z # 0
  BY <1>5
<1>7. \A a \in Int : Root(a) = Cyclic(z * a)
  BY <1>1, <1>2, <1>4 DEF Root, Cyclic
<1> QED
  BY <1>1, <1>2, <1>5, <1>6, <1>7

LEMMA RootOfSum ==
  ASSUME NEW a \in Int, NEW b \in Int
  PROVE  Same(Root(a + b), Root(a) * Root(b))
<1>1. PICK z \in Nat : \A c \in Int : Root(c) = Cyclic(z * c)
  BY RootIs
<1>2. PICK x \in Int, y \in Int : x = z * a /\ y = z * b
  OBVIOUS
<1>3. z * (a + b) = x + y /\ a + b \in Int
  BY <1>2
<1> QED
  BY <1>1, <1>2, <1>3, CyclicOfSum

(* A whole turn does not count.                                            *)
LEMMA RootTurns ==
  ASSUME NEW a \in Int, NEW m \in Int
  PROVE  Root(a + m * fftFrameSize) = Root(a)
<1>1. PICK z \in Nat : z * fftFrameSize = Order /\ \A c \in Int : Root(c) = Cyclic(z * c)
  BY RootIs
<1>2. PICK F \in Nat, R \in Nat \ {0} : F = fftFrameSize /\ R = Order /\ z * F = R
  BY <1>1, FrameIs, ResiduesAre
<1>3. PICK x \in Int, w \in Int : x = z * a /\ w = a + m * F
  OBVIOUS
<1>4. z * (a + m * F) = z * a + m * (z * F)
  OBVIOUS
<1>5. z * w = x + m * R
  BY <1>2, <1>3, <1>4
<1>6. (x + m * R) % R = x % R
  BY <1>2, SameRemainder
<1>7. Root(w) = Power[(x + m * R) % R] /\ Root(a) = Power[x % R]
  BY <1>1, <1>2, <1>3, <1>5 DEF Cyclic
<1> QED
  BY <1>2, <1>3, <1>6, <1>7

LEMMA RootOfNone == Root(0) = 1
<1>1. PICK z \in Nat : \A c \in Int : Root(c) = Cyclic(z * c)
  BY RootIs
<1>2. PICK R \in Nat \ {0} : R = Order
  BY ResiduesAre
<1>3. z * 0 = 0 /\ 0 % R = 0
  BY <1>2
<1> QED
  BY <1>1, <1>2, <1>3, PowerIs DEF Cyclic

(* Half a turn is a change of sign: -1 is a power, its square is 1, and    *)
(* only one other power has that square.                                   *)
LEMMA RootOfHalf == Same(Root(fftFrameSize2), -1)
<1>1. PICK z \in Nat : z * fftFrameSize = Order /\ \A c \in Int : Root(c) = Cyclic(z * c)
  BY RootIs
<1>2. PICK G \in Nat \ {0}, F \in Nat, R \in Nat \ {0} :
        G = fftFrameSize2 /\ F = fftFrameSize /\ R = Order /\ F = 2 * G /\ z * F = R
  BY <1>1, FrameIs, ResiduesAre
<1>3. PICK P \in Nat : P = Prime /\ P = R + 1 /\ P > 2
  BY <1>2, ResidueAssumption DEF Order
<1>4. P - 1 \in Residue \ {0}
  BY <1>3 DEF Residue
<1>5. PICK j \in 0 .. R - 1 : Power[j] = P - 1
  BY <1>2, <1>4, ResidueAssumption
<1>6. Same(P - 1, -1)
  <2>1. P - 1 = -1 + 1 * P
    BY <1>3
  <2> QED
    BY <1>3, <2>1 DEF Same
<1>7. j % R = j
  OBVIOUS
<1>8. Cyclic(j) = P - 1
  BY <1>2, <1>5, <1>7 DEF Cyclic
<1>9. PICK c \in Int : c = Cyclic(2 * j)
  BY CyclicOfSum
<1>10. Same(c, 1)
  <2>1. Same(c, (P - 1) * (P - 1))
    <3>1. j \in Int /\ 2 * j = j + j
      OBVIOUS
    <3> QED
      BY <1>8, <1>9, <3>1, CyclicOfSum
  <2>2. P - 1 \in Int /\ -1 \in Int /\ (-1) * (-1) = 1
    OBVIOUS
  <2>3. Same((P - 1) * (P - 1), 1)
    BY <1>6, <2>2, SameProducts
  <2>4. (P - 1) * (P - 1) \in Int
    OBVIOUS
  <2> QED
    BY <2>1, <2>3, <2>4, SameIsEquivalence
<1>11. PICK e \in 0 .. R - 1 : e = (2 * j) % R
  OBVIOUS
<1>12. Power[e] = 1
  <2>1. c = Power[e] /\ c \in Residue
    <3>1. 2 * j \in Int
      OBVIOUS
    <3> QED
      BY <1>2, <1>9, <1>11, <3>1, ResiduesAre DEF Cyclic
  <2>2. c % P = 1 % P
    BY <1>3, <1>10, SameResidue
  <2>3. c \in 0 .. P - 1
    BY <1>3, <2>1 DEF Residue
  <2>4. c = 1
    BY <1>3, <2>2, <2>3
  <2> QED
    BY <2>1, <2>4
<1>13. e = 0
  <2>1. Power[0] = 1 /\ 0 \in 0 .. R - 1
    BY PowerIs
  <2> QED
    BY <1>2, <1>12, <2>1, PowersDiffer
<1>14. j = 0 \/ 2 * j = R
  BY <1>11, <1>13
<1>15. j # 0
  BY <1>3, <1>5, PowerIs
<1>16. j = z * G
  <2>1. z * (2 * G) = 2 * (z * G) /\ z * G \in Int
    OBVIOUS
  <2> QED
    BY <1>2, <1>14, <1>15, <2>1
<1>17. Root(G) = P - 1
  BY <1>1, <1>8, <1>16
<1> QED
  BY <1>2, <1>6, <1>17

LEMMA RootOfHalfTurn ==
  ASSUME NEW s \in {-1, 1}
  PROVE  Same(Root(s * fftFrameSize2), -1)
<1>1. PICK G \in Nat, F \in Nat : G = fftFrameSize2 /\ F = fftFrameSize /\ F = 2 * G
  BY FrameIs
<1>2. CASE s = 1
  <2>1. s * G = G
    BY <1>2
  <2> QED
    BY <1>1, <2>1, RootOfHalf
<1>3. CASE s = -1
  <2>1. s * G \in Int /\ s * G + 1 * F = G
    BY <1>1, <1>3
  <2>2. Root(s * G + 1 * F) = Root(s * G)
    BY <1>1, <2>1, RootTurns
  <2> QED
    BY <1>1, <2>1, <2>2, RootOfHalf
<1> QED
  BY <1>2, <1>3

-----------------------------------------------------------------------------
(* The bits of an index, and its reverse.                                  *)

(* Quotient and remainder of a number that is written as such.             *)
LEMMA QuotientIs ==
  ASSUME NEW m \in Int, NEW y \in Nat \ {0}, NEW r \in 0 .. y - 1
  PROVE  (m * y + r) \div y = m /\ (m * y + r) % y = r
<1>1. PICK p \in Int : p = m * y
  OBVIOUS
<1>2. PICK x \in Int : x = p + r
  OBVIOUS
<1>3. (r + m * y) % y = r % y
  <2>1. r \in Int
    OBVIOUS
  <2> QED
    BY <2>1, SameRemainder
<1>4. r + m * y = x /\ m * y + r = x /\ r % y = r
  BY <1>1, <1>2
<1>5. x % y = r
  BY <1>3, <1>4
<1>6. PICK q \in Int : q = x \div y
  OBVIOUS
<1>7. x = q * y + r
  BY <1>5, <1>6
<1>8. q * y = m * y
  BY <1>1, <1>2, <1>7
<1>9. ~(q < m) /\ ~(m < q)
  <2>1. q < m => q + 1 <= m /\ (q + 1) * y <= m * y /\ (q + 1) * y = q * y + y
    BY <1>6, Monotone, Distribute
  <2>2. m < q => m + 1 <= q /\ (m + 1) * y <= q * y /\ (m + 1) * y = m * y + y
    BY <1>6, Monotone, Distribute
  <2> QED
    BY <1>1, <1>8, <2>1, <2>2
<1> QED
  BY <1>4, <1>5, <1>6, <1>9

LEMMA QuotientOfBlock ==
  ASSUME NEW L \in Nat \ {0}, NEW m \in Nat \ {0}, NEW q \in Nat, NEW r \in 0 .. L - 1
  PROVE  (q * L + r) \div (m * L) = q \div m
<1>1. PICK u, v : u = q \div m /\ v = q % m
  OBVIOUS
<1>2. u \in Nat /\ v \in 0 .. m - 1 /\ q = u * m + v
  BY <1>1
<1>3. PICK y \in Nat, x \in Nat : y = m * L /\ x = v * L
  BY <1>2, ProductInNat
<1>4. x + r < y
  <2>1. (v + 1) * L <= m * L /\ (v + 1) * L = v * L + L
    <3>1. v + 1 \in Int /\ v + 1 <= m /\ v \in Int
      BY <1>2
    <3> QED
      BY <3>1, Monotone, Distribute
  <2> QED
    BY <1>3, <2>1
<1>5. q * L + r = u * y + (x + r)
  <2>1. (u * m + v) * L = u * (m * L) + v * L
    BY <1>2
  <2>2. q * L = u * y + x
    BY <1>2, <1>3, <2>1
  <2>3. u * y \in Int
    BY <1>2
  <2> QED
    BY <1>3, <2>2, <2>3
<1>6. x + r \in 0 .. y - 1 /\ y \in Nat \ {0}
  BY <1>3, <1>4
<1>7. (u * y + (x + r)) \div y = u
  BY <1>2, <1>6, QuotientIs
<1> QED
  BY <1>1, <1>3, <1>5, <1>7

LEMMA BitsAre ==
  ASSUME NEW b
  PROVE  b \in Bits <=> b \in Divisor /\ b < fftFrameSize
BY FrameIs DEF Bits, Divisor, Index

(* Of two bits the greater is an even multiple of the other.               *)
LEMMA BitsNest ==
  ASSUME NEW b \in Divisor, NEW h \in Divisor, b < h
  PROVE  \E m \in Nat \ {0} : h = (2 * m) * b
<1> DEFINE T == {x \in Divisor : b < x /\ ~\E m \in Nat \ {0} : x = (2 * m) * b}
<1>1. \A x \in Divisor : x \in Nat \ {0}
  BY DEF Divisor
<1>2. T = {}
  <2> SUFFICES ASSUME T # {} PROVE FALSE
    OBVIOUS
  <2>1. PICK x \in T : \A z \in T : x <= z
    BY <1>1, LeastNatural
  <2>2. x \in Divisor /\ b < x /\ x \in Nat \ {0} /\ b \in Nat \ {0}
    BY <1>1
  <2>3. x # 1
    BY <2>2
  <2>4. PICK y \in Divisor : x = 2 * y
    BY <2>2, <2>3, DivisorHalves
  <2>5. y \in Nat \ {0} /\ y < x
    BY <1>1, <2>2, <2>4
  <2>6. b <= y
    BY <2>2, <2>4, <2>5, DivisorGap
  <2>7. CASE b = y
    <3>1. x = (2 * 1) * b
      BY <2>4, <2>7
    <3> QED
      BY <3>1
  <2>8. CASE b # y
    <3>1. b < y /\ y \notin T
      BY <2>1, <2>2, <2>5, <2>6, <2>8
    <3>2. PICK m \in Nat \ {0} : y = (2 * m) * b
      BY <3>1
    <3>3. 2 * ((2 * m) * b) = (2 * (2 * m)) * b /\ 2 * m \in Nat \ {0}
      BY <2>2
    <3>4. x = (2 * (2 * m)) * b
      BY <2>4, <3>2, <3>3
    <3> QED
      BY <3>3, <3>4
  <2> QED
    BY <2>7, <2>8
<1> QED
  BY <1>2

ReversedBits(x) == [b \in Index |-> IF b \in Bits THEN Bit(x, b) * (fftFrameSize2 \div b) ELSE 0]

LEMMA ReversedBitsTyped ==
  ASSUME NEW x \in Nat
  PROVE  /\ Reversed(x) = SumUpTo(ReversedBits(x), fftFrameSize)
         /\ \A b \in Index : ReversedBits(x)[b] \in Nat
<1>1. PICK G \in Nat : G = fftFrameSize2
  BY FrameIs
<1>2. ASSUME NEW b \in Bits
      PROVE  Bit(x, b) * (fftFrameSize2 \div b) \in Nat
  <2>1. b \in Nat \ {0}
    BY BitsAre DEF Divisor
  <2>2. PICK m \in Nat, z \in Nat : m = G \div b /\ z = x \div b
    BY <2>1
  <2>3. PICK c \in Nat : c = z % 2
    BY <2>2
  <2>4. c * m \in Nat
    BY <2>2, <2>3, ProductInNat
  <2> QED
    BY <1>1, <2>2, <2>3, <2>4 DEF Bit
<1>3. \A b \in Index : ReversedBits(x)[b] \in Nat
  BY <1>2 DEF ReversedBits
<1> QED
  BY <1>3 DEF Reversed, ReversedBits

(* A bit more in a number is one more in the reversed one.                 *)
LEMMA OneMoreBit ==
  ASSUME NEW x \in Nat, NEW h \in Bits, (x \div h) % 2 = 0
  PROVE  Reversed(x) \in Int /\ Reversed(x + h) = Reversed(x) + fftFrameSize2 \div h
<1>1. PICK F \in Nat \ {0}, G \in Nat : F = fftFrameSize /\ G = fftFrameSize2 /\ Index = 0 .. F - 1
  BY FrameIs DEF Index
<1>2. h \in Divisor /\ h < F /\ h \in Nat \ {0} /\ h \in Index
  BY <1>1, BitsAre DEF Divisor, Bits
<1>3. PICK q \in Nat, r \in 0 .. h - 1 : x = (2 * q) * h + r
  <2>1. PICK u, r : u = x \div h /\ r = x % h
    OBVIOUS
  <2>2. u \in Nat /\ r \in 0 .. h - 1 /\ x = u * h + r
    BY <1>2, <2>1
  <2>3. PICK q \in Nat : u = 2 * q
    <3>1. u \div 2 \in Nat /\ u = 2 * (u \div 2)
      BY <2>1, <2>2
    <3> QED
      BY <3>1
  <2> QED
    BY <2>2, <2>3
<1>4. PICK p \in Nat : p = q * h
  BY <1>2, ProductInNat
<1>5. x = 2 * p + r /\ x + h = 2 * p + h + r /\ (2 * q + 1) * h = 2 * p + h /\ q * (2 * h) = 2 * p
  <2>1. (2 * q) * h = 2 * (q * h) /\ (2 * q + 1) * h = 2 * (q * h) + h /\ q * (2 * h) = 2 * (q * h)
    BY <1>2
  <2> QED
    BY <1>2, <1>3, <1>4, <2>1
<1>6. Bit(x, h) = 0
  BY DEF Bit
<1>7. Bit(x + h, h) = 1
  <2>1. 2 * q + 1 \in Int
    OBVIOUS
  <2>2. ((2 * q + 1) * h + r) \div h = 2 * q + 1
    BY <1>2, <2>1, QuotientIs
  <2>3. (x + h) \div h = 2 * q + 1
    BY <1>5, <2>2
  <2>4. (2 * q + 1) % 2 = 1
    OBVIOUS
  <2> QED
    BY <2>3, <2>4 DEF Bit
<1>8. ASSUME NEW b \in Bits, b < h
      PROVE  Bit(x + h, b) = Bit(x, b)
  <2>1. b \in Divisor /\ b \in Nat \ {0}
    BY BitsAre DEF Divisor
  <2>2. PICK m \in Nat : h = (2 * m) * b
    BY <1>2, <1>8, <2>1, BitsNest
  <2>3. PICK u, v : u = x \div b /\ v = x % b
    OBVIOUS
  <2>4. u \in Nat /\ v \in 0 .. b - 1 /\ x = u * b + v
    BY <2>1, <2>3
  <2>5. x + h = (u + 2 * m) * b + v
    <3>1. (u + 2 * m) * b = u * b + (2 * m) * b
      BY <2>1, <2>4
    <3>2. u * b \in Int
      BY <2>1, <2>4
    <3> QED
      BY <1>2, <2>2, <2>4, <3>1, <3>2
  <2>6. ((u + 2 * m) * b + v) \div b = u + 2 * m
    <3>1. u + 2 * m \in Int
      BY <2>4
    <3> QED
      BY <2>1, <2>4, <3>1, QuotientIs
  <2>7. (u + 2 * m) % 2 = u % 2
    BY <2>4
  <2> QED
    BY <2>3, <2>5, <2>6, <2>7 DEF Bit
<1>9. ASSUME NEW b \in Bits, h < b
      PROVE  Bit(x + h, b) = Bit(x, b)
  <2>1. b \in Divisor /\ b \in Nat \ {0}
    BY BitsAre DEF Divisor
  <2>2. PICK m \in Nat \ {0} : b = (2 * m) * h
    BY <1>2, <1>9, <2>1, BitsNest
  <2>3. (2 * m) * h = m * (2 * h)
    BY <1>2
  <2>4. PICK L \in Nat \ {0} : L = 2 * h
    BY <1>2
  <2>5. r \in 0 .. L - 1 /\ h + r \in 0 .. L - 1
    BY <1>2, <2>4
  <2>6. (q * L + r) \div (m * L) = q \div m /\ (q * L + (h + r)) \div (m * L) = q \div m
    BY <2>5, QuotientOfBlock
  <2>7. x = q * L + r /\ x + h = q * L + (h + r) /\ b = m * L
    BY <1>2, <1>5, <2>2, <2>3, <2>4
  <2> QED
    BY <2>6, <2>7 DEF Bit
<1>10. PICK v, w : v = ReversedBits(x) /\ w = ReversedBits(x + h)
  OBVIOUS
<1>11. \A t \in 0 .. F - 1 : v[t] \in Int /\ w[t] \in Int /\ (t # h => w[t] = v[t])
  <2>1. x + h \in Nat
    BY <1>2
  <2>2. \A t \in Index : v[t] \in Int /\ w[t] \in Int
    BY <1>10, <2>1, ReversedBitsTyped
  <2>3. ASSUME NEW t \in Index, t # h
        PROVE  w[t] = v[t]
    <3>1. CASE t \in Bits
      <4>1. t \in Nat
        BY <1>1
      <4>2. Bit(x + h, t) = Bit(x, t)
        BY <1>2, <1>8, <1>9, <2>3, <3>1, <4>1
      <4> QED
        BY <1>10, <4>2 DEF ReversedBits
    <3>2. CASE t \notin Bits
      BY <1>10, <3>2 DEF ReversedBits
    <3> QED
      BY <3>1, <3>2
  <2> QED
    BY <1>1, <2>2, <2>3
<1>12. v[h] = 0 /\ w[h] = G \div h
  <2>1. PICK m \in Int : m = G \div h
    BY <1>2
  <2>2. v[h] = 0 * m /\ w[h] = 1 * m
    BY <1>1, <1>2, <1>6, <1>7, <1>10, <2>1 DEF ReversedBits
  <2> QED
    BY <2>1, <2>2
<1>13. h \in 0 .. F - 1 /\ x + h \in Nat
  BY <1>1, <1>2
<1>14. SumUpTo(v, F) \in Int /\ SumUpTo(w, F) = SumUpTo(v, F) + w[h] - v[h]
  BY <1>11, <1>13, SumsDiffer
<1>15. Reversed(x) = SumUpTo(v, F) /\ Reversed(x + h) = SumUpTo(w, F)
  BY <1>1, <1>10, <1>13, ReversedBitsTyped
<1>16. G \div h \in Int
  BY <1>2
<1> QED
  BY <1>1, <1>12, <1>14, <1>15, <1>16

LEMMA ReversedOfNone == Reversed(0) = 0
<1>1. PICK F \in Nat, G \in Nat : F = fftFrameSize /\ G = fftFrameSize2 /\ Index = 0 .. F - 1
  BY FrameIs DEF Index
<1>2. ASSUME NEW t \in 0 .. F - 1
      PROVE  ReversedBits(0)[t] = 0
  <2>1. CASE t \in Bits
    <3>1. t \in Nat \ {0}
      BY <2>1, BitsAre DEF Divisor
    <3>2. Bit(0, t) = 0
      BY <3>1 DEF Bit
    <3>3. PICK m \in Int : m = G \div t
      BY <3>1
    <3>4. 0 * m = 0
      OBVIOUS
    <3> QED
      BY <1>1, <2>1, <3>2, <3>3, <3>4 DEF ReversedBits
  <2>2. CASE t \notin Bits
    BY <1>1, <2>2 DEF ReversedBits
  <2> QED
    BY <2>1, <2>2
<1>3. PICK v : v = ReversedBits(0)
  OBVIOUS
<1>4. \A t \in 0 .. F - 1 : v[t] \in Int /\ v[t] = 0
  BY <1>2, <1>3
<1>5. SumUpTo(v, F) = SumUpTo(v, 0)
  BY <1>4, SumOfZeros
<1>6. Reversed(0) = SumUpTo(v, F)
  BY <1>1, <1>3, ReversedBitsTyped
<1> QED
  BY <1>5, <1>6, SumOfNone

(* The low bits of a number are the high ones of the reversed one.         *)
LEMMA ReversedOfLow ==
  ASSUME NEW h \in Divisor, NEW H \in Divisor, fftFrameSize = h * H, NEW x \in Nat, x < h
  PROVE  \E z \in Nat : Reversed(x) = z * H
<1>1. PICK F \in Nat, G \in Nat : F = fftFrameSize /\ G = fftFrameSize2 /\ F = 2 * G /\ Index = 0 .. F - 1
  BY FrameIs DEF Index
<1>2. h \in Nat \ {0} /\ H \in Nat \ {0}
  BY DEF Divisor
<1>3. ASSUME NEW t \in 0 .. F - 1
      PROVE  \E z \in Nat : ReversedBits(x)[t] = z * H
  <2>1. CASE t \notin Bits
    <3>1. ReversedBits(x)[t] = 0 * H
      BY <1>1, <1>2, <2>1 DEF ReversedBits
    <3> QED
      BY <3>1
  <2>2. CASE t \in Bits
    <3>1. t \in Divisor /\ t \in Nat \ {0}
      BY <2>2, BitsAre DEF Divisor
    <3>2. PICK c \in Nat, a \in Int : c = Bit(x, t) /\ a = G \div t
      <4>1. PICK y \in Nat : y = x \div t
        BY <3>1
      <4>2. PICK c \in Nat : c = y % 2
        BY <4>1
      <4>3. PICK a \in Int : a = G \div t
        BY <3>1
      <4>4. c = Bit(x, t)
        BY <4>1, <4>2 DEF Bit
      <4> QED
        BY <4>3, <4>4
    <3>3. ReversedBits(x)[t] = c * a
      BY <1>1, <2>2, <3>2 DEF ReversedBits
    <3>4. CASE t < h
      <4>1. PICK m \in Nat \ {0} : h = (2 * m) * t
        BY <3>1, <3>4, BitsNest
      <4>2. PICK y \in Nat : y = m * H
        BY <1>2, ProductInNat
      <4>3. ((2 * m) * t) * H = 2 * ((m * H) * t)
        BY <1>2, <3>1
      <4>4. y * t \in Nat
        BY <3>1, ProductInNat
      <4>5. G = y * t
        BY <1>1, <4>1, <4>2, <4>3, <4>4
      <4>6. a = y
        BY <3>1, <3>2, <4>5, NoRemainder
      <4>7. c * (m * H) = (c * m) * H /\ c * m \in Nat
        BY <1>2, ProductInNat
      <4>8. ReversedBits(x)[t] = (c * m) * H
        BY <3>3, <4>2, <4>6, <4>7
      <4> QED
        BY <4>7, <4>8
    <3>5. CASE ~(t < h)
      <4>1. x < t
        BY <1>2, <3>1, <3>5
      <4>2. x \div t = 0
        BY <3>1, <4>1
      <4>3. c = 0
        <5>1. 0 % 2 = 0
          OBVIOUS
        <5> QED
          BY <3>2, <4>2, <5>1 DEF Bit
      <4>4. ReversedBits(x)[t] = 0 * H
        BY <1>2, <3>2, <3>3, <4>3
      <4> QED
        BY <4>4
    <3> QED
      BY <3>4, <3>5
  <2> QED
    BY <2>1, <2>2
<1>4. PICK v : v = ReversedBits(x)
  OBVIOUS
<1>5. \E z \in Nat : SumUpTo(v, F) = z * H
  BY <1>2, <1>3, <1>4, SumOfMultiples
<1> QED
  BY <1>1, <1>4, <1>5, ReversedBitsTyped

(* A number has a highest bit.                                             *)
LEMMA HighestBit ==
  ASSUME NEW x \in Index, x # 0
  PROVE  \E h \in Bits : h <= x /\ x < 2 * h
<1>1. PICK F \in Nat : F = fftFrameSize /\ x \in Nat /\ x < F /\ F > 1
  BY FrameIs DEF Index
<1>2. \A b \in Bits : b \in Nat \ {0} /\ b < F
  BY <1>1, BitsAre DEF Divisor
<1> DEFINE T == {y \in Nat : \E b \in Bits : b <= x /\ y = F - b}
<1>3. T # {}
  <2>1. 1 \in Bits
    <3>1. 1 \in Divisor
      BY <1>1 DEF Divisor
    <3> QED
      BY <1>1, <3>1, BitsAre
  <2>2. F - 1 \in Nat /\ 1 <= x
    BY <1>1
  <2>3. F - 1 \in T
    BY <2>1, <2>2
  <2> QED
    BY <2>3
<1>4. PICK y \in T : \A z \in T : y <= z
  BY <1>3, LeastNatural
<1>5. PICK h \in Bits : h <= x /\ y = F - h
  OBVIOUS
<1>6. x < 2 * h
  <2> SUFFICES ASSUME 2 * h <= x PROVE FALSE
    BY <1>1, <1>2
  <2>1. h \in Divisor /\ h # fftFrameSize /\ 2 * h < F
    BY <1>1, <1>2, BitsAre
  <2>2. 2 * h \in Bits
    BY <1>1, <2>1, DivisorDoubles, BitsAre
  <2>3. F - 2 * h \in T
    BY <1>2, <2>1, <2>2
  <2> QED
    BY <1>1, <1>2, <1>4, <1>5, <2>3
<1> QED
  BY <1>5, <1>6

(* Reversed twice a number is itself: its highest bit becomes the lowest   *)
(* one of the reversed number, and the highest one again.                  *)
LEMMA ReversedTwice ==
  ASSUME NEW x \in Index
  PROVE  Reversed(Reversed(x)) = x
<1>1. PICK F \in Nat, G \in Nat : F = fftFrameSize /\ G = fftFrameSize2 /\ F = 2 * G /\ Index = 0 .. F - 1
  BY FrameIs DEF Index
<1> DEFINE T == {a \in Index : Reversed(Reversed(a)) # a}
<1>2. T = {}
  <2> SUFFICES ASSUME T # {} PROVE FALSE
    OBVIOUS
  <2>0. T \subseteq Nat
    BY <1>1
  <2>1. PICK a \in T : \A z \in T : a <= z
    BY <2>0, LeastNatural
  <2>2. a \in Index /\ a \in Nat /\ a < F /\ Reversed(Reversed(a)) # a
    BY <1>1
  <2>3. a # 0
    BY <2>2, ReversedOfNone
  <2>4. PICK h \in Bits : h <= a /\ a < 2 * h
    BY <2>2, <2>3, HighestBit
  <2>5. h \in Divisor /\ h < F /\ h \in Nat \ {0}
    BY <1>1, <2>4, BitsAre DEF Divisor
  <2>6. PICK m \in Nat : m = a - h
    BY <2>2, <2>4, <2>5
  <2>7. a = m + h /\ m < h /\ m < a /\ m \in Index
    BY <1>1, <2>2, <2>4, <2>5, <2>6
  <2>8. PICK H \in Divisor : fftFrameSize = h * H
    BY <2>5, DivisorIs
  <2>9. H # 1
    <3> SUFFICES ASSUME H = 1 PROVE FALSE
      OBVIOUS
    <3>1. F = h * 1
      BY <1>1, <2>8, Zenon
    <3> QED
      BY <2>5, <3>1
  <2>10. PICK g \in Divisor : H = 2 * g
    BY <2>9, DivisorHalves
  <2>11. g \in Nat \ {0} /\ h * (2 * g) = 2 * (h * g) /\ h * g \in Int
    BY <2>5 DEF Divisor
  <2>12. G = h * g /\ G = g * h
    <3>1. F = h * (2 * g)
      BY <1>1, <2>8, <2>10, Zenon
    <3>2. PICK y \in Int : y = h * g /\ y = g * h
      BY <2>5, <2>11
    <3> QED
      BY <1>1, <2>11, <3>1, <3>2
  <2>13. G \div h = g /\ G \div g = h
    BY <2>5, <2>11, <2>12, NoRemainder
  <2>14. g \in Bits
    <3>1. H <= F
      BY <1>1, <2>8, DivisorIs
    <3>2. g < F
      BY <2>10, <2>11, <3>1
    <3> QED
      BY <1>1, <3>2, BitsAre
  <2>15. Reversed(m + h) = Reversed(m) + g
    <3>1. m \div h = 0
      BY <2>5, <2>7
    <3>2. (m \div h) % 2 = 0
      BY <3>1
    <3> QED
      BY <1>1, <2>4, <2>13, <3>2, OneMoreBit
  <2>16. PICK z \in Nat : Reversed(m) = z * H
    BY <2>5, <2>7, <2>8, ReversedOfLow
  <2>17. PICK y \in Nat : y = Reversed(m)
    BY <2>7, ReversedInIndex, <1>1
  <2>18. y = (2 * z) * g
    <3>1. z * (2 * g) = (2 * z) * g
      BY <2>11
    <3> QED
      BY <2>10, <2>16, <2>17, <3>1
  <2>19. (y \div g) % 2 = 0
    <3>1. y \div g = 2 * z
      BY <2>11, <2>18, NoRemainder
    <3>2. (2 * z) % 2 = 0
      OBVIOUS
    <3> QED
      BY <3>1, <3>2
  <2>20. Reversed(y + g) = Reversed(y) + h
    BY <1>1, <2>13, <2>14, <2>19, OneMoreBit
  <2>21. Reversed(y) = m
    BY <1>1, <2>1, <2>2, <2>7, <2>17
  <2> QED
    BY <2>2, <2>7, <2>15, <2>17, <2>20, <2>21
<1> QED
  BY <1>2

-----------------------------------------------------------------------------
(* The transform of every M-th element, from the one at r on.              *)
Strided(x, s, r, M, c, h) == SumUpTo([t \in 0 .. h - 1 |-> x[t * M + r] * Root(s * M * c * t)], h)

LEMMA StridedTerm ==
  ASSUME NEW x \in [Index -> Residue], NEW s \in {-1, 1}, NEW M \in Nat \ {0}, NEW h \in Nat \ {0},
         h * M = fftFrameSize, NEW r \in 0 .. M - 1, NEW c \in Int, NEW t \in 0 .. h - 1
  PROVE  /\ t * M + r \in Index /\ x[t * M + r] \in Int
         /\ s * M * c * t \in Int /\ Root(s * M * c * t) \in Int
         /\ x[t * M + r] * Root(s * M * c * t) \in Int
<1>1. PICK F \in Nat : F = fftFrameSize /\ Index = 0 .. F - 1
  BY FrameIs DEF Index
<1>2. t * M + r \in Index
  <2>1. PICK p \in Nat : p = t * M
    BY ProductInNat
  <2>2. (t + 1) * M <= h * M /\ (t + 1) * M = t * M + M
    BY Monotone, Distribute
  <2> QED
    BY <1>1, <2>1, <2>2
<1>3. PICK y \in Int : y = x[t * M + r]
  BY <1>2, ResiduesAre
<1>4. PICK e \in Int : e = s * M * c * t
  OBVIOUS
<1>5. PICK z \in Int : z = Root(e)
  BY RootTyped
<1>6. y * z \in Int
  OBVIOUS
<1> QED
  BY <1>2, <1>3, <1>4, <1>5, <1>6

LEMMA StridedTyped ==
  ASSUME NEW x \in [Index -> Residue], NEW s \in {-1, 1}, NEW M \in Nat \ {0}, NEW h \in Nat \ {0},
         h * M = fftFrameSize, NEW r \in 0 .. M - 1, NEW c \in Int
  PROVE  Strided(x, s, r, M, c, h) \in Int
<1> DEFINE f(t) == x[t * M + r] * Root(s * M * c * t)
<1>1. \A t \in 0 .. h - 1 : f(t) \in Int
  BY StridedTerm
<1> HIDE DEF f
<1>2. PICK v : v = [t \in 0 .. h - 1 |-> f(t)]
  OBVIOUS
<1>3. \A t \in 0 .. h - 1 : v[t] \in Int
  BY <1>1, <1>2
<1>4. SumUpTo(v, h) \in Int
  <2>1. PICK u \in [0 .. h -> Int] : SumUpTo(v, h) = u[h]
    BY <1>3, SumIsPartial
  <2> QED
    BY <2>1
<1> QED
  BY <1>2, <1>4 DEF Strided, f

(* A transform is made of those of the elements at even and at odd places. *)
LEMMA Butterfly ==
  ASSUME NEW x \in [Index -> Residue], NEW s \in {-1, 1}, NEW M \in Nat \ {0}, NEW h \in Nat \ {0},
         (2 * h) * M = fftFrameSize, NEW r \in 0 .. M - 1, NEW c \in Int
  PROVE  Same(Strided(x, s, r, M, c, 2 * h),
              Strided(x, s, r, 2 * M, c, h) + Root(s * M * c) * Strided(x, s, r + M, 2 * M, c, h))
<1> DEFINE f(t) == x[t * M + r] * Root(s * M * c * t)
           fe(t) == x[t * (2 * M) + r] * Root(s * (2 * M) * c * t)
           fo(t) == x[t * (2 * M) + (r + M)] * Root(s * (2 * M) * c * t)
<1>1. PICK L \in Nat \ {0}, p \in Nat \ {0} : L = 2 * M /\ p = 2 * h
  OBVIOUS
<1>2. h * L = fftFrameSize /\ p * M = fftFrameSize
  <2>1. h * (2 * M) = (2 * h) * M
    OBVIOUS
  <2> QED
    BY <1>1, <2>1
<1>3. r \in 0 .. L - 1 /\ r + M \in 0 .. L - 1
  BY <1>1
<1>4. \A t \in 0 .. p - 1 : f(t) \in Int
  BY <1>2, StridedTerm
<1>5. \A t \in 0 .. h - 1 : fe(t) \in Int /\ fo(t) \in Int
  BY <1>1, <1>2, <1>3, StridedTerm
<1>6. PICK w \in Int, e \in Int : e = s * M * c /\ w = Root(e)
  <2>1. s * M * c \in Int
    OBVIOUS
  <2> QED
    BY <2>1, RootTyped
<1>7. ASSUME NEW t \in 0 .. h - 1
      PROVE  /\ 2 * t \in 0 .. p - 1 /\ 2 * t + 1 \in 0 .. p - 1
             /\ f(2 * t) = fe(t)
             /\ Same(f(2 * t + 1), w * fo(t))
  <2>1. 2 * t \in 0 .. p - 1 /\ 2 * t + 1 \in 0 .. p - 1
    BY <1>1
  <2>2. (2 * t) * M + r = t * (2 * M) + r /\ s * M * c * (2 * t) = s * (2 * M) * c * t
    OBVIOUS
  <2>3. f(2 * t) = fe(t)
    BY <2>2
  <2>4. (2 * t + 1) * M + r = t * (2 * M) + (r + M)
    OBVIOUS
  <2>5. PICK y \in Int, d \in Int : y = x[t * (2 * M) + (r + M)] /\ d = s * (2 * M) * c * t
    <3>1. x[t * L + (r + M)] \in Int /\ s * L * c * t \in Int
      BY <1>2, <1>3, StridedTerm
    <3> QED
      BY <1>1, <3>1
  <2>6. s * M * c * (2 * t + 1) = s * M * c + s * (2 * M) * c * t
    OBVIOUS
  <2>7. s * M * c * (2 * t + 1) = e + d
    BY <1>6, <2>5, <2>6
  <2>8. PICK z \in Int, u \in Int, b \in Int : z = Root(d) /\ b = e + d /\ u = Root(b)
    <3>1. e + d \in Int
      OBVIOUS
    <3> QED
      BY <3>1, RootTyped
  <2>9. Same(u, w * z)
    BY <1>6, <2>8, RootOfSum
  <2>10. Same(y, y) /\ w * z \in Int
    BY SameIsEquivalence
  <2>11. Same(y * u, y * (w * z))
    BY <2>9, <2>10, SameProducts
  <2>12. y * (w * z) = w * (y * z)
    OBVIOUS
  <2>13. f(2 * t + 1) = y * u
    BY <2>4, <2>5, <2>7, <2>8
  <2>14. fo(t) = y * z
    BY <2>5, <2>8
  <2>15. Same(f(2 * t + 1), w * fo(t))
    BY <2>11, <2>12, <2>13, <2>14
  <2> QED
    BY <2>1, <2>3, <2>15
<1> HIDE DEF f, fe, fo
<1>8. PICK v, ve, vo, o, wo :
        /\ v = [t \in 0 .. p - 1 |-> f(t)]
        /\ ve = [t \in 0 .. h - 1 |-> fe(t)]
        /\ vo = [t \in 0 .. h - 1 |-> fo(t)]
        /\ o = [t \in 0 .. h - 1 |-> f(2 * t + 1)]
        /\ wo = [t \in 0 .. h - 1 |-> w * fo(t)]
  OBVIOUS
<1>9. /\ \A t \in 0 .. 2 * h - 1 : v[t] \in Int
      /\ \A t \in 0 .. h - 1 : ve[t] = v[2 * t] /\ o[t] = v[2 * t + 1]
  BY <1>1, <1>4, <1>7, <1>8
<1>10. /\ SumUpTo(v, 2 * h) = SumUpTo(ve, h) + SumUpTo(o, h)
       /\ SumUpTo(ve, h) \in Int /\ SumUpTo(o, h) \in Int
  BY <1>9, SumOfHalves
<1>11. \A t \in 0 .. h - 1 : vo[t] \in Int /\ wo[t] = w * vo[t]
  BY <1>5, <1>8
<1>12. SumUpTo(vo, h) \in Int /\ SumUpTo(wo, h) = w * SumUpTo(vo, h)
  BY <1>11, SumOfProducts
<1>13. \A t \in 0 .. h - 1 : o[t] \in Int /\ wo[t] \in Int /\ Same(o[t], wo[t])
  <2>1. ASSUME NEW t \in 0 .. h - 1
        PROVE  o[t] \in Int /\ wo[t] \in Int /\ Same(o[t], wo[t])
    <3>1. 2 * t + 1 \in 0 .. p - 1 /\ Same(f(2 * t + 1), w * fo(t))
      BY <1>7
    <3>2. PICK y \in Int, z \in Int : y = f(2 * t + 1) /\ z = fo(t)
      BY <1>4, <1>5, <3>1
    <3>3. w * z \in Int
      OBVIOUS
    <3> QED
      BY <1>8, <3>1, <3>2, <3>3
  <2> QED
    BY <2>1
<1>14. SumUpTo(wo, h) \in Int /\ Same(SumUpTo(o, h), SumUpTo(wo, h))
  BY <1>13, SumsSame
<1>15. PICK a \in Int, b \in Int, d \in Int : a = SumUpTo(ve, h) /\ b = SumUpTo(o, h) /\ d = SumUpTo(wo, h)
  BY <1>10, <1>14
<1>16. Same(a + b, a + d)
  <2>1. Same(a, a)
    BY SameIsEquivalence
  <2> QED
    BY <1>14, <1>15, <2>1, SameSums
<1>17. /\ Strided(x, s, r, M, c, 2 * h) = SumUpTo(v, 2 * h)
       /\ Strided(x, s, r, 2 * M, c, h) = SumUpTo(ve, h)
       /\ Strided(x, s, r + M, 2 * M, c, h) = SumUpTo(vo, h)
  BY <1>1, <1>8 DEF Strided, f, fe, fo
<1> QED
  BY <1>6, <1>10, <1>12, <1>15, <1>16, <1>17

(* It has as many values as there are elements.                            *)
LEMMA StridedTurns ==
  ASSUME NEW x \in [Index -> Residue], NEW s \in {-1, 1}, NEW M \in Nat \ {0}, NEW h \in Nat \ {0},
         h * M = fftFrameSize, NEW r \in 0 .. M - 1, NEW c \in Int
  PROVE  Strided(x, s, r, M, c + h, h) = Strided(x, s, r, M, c, h)
<1>1. ASSUME NEW t \in 0 .. h - 1
      PROVE  Root(s * M * (c + h) * t) = Root(s * M * c * t)
  <2>1. PICK e \in Int, m \in Int : e = s * M * c * t /\ m = s * t
    OBVIOUS
  <2>2. s * M * (c + h) * t = s * M * c * t + (s * t) * (h * M)
    OBVIOUS
  <2>3. s * M * (c + h) * t = e + m * fftFrameSize
    BY <2>1, <2>2
  <2>4. Root(e + m * fftFrameSize) = Root(e)
    BY RootTurns
  <2> QED
    BY <2>1, <2>3, <2>4
<1>2. [t \in 0 .. h - 1 |-> x[t * M + r] * Root(s * M * (c + h) * t)]
        = [t \in 0 .. h - 1 |-> x[t * M + r] * Root(s * M * c * t)]
  BY <1>1, Zenon
<1> QED
  BY <1>2, Zenon DEF Strided

(* Half a turn on the factor has the other sign.                           *)
LEMMA FactorTurns ==
  ASSUME NEW s \in {-1, 1}, NEW M \in Nat \ {0}, NEW h \in Nat \ {0}, (2 * h) * M = fftFrameSize,
         NEW c \in Int
  PROVE  Same(Root(s * M * (c + h)), -Root(s * M * c)) /\ Root(s * M * c) \in Int
<1>1. PICK G \in Nat : G = fftFrameSize2 /\ fftFrameSize = 2 * G
  BY FrameIs
<1>2. PICK e \in Int, d \in Int : e = s * M * c /\ d = s * G
  OBVIOUS
<1>3. h * M = G
  <2>1. (2 * h) * M = 2 * (h * M) /\ h * M \in Int
    OBVIOUS
  <2> QED
    BY <1>1, <2>1
<1>4. s * M * (c + h) = s * M * c + s * (h * M)
  OBVIOUS
<1>5. s * M * (c + h) = e + d
  BY <1>2, <1>3, <1>4
<1>6. PICK u \in Int, v \in Int, w \in Int : u = Root(e) /\ v = Root(d) /\ w = Root(e + d)
  <2>1. e + d \in Int
    OBVIOUS
  <2> QED
    BY <2>1, RootTyped
<1>7. Same(w, u * v)
  BY <1>6, RootOfSum
<1>8. Same(v, -1)
  BY <1>1, <1>2, <1>6, RootOfHalfTurn
<1>9. u * v \in Int /\ u * (-1) = -u /\ -u \in Int /\ -1 \in Int
  OBVIOUS
<1>10. Same(u * v, u * (-1))
  <2>1. Same(u, u)
    BY SameIsEquivalence
  <2> QED
    BY <1>8, <1>9, <2>1, SameProducts
<1>11. Same(w, -u)
  BY <1>7, <1>9, <1>10, SameIsEquivalence
<1> QED
  BY <1>2, <1>5, <1>6, <1>11

(* Every block of h elements is the transform of every (fftFrameSize \div  *)
(* h)-th of what was given, from the place on that is the reverse of where *)
(* the block begins.                                                       *)
BlocksAre(g, x, s, h) ==
  \A p \in Index :
    /\ Reversed(p - (p % h)) < fftFrameSize \div h
    /\ g[p] = Strided(x, s, Reversed(p - (p % h)), fftFrameSize \div h, p % h, h) % Prime

(* The element of a block.                                                 *)
LEMMA InBlock ==
  ASSUME NEW h \in Nat \ {0}, NEW M \in Nat \ {0}, h * M = fftFrameSize,
         NEW q \in 0 .. M - 1, NEW m \in 0 .. h - 1, NEW b \in Int, b = q * h
  PROVE  b + m \in Index /\ fftFrameSize \div h = M
<1>1. PICK F \in Nat : F = fftFrameSize /\ Index = 0 .. F - 1
  BY FrameIs DEF Index
<1>2. b \in Nat
  BY ProductInNat
<1>3. b + m < F
  <2>1. (q + 1) * h <= M * h /\ (q + 1) * h = q * h + h /\ M * h = h * M
    BY Monotone, Distribute
  <2> QED
    BY <1>1, <1>2, <2>1
<1>4. b + m \in Index
  BY <1>1, <1>2, <1>3
<1>5. fftFrameSize \div h = M
  <2>1. M * h = h * M
    OBVIOUS
  <2> QED
    BY <2>1, NoRemainder
<1> QED
  BY <1>4, <1>5

(* A stage makes the blocks of twice the size.                             *)
LEMMA StageCombines ==
  ASSUME NEW g \in [Index -> Residue], NEW x \in [Index -> Residue], NEW s \in {-1, 1},
         NEW h \in Nat \ {0}, h \in Bits, NEW M \in Nat \ {0}, (2 * h) * M = fftFrameSize,
         BlocksAre(g, x, s, h), NEW p \in Index
  PROVE  /\ Reversed(p - (p % (2 * h))) < M
         /\ Strided(x, s, Reversed(p - (p % (2 * h))), M, p % (2 * h), 2 * h) % Prime
              = IF p % (2 * h) < h
                THEN (g[p] + g[p + h] * Root(s * M * ((p + h) % h))) % Prime
                ELSE (g[p - h] - g[p] * Root(s * M * (p % h))) % Prime
<1>1. PICK F \in Nat, G \in Nat : F = fftFrameSize /\ G = fftFrameSize2 /\ F = 2 * G /\ Index = 0 .. F - 1
  BY FrameIs DEF Index
<1>2. PICK L \in Nat \ {0}, K \in Nat \ {0} : L = 2 * h /\ K = 2 * M
  OBVIOUS
<1>3. h * K = fftFrameSize /\ L * M = fftFrameSize /\ M * h = G
  <2>1. h * (2 * M) = (2 * h) * M /\ (2 * h) * M = 2 * (M * h) /\ M * h \in Int
    OBVIOUS
  <2> QED
    BY <1>1, <1>2, <2>1
<1>4. PICK q \in Nat, d \in 0 .. L - 1 : p = q * L + d /\ d = p % L
  <2>1. PICK u, v : u = p \div L /\ v = p % L
    OBVIOUS
  <2>2. p \in Nat
    BY <1>1
  <2>3. u \in Nat /\ v \in 0 .. L - 1 /\ p = u * L + v
    BY <2>1, <2>2
  <2> QED
    BY <2>1, <2>3
<1>5. q < M
  <2>1. q * L \in Int /\ q * L <= p /\ p < M * L
    <3>1. M * L = L * M /\ p < F
      BY <1>1
    <3>2. q * L \in Int
      OBVIOUS
    <3> QED
      BY <1>1, <1>3, <1>4, <3>1, <3>2
  <2>2. q * L < M * L
    <3>1. M * L \in Int /\ p \in Int
      BY <1>1
    <3> QED
      BY <2>1, <3>1
  <2> QED
    BY <2>2, Cancel
<1>6. 2 * q \in 0 .. K - 1 /\ 2 * q + 1 \in 0 .. K - 1
  BY <1>2, <1>5
<1>7. PICK b \in Nat : b = (2 * q) * h /\ b = q * L /\ (2 * q + 1) * h = b + h
  <2>1. (2 * q) * h = q * (2 * h) /\ (2 * q + 1) * h = (2 * q) * h + h
    OBVIOUS
  <2>2. (2 * q) * h \in Nat
    BY ProductInNat
  <2> QED
    BY <1>2, <2>1, <2>2
<1>8. p - (p % (2 * h)) = b
  BY <1>2, <1>4, <1>7
<1>9. PICK c \in 0 .. h - 1 : c = IF d < h THEN d ELSE d - h
  <2>1. d \in Nat /\ d < 2 * h
    BY <1>2, <1>4
  <2>2. CASE d < h
    <3>1. d \in 0 .. h - 1
      BY <2>1, <2>2
    <3> QED
      BY <2>2, <3>1
  <2>3. CASE ~(d < h)
    <3>1. d - h \in 0 .. h - 1
      BY <2>1, <2>3
    <3> QED
      BY <2>3, <3>1
  <2> QED
    BY <2>2, <2>3
<1>10. PICK r \in Nat : r = Reversed(b)
  BY <1>1, ReversedInIndex
<1>11. Reversed(b + h) = r + M
  <2>1. b \div h = 2 * q
    BY <1>7, NoRemainder
  <2>2. (2 * q) % 2 = 0
    OBVIOUS
  <2>3. G \div h = M
    BY <1>3, NoRemainder
  <2> QED
    BY <1>1, <1>10, <2>1, <2>2, <2>3, OneMoreBit
<1>12. PICK A, B : A = Strided(x, s, r, K, c, h) /\ B = Strided(x, s, r + M, K, c, h)
  OBVIOUS
<1>c. c \in 0 .. h - 1 /\ c \in Int /\ c \in Nat /\ d \in Int
  BY <1>4, <1>9
<1>k. K \in Nat \ {0} /\ L \in Nat \ {0}
  BY <1>2
<1>13. b + c \in Index /\ (b + c) % h = c /\ g[b + c] = A % Prime
  <2>1. PICK j \in 0 .. K - 1 : j = 2 * q
    BY <1>6
  <2>2. b \in Int /\ b = j * h
    BY <1>7, <2>1
  <2>3. b + c \in Index /\ fftFrameSize \div h = K
    BY <1>k, <1>c, <1>3, <2>1, <2>2, InBlock
  <2>4. PICK e \in Int : e = b + c
    BY <1>c, <2>2
  <2>5. e % h = c
    <3>1. j \in Int /\ e = j * h + c
      BY <2>2, <2>4
    <3> QED
      BY <1>c, <3>1, QuotientIs
  <2>6. e - (e % h) = b
    BY <1>c, <2>2, <2>4, <2>5
  <2>7. g[e] = Strided(x, s, r, K, c, h) % Prime
    BY <1>10, <2>3, <2>4, <2>5, <2>6 DEF BlocksAre
  <2> QED
    BY <1>12, <2>3, <2>4, <2>5, <2>7
<1>14. /\ b + h + c \in Index /\ (b + h + c) % h = c /\ g[b + h + c] = B % Prime
       /\ r + M < K
  <2>1. PICK j \in 0 .. K - 1 : j = 2 * q + 1
    BY <1>6
  <2>2. PICK f \in Int : f = b + h /\ f = j * h
    BY <1>7, <2>1
  <2>3. f + c \in Index /\ fftFrameSize \div h = K
    BY <1>k, <1>c, <1>3, <2>1, <2>2, InBlock
  <2>4. PICK e \in Int : e = f + c /\ e = b + h + c
    BY <1>c, <2>2
  <2>5. e % h = c
    <3>1. j \in Int /\ e = j * h + c
      BY <2>2, <2>4
    <3> QED
      BY <1>c, <3>1, QuotientIs
  <2>6. e - (e % h) = f
    BY <1>c, <2>2, <2>4, <2>5
  <2>7. Reversed(f) = r + M
    BY <1>11, <2>2
  <2>8. Reversed(f) < K /\ g[e] = Strided(x, s, Reversed(f), K, c, h) % Prime
    BY <2>3, <2>4, <2>5, <2>6 DEF BlocksAre
  <2> QED
    BY <1>12, <2>3, <2>4, <2>5, <2>7, <2>8
<1>15. r \in 0 .. M - 1 /\ r \in 0 .. K - 1 /\ r + M \in 0 .. K - 1
  BY <1>2, <1>14
<1>16. A \in Int /\ B \in Int
  <2>1. c \in Int
    BY <1>9
  <2> QED
    BY <1>2, <1>3, <1>12, <1>15, <2>1, StridedTyped
<1>17. PICK w \in Int : w = Root(s * M * c)
  <2>1. c \in Int
    BY <1>9
  <2> QED
    BY <2>1, FactorTurns
<1>18. PICK y \in Int, z \in Int : y = A % Prime /\ z = B % Prime /\ Same(y, A) /\ Same(z, B)
  BY <1>16, SameResidue
<1>19. z * w \in Int /\ w * B \in Int /\ Same(z * w, w * B)
  <2>1. Same(w, w)
    BY SameIsEquivalence
  <2>2. Same(z * w, B * w)
    BY <1>16, <1>18, <2>1, SameProducts
  <2>3. B * w = w * B
    BY <1>16
  <2> QED
    BY <1>16, <2>2, <2>3
<1>20. PICK D \in Int : D = Strided(x, s, r, M, d, 2 * h)
  <2>1. Strided(x, s, r, M, d, L) \in Int
    BY <1>c, <1>k, <1>3, <1>15, StridedTyped
  <2> QED
    BY <1>2, <2>1
<1>b. b \in Int /\ b = q * L /\ d \in Int
  BY <1>4, <1>7
<1>e. /\ Reversed(p - (p % (2 * h))) < M
      /\ Strided(x, s, Reversed(p - (p % (2 * h))), M, p % (2 * h), 2 * h) = D
      /\ p % (2 * h) = d
  <2>1. r < M
    BY <1>15
  <2>2. p % (2 * h) = d
    BY <1>2, <1>4
  <2> QED
    BY <1>8, <1>10, <1>20, <2>1, <2>2
<1>21. CASE d < h
  <2>1. c = d /\ p = b + c /\ p + h = b + h + c
    BY <1>4, <1>7, <1>9, <1>21, <1>k, <1>b
  <2>2. Same(D, A + w * B)
    <3>1. Same(Strided(x, s, r, M, c, 2 * h),
               Strided(x, s, r, 2 * M, c, h) + Root(s * M * c) * Strided(x, s, r + M, 2 * M, c, h))
      BY <1>c, <1>15, Butterfly
    <3> QED
      BY <1>2, <1>12, <1>17, <1>20, <2>1, <3>1
  <2>3. A + w * B \in Int /\ y + z * w \in Int /\ Same(y + z * w, A + w * B)
    <3>1. A + w * B \in Int /\ y + z * w \in Int
      BY <1>16, <1>18, <1>19
    <3> QED
      BY <1>16, <1>18, <1>19, <3>1, SameSums
  <2>4. Same(D, y + z * w)
    BY <2>2, <2>3, SameIsEquivalence
  <2>5. D % Prime = (y + z * w) % Prime
    BY <2>3, <2>4, SameResidue
  <2>6. g[p] = y /\ g[p + h] = z /\ Root(s * M * ((p + h) % h)) = w
    BY <1>13, <1>14, <1>17, <1>18, <2>1
  <2>7. (g[p] + g[p + h] * Root(s * M * ((p + h) % h))) % Prime = D % Prime
    BY <2>5, <2>6, Zenon
  <2> QED
    BY <1>e, <1>21, <2>7, Zenon
<1>22. CASE ~(d < h)
  <2>1. d = c + h /\ p - h = b + c /\ p = b + h + c
    BY <1>4, <1>7, <1>9, <1>22, <1>k, <1>b
  <2>2. /\ Strided(x, s, r, K, c + h, h) = A
        /\ Strided(x, s, r + M, K, c + h, h) = B
    BY <1>3, <1>12, <1>15, StridedTurns
  <2>3. PICK u \in Int : u = Root(s * M * (c + h)) /\ Same(u, -w)
    <3>1. c + h \in Int
      BY <1>c
    <3>2. Root(s * M * (c + h)) \in Int
      BY <3>1, FactorTurns
    <3> QED
      BY <1>c, <1>17, <3>2, FactorTurns
  <2>4. Same(D, A + u * B)
    <3>1. PICK e \in Int : e = c + h
      BY <1>c
    <3>2. Same(Strided(x, s, r, M, e, 2 * h),
               Strided(x, s, r, 2 * M, e, h) + Root(s * M * e) * Strided(x, s, r + M, 2 * M, e, h))
      BY <1>15, <3>1, Butterfly
    <3> QED
      BY <1>2, <1>20, <2>1, <2>2, <2>3, <3>1, <3>2
  <2>5. u * B \in Int /\ (-w) * B = -(w * B) /\ -w \in Int /\ -(w * B) \in Int
    BY <1>16
  <2>6. Same(u * B, -(w * B))
    <3>1. Same(B, B)
      BY <1>16, SameIsEquivalence
    <3> QED
      BY <1>16, <2>3, <2>5, <3>1, SameProducts
  <2>7. PICK v \in Int : v = w * B
    BY <1>19
  <2>8. Same(A + u * B, A + (-v))
    <3>1. Same(A, A)
      BY <1>16, SameIsEquivalence
    <3> QED
      BY <1>16, <2>5, <2>6, <2>7, <3>1, SameSums
  <2>9. Same(y - z * w, A - v)
    BY <1>16, <1>18, <1>19, <2>7, SameSums
  <2>10. A + (-v) = A - v /\ A - v \in Int /\ A + u * B \in Int /\ y - z * w \in Int
    BY <1>16, <1>19, <2>5
  <2>11. Same(D, A - v) /\ Same(A - v, y - z * w)
    BY <2>4, <2>8, <2>9, <2>10, SameIsEquivalence
  <2>12. Same(D, y - z * w)
    BY <2>10, <2>11, SameIsEquivalence
  <2>13. D % Prime = (y - z * w) % Prime
    BY <2>10, <2>12, SameResidue
  <2>14. g[p - h] = y /\ g[p] = z /\ Root(s * M * (p % h)) = w
    BY <1>13, <1>14, <1>17, <1>18, <2>1
  <2>15. (g[p - h] - g[p] * Root(s * M * (p % h))) % Prime = D % Prime
    BY <2>13, <2>14, Zenon
  <2> QED
    BY <1>e, <1>22, <2>15, Zenon
<1> QED
  BY <1>21, <1>22

-----------------------------------------------------------------------------
(* smbFft.                                                                 *)

(* The loop over i.                                                        *)
LEMMA ExchangeReverses ==
  ASSUME NEW g \in [Index -> Residue], NEW f, NEW x, NEW a \in Index,
         \A p \in Index : g[p] = IF p < a \/ Reversed(p) < a THEN x[Reversed(p)] ELSE x[p],
         f = IF Exchanged(a)
             THEN [g EXCEPT ![a] = g[Reversed(a)], ![Reversed(a)] = g[a]] ELSE g,
         NEW p \in Index
  PROVE  f[p] = IF p < a + 1 \/ Reversed(p) < a + 1 THEN x[Reversed(p)] ELSE x[p]
<1>1. PICK b \in Index : b = Reversed(a) /\ Reversed(b) = a
  <2>1. a \in Nat
    BY FrameIs
  <2> QED
    BY <2>1, ReversedInIndex, ReversedTwice
<1>2. PICK q \in Index : q = Reversed(p) /\ Reversed(q) = p
  <2>1. p \in Nat
    BY FrameIs
  <2> QED
    BY <2>1, ReversedInIndex, ReversedTwice
<1>3. a \in Int /\ b \in Int /\ p \in Int /\ q \in Int
  BY FrameIs
<1>4. (p = a <=> q = b) /\ (p = b <=> q = a)
  BY <1>1, <1>2
<1>5. /\ g[p] = IF p < a \/ q < a THEN x[q] ELSE x[p]
      /\ g[a] = IF b < a THEN x[b] ELSE x[a]
      /\ g[b] = IF b < a THEN x[a] ELSE x[b]
  <2>1. g[p] = IF p < a \/ q < a THEN x[q] ELSE x[p]
    BY <1>2
  <2>2. g[a] = IF a < a \/ b < a THEN x[b] ELSE x[a]
    BY <1>1
  <2>3. g[b] = IF b < a \/ a < a THEN x[a] ELSE x[b]
    BY <1>1
  <2> QED
    BY <1>3, <2>1, <2>2, <2>3
<1>6. CASE a < b
  <2>1. f = [g EXCEPT ![a] = g[b], ![b] = g[a]]
    BY <1>1, <1>6 DEF Exchanged
  <2>2. a # b /\ ~(b < a)
    BY <1>3, <1>6
  <2>3. f[p] = IF p = b THEN g[a] ELSE IF p = a THEN g[b] ELSE g[p]
    BY <2>1
  <2>4. CASE p = b
    <3>1. f[p] = x[q] /\ q < a + 1
      BY <1>3, <1>4, <1>5, <2>2, <2>3, <2>4
    <3> QED
      BY <1>2, <3>1
  <2>5. CASE p = a
    <3>1. f[p] = x[q] /\ p < a + 1
      BY <1>3, <1>4, <1>5, <2>2, <2>3, <2>5
    <3> QED
      BY <1>2, <3>1
  <2>6. CASE p # a /\ p # b
    <3>1. f[p] = g[p] /\ q # a
      BY <1>4, <2>3, <2>6
    <3>2. (p < a + 1 <=> p < a) /\ (q < a + 1 <=> q < a)
      BY <1>3, <2>6, <3>1
    <3> QED
      BY <1>2, <1>5, <3>1, <3>2
  <2> QED
    BY <2>4, <2>5, <2>6
<1>7. CASE ~(a < b)
  <2>1. f[p] = g[p]
    BY <1>1, <1>7 DEF Exchanged
  <2>2. CASE p = a
    <3>1. f[p] = x[q] /\ p < a + 1
      BY <1>3, <1>4, <1>5, <1>7, <2>1, <2>2
    <3> QED
      BY <1>2, <3>1
  <2>3. CASE p = b
    <3>1. f[p] = x[q] /\ q < a + 1
      BY <1>3, <1>4, <1>5, <1>7, <2>1, <2>3
    <3> QED
      BY <1>2, <3>1
  <2>4. CASE p # a /\ p # b
    <3>1. q # a
      BY <1>4, <2>4
    <3>2. (p < a + 1 <=> p < a) /\ (q < a + 1 <=> q < a)
      BY <1>3, <2>4, <3>1
    <3> QED
      BY <1>2, <1>5, <2>1, <3>2
  <2> QED
    BY <2>2, <2>3, <2>4
<1> QED
  BY <1>6, <1>7

(* All exchanged, the elements are the blocks of 1.                        *)
LEMMA ReversedAreBlocks ==
  ASSUME NEW g \in [Index -> Residue], NEW x \in [Index -> Residue], NEW s \in {-1, 1},
         NEW a \in Nat, a >= fftFrameSize - 1,
         \A p \in Index : g[p] = IF p < a \/ Reversed(p) < a THEN x[Reversed(p)] ELSE x[p]
  PROVE  BlocksAre(g, x, s, 1)
<1>1. PICK F \in Nat : F = fftFrameSize /\ Index = 0 .. F - 1
  BY FrameIs DEF Index
<1>2. SUFFICES ASSUME NEW p \in Index
               PROVE  /\ Reversed(p - (p % 1)) < fftFrameSize \div 1
                      /\ g[p] = Strided(x, s, Reversed(p - (p % 1)), fftFrameSize \div 1, p % 1, 1) % Prime
  BY DEF BlocksAre
<1>3. p \in Nat /\ p < F
  BY <1>1
<1>4. p % 1 = 0 /\ p - 0 = p /\ F \div 1 = F
  BY <1>3
<1>5. PICK q \in Index : q = Reversed(p)
  BY <1>3, ReversedInIndex
<1>6. q \in Nat /\ q < F
  BY <1>1
<1>7. g[p] = x[q]
  <2>1. CASE p < a \/ q < a
    BY <1>5, <2>1
  <2>2. CASE ~(p < a \/ q < a)
    <3>1. p = q
      BY <1>1, <1>3, <1>6, <2>2
    <3>2. g[p] = x[p]
      BY <1>5, <2>2
    <3> QED
      BY <3>1, <3>2
  <2> QED
    BY <2>1, <2>2
<1>8. Strided(x, s, q, F, 0, 1) = x[q]
  <2>1. PICK v : v = [t \in 0 .. 1 - 1 |-> x[t * F + q] * Root(s * F * 0 * t)]
    OBVIOUS
  <2>2. v[0] = x[0 * F + q] * Root(s * F * 0 * 0)
    BY <2>1
  <2>3. 0 * F + q = q /\ s * F * 0 * 0 = 0
    BY <1>6
  <2>4. x[q] \in Int
    BY ResiduesAre
  <2>5. v[0] = x[q]
    <3>1. v[0] = x[q] * 1
      BY <2>2, <2>3, RootOfNone
    <3> QED
      BY <2>4, <3>1
  <2>6. \A t \in 0 .. 0 : v[t] \in Int
    BY <2>4, <2>5
  <2>7. SumUpTo(v, 0 + 1) = SumUpTo(v, 0) + v[0]
    BY <2>6, SumOfOneMore
  <2>8. SumUpTo(v, 0) = 0 /\ 0 + 1 = 1
    BY SumOfNone
  <2>9. SumUpTo(v, 1) = x[q]
    BY <2>4, <2>5, <2>7, <2>8
  <2> QED
    BY <2>1, <2>9 DEF Strided
<1>9. x[q] % Prime = x[q]
  <2>1. PICK P \in Nat \ {0} : P = Prime
    BY PrimeIs
  <2>2. PICK y \in 0 .. P - 1 : y = x[q]
    BY <2>1 DEF Residue
  <2>3. y % P = y
    BY <2>1, <2>2
  <2> QED
    BY <2>1, <2>2, <2>3
<1> QED
  BY <1>1, <1>4, <1>5, <1>6, <1>7, <1>8, <1>9

(* The block of all elements is the transform.                             *)
LEMMA WholeIsTransform ==
  ASSUME NEW g \in [Index -> Residue], NEW x \in [Index -> Residue], NEW s \in {-1, 1},
         BlocksAre(g, x, s, fftFrameSize)
  PROVE  g = Dft(x, s)
<1>1. PICK F \in Nat \ {0} : F = fftFrameSize /\ Index = 0 .. F - 1
  BY FrameIs DEF Index
<1>2. ASSUME NEW p \in Index
      PROVE  g[p] = Dft(x, s)[p]
  <2>1. p \in Nat /\ p < F
    BY <1>1
  <2>2. p % F = p /\ p - p = 0 /\ F \div F = 1
    BY <2>1
  <2>3. g[p] = Strided(x, s, 0, 1, p, F) % Prime
    BY <1>1, <2>2, ReversedOfNone DEF BlocksAre
  <2>4. ASSUME NEW t \in 0 .. F - 1
        PROVE  x[t * 1 + 0] * Root(s * 1 * p * t) = x[t] * Root(s * p * t)
    <3>1. t * 1 + 0 = t /\ s * 1 = s
      OBVIOUS
    <3> QED
      BY <3>1
  <2>5. [t \in 0 .. F - 1 |-> x[t * 1 + 0] * Root(s * 1 * p * t)]
          = [t \in Index |-> x[t] * Root(s * p * t)]
    BY <1>1, <2>4
  <2>6. Strided(x, s, 0, 1, p, F) = SumUpTo([t \in Index |-> x[t] * Root(s * p * t)], F)
    BY <2>5 DEF Strided
  <2>7. Dft(x, s)[p] = SumUpTo([t \in Index |-> x[t] * Root(s * p * t)], fftFrameSize) % Prime
    BY DEF Dft
  <2> QED
    BY <1>1, <2>3, <2>6, <2>7
<1>3. Dft(x, s) = [p \in Index |-> Dft(x, s)[p]]
  BY DEF Dft
<1> QED
  BY <1>2, <1>3

(* Of the elements of x, those before the a-th are exchanged with those    *)
(* they belong to, and the others are where they were.                     *)
ReversedUpTo(g, x, a) ==
  \A p \in Index : g[p] = IF p < a \/ Reversed(p) < a THEN x[Reversed(p)] ELSE x[p]

(* What smbFft's loops have made of what it was given.                     *)
FftInv ==
  /\ input \in [Index -> Residue]
  /\ pc = "reverse" => le = 2 /\ ReversedUpTo(gFFTworksp, input, i)
  /\ pc = "stage" => /\ le \div 2 \in Divisor
                     /\ BlocksAre(gFFTworksp, input, sign, le \div 2)
  /\ FftIsTransform

LEMMA StartKeepsFft ==
  ASSUME FftTypes', NEW buffer, NEW s, StartFft(buffer, s)
  PROVE  FftInv'
<1>1. /\ gFFTworksp' = buffer /\ input' = buffer /\ i' = 1 /\ le' = 2 /\ pc' = "reverse"
  BY DEF StartFft
<1>2. buffer \in [Index -> Residue]
  BY <1>1 DEF FftTypes
<1>3. ReversedUpTo(buffer, buffer, 1)
  <2> SUFFICES ASSUME NEW p \in Index, p < 1 \/ Reversed(p) < 1
               PROVE  Reversed(p) = p
    BY DEF ReversedUpTo
  <2>1. p \in Nat /\ Reversed(p) \in Nat
    BY FrameIs, ReversedInIndex
  <2>2. CASE p < 1
    <3>1. p = 0
      BY <2>1, <2>2
    <3> QED
      BY <3>1, ReversedOfNone
  <2>3. CASE Reversed(p) < 1
    <3>1. Reversed(p) = 0
      BY <2>1, <2>3
    <3>2. Reversed(Reversed(p)) = p
      BY ReversedTwice
    <3> QED
      BY <3>1, <3>2, ReversedOfNone
  <2> QED
    BY <2>2, <2>3
<1> QED
  BY <1>1, <1>2, <1>3 DEF FftInv, FftIsTransform

LEMMA ReverseKeepsFft ==
  ASSUME SpectrumTypes, FftInv, Reverse
  PROVE  FftInv'
<1>1. /\ pc = "reverse" /\ pc' = pc /\ i < fftFrameSize - 1 /\ i' = i + 1
      /\ input' = input /\ le' = le
      /\ gFFTworksp' = IF Exchanged(i)
                       THEN [gFFTworksp EXCEPT ![i] = gFFTworksp[Reversed(i)],
                                               ![Reversed(i)] = gFFTworksp[i]]
                       ELSE gFFTworksp
  BY DEF Reverse
<1>2. i \in Index
  <2>1. i \in Nat
    BY DEF SpectrumTypes
  <2> QED
    BY <1>1, <2>1, FrameIs DEF Index
<1>3. ReversedUpTo(gFFTworksp, input, i) /\ le = 2 /\ input \in [Index -> Residue]
  BY <1>1 DEF FftInv
<1>4. gFFTworksp \in [Index -> Residue] /\ gFFTworksp' \in [Index -> Residue]
  BY ReverseTyped DEF SpectrumTypes, FftTypes
<1>5. PICK g \in [Index -> Residue], f \in [Index -> Residue], x \in [Index -> Residue], a \in Index :
        g = gFFTworksp /\ f = gFFTworksp' /\ x = input /\ a = i
  BY <1>2, <1>3, <1>4
<1>6. \A p \in Index : g[p] = IF p < a \/ Reversed(p) < a THEN x[Reversed(p)] ELSE x[p]
  BY <1>3, <1>5 DEF ReversedUpTo
<1>7. f = IF Exchanged(a)
          THEN [g EXCEPT ![a] = g[Reversed(a)], ![Reversed(a)] = g[a]] ELSE g
  BY <1>1, <1>5
<1>8. ReversedUpTo(f, x, a + 1)
  <2> SUFFICES ASSUME NEW p \in Index
               PROVE  f[p] = IF p < a + 1 \/ Reversed(p) < a + 1 THEN x[Reversed(p)] ELSE x[p]
    BY DEF ReversedUpTo
  <2> QED
    BY <1>6, <1>7, ExchangeReverses
<1>9. ReversedUpTo(gFFTworksp', input', i')
  BY <1>1, <1>5, <1>8
<1> QED
  BY <1>1, <1>3, <1>9 DEF FftInv, FftIsTransform

LEMMA EndReverseKeepsFft ==
  ASSUME SpectrumTypes, FftInv, EndReverse
  PROVE  FftInv'
<1>1. /\ pc = "reverse" /\ pc' = "stage" /\ i >= fftFrameSize - 1
      /\ input' = input /\ le' = le /\ gFFTworksp' = gFFTworksp /\ sign' = sign
  BY DEF EndReverse, fft
<1>2. ReversedUpTo(gFFTworksp, input, i) /\ le = 2 /\ input \in [Index -> Residue]
  BY <1>1 DEF FftInv
<1>3. gFFTworksp \in [Index -> Residue] /\ i \in Nat /\ sign \in {-1, 1}
  BY DEF SpectrumTypes
<1>4. BlocksAre(gFFTworksp, input, sign, 1)
  BY <1>1, <1>2, <1>3, ReversedAreBlocks DEF ReversedUpTo
<1>5. le' \div 2 = 1 /\ 1 \in Divisor
  BY <1>1, <1>2, FrameIs DEF Divisor
<1>6. BlocksAre(gFFTworksp', input', sign', le' \div 2)
  BY <1>1, <1>4, <1>5
<1> QED
  BY <1>1, <1>2, <1>5, <1>6 DEF FftInv, FftIsTransform

LEMMA CombineKeepsFft ==
  ASSUME SpectrumTypes, FftInv, Combine
  PROVE  FftInv'
<1> DEFINE half == le \div 2
           twiddled(x) == gFFTworksp[x] * Root(sign * (fftFrameSize \div le) * (x % half))
           f(x) == IF x % le < half THEN (gFFTworksp[x] + twiddled(x + half)) % Prime
                                    ELSE (gFFTworksp[x - half] - twiddled(x)) % Prime
<1>1. /\ pc = "stage" /\ pc' = pc /\ le <= fftFrameSize /\ le' = 2 * le
      /\ sign' = sign /\ input' = input
      /\ gFFTworksp' = [x \in Index |-> f(x)]
  BY DEF Combine
<1>2. /\ le \in Divisor /\ le \in Nat \ {0} /\ le % 2 = 0 /\ sign \in {-1, 1}
      /\ gFFTworksp \in [Index -> Residue]
  BY <1>1 DEF SpectrumTypes
<1>3. /\ half \in Divisor /\ BlocksAre(gFFTworksp, input, sign, half)
      /\ input \in [Index -> Residue]
  BY <1>1 DEF FftInv
<1>4. half \in Nat \ {0} /\ le = 2 * half
  BY <1>2
<1>5. PICK M \in Nat \ {0} : fftFrameSize = le * M /\ fftFrameSize \div le = M
  BY <1>2, DivisorIs DEF Divisor
<1> HIDE DEF half
<1>6. half \in Bits
  <2>1. half < fftFrameSize
    BY <1>1, <1>4, FrameIs
  <2> QED
    BY <1>3, <2>1, BitsAre
<1>7. PICK g \in [Index -> Residue], x \in [Index -> Residue], s \in {-1, 1}, h \in Nat \ {0} :
        g = gFFTworksp /\ x = input /\ s = sign /\ h = half
  BY <1>2, <1>3, <1>4
<1>8. /\ h \in Bits /\ (2 * h) * M = fftFrameSize /\ BlocksAre(g, x, s, h) /\ le = 2 * h
      /\ fftFrameSize \div (2 * h) = M
  BY <1>3, <1>4, <1>5, <1>6, <1>7
<1>9. ASSUME NEW p \in Index
      PROVE  /\ Reversed(p - (p % (2 * h))) < M
             /\ gFFTworksp'[p] = Strided(x, s, Reversed(p - (p % (2 * h))), M, p % (2 * h), 2 * h) % Prime
  <2>1. /\ Reversed(p - (p % (2 * h))) < M
        /\ Strided(x, s, Reversed(p - (p % (2 * h))), M, p % (2 * h), 2 * h) % Prime
             = IF p % (2 * h) < h
               THEN (g[p] + g[p + h] * Root(s * M * ((p + h) % h))) % Prime
               ELSE (g[p - h] - g[p] * Root(s * M * (p % h))) % Prime
    BY <1>8, StageCombines
  <2>2. f(p) = IF p % (2 * h) < h
               THEN (g[p] + g[p + h] * Root(s * M * ((p + h) % h))) % Prime
               ELSE (g[p - h] - g[p] * Root(s * M * (p % h))) % Prime
    BY <1>5, <1>7, <1>8, Zenon
  <2>3. gFFTworksp'[p] = f(p)
    <3> HIDE DEF f
    <3> QED
      BY <1>1
  <2> HIDE DEF f
  <2> QED
    BY <2>1, <2>2, <2>3, Zenon
<1>10. BlocksAre(gFFTworksp', x, s, 2 * h)
  BY <1>8, <1>9 DEF BlocksAre
<1>11. le' \div 2 = 2 * h /\ 2 * h \in Divisor
  BY <1>1, <1>2, <1>8
<1>12. BlocksAre(gFFTworksp', input', sign', le' \div 2)
  BY <1>1, <1>7, <1>10, <1>11
<1> QED
  BY <1>1, <1>3, <1>11, <1>12 DEF FftInv, FftIsTransform

LEMMA EndFftKeepsFft ==
  ASSUME SpectrumTypes, FftInv, EndFft
  PROVE  FftInv'
<1>1. /\ pc = "stage" /\ pc' \in {"analysis", "accumulate"} /\ le > fftFrameSize
      /\ input' = input /\ gFFTworksp' = gFFTworksp /\ sign' = sign
  BY DEF EndFft, fft
<1>2. /\ le \div 2 \in Divisor /\ BlocksAre(gFFTworksp, input, sign, le \div 2)
      /\ input \in [Index -> Residue]
  BY <1>1 DEF FftInv
<1>3. gFFTworksp \in [Index -> Residue] /\ sign \in {-1, 1} /\ le \in Nat /\ le % 2 = 0
  BY DEF SpectrumTypes
<1>4. le \div 2 = fftFrameSize
  <2>1. PICK h \in Divisor : h = le \div 2 /\ le = 2 * h
    BY <1>2, <1>3
  <2>2. h # fftFrameSize => 2 * h <= fftFrameSize
    BY DivisorDoubles
  <2>3. h \in Nat /\ fftFrameSize \in Nat
    BY FrameIs DEF Divisor
  <2> QED
    BY <1>1, <2>1, <2>2, <2>3
<1>5. gFFTworksp = Dft(input, sign)
  BY <1>2, <1>3, <1>4, WholeIsTransform
<1>6. gFFTworksp' = Dft(input', sign')
  BY <1>1, <1>5
<1> QED
  BY <1>1, <1>2, <1>6 DEF FftInv, FftIsTransform

(* smbFft turns any buffer into its transform, forward or back             *)
(* (audio.cpp:507-562), whatever power of 2 the frame's size is: when it   *)
(* returns, each element is the sum that defines it.                       *)
THEOREM FftIsFourier == Spec => []FftIsTransform
<1>1. Init => FftInv
  BY ResiduesAre DEF Init, FftInv, FftIsTransform
<1>2. SpectrumTypes /\ SpectrumTypes' /\ FftInv /\ [Next]_vars => FftInv'
  <2> SUFFICES ASSUME SpectrumTypes, SpectrumTypes', FftInv, [Next]_vars PROVE FftInv'
    OBVIOUS
  <2>1. CASE WindowFrame
    <3>1. PICK frame \in Inputs : StartFft([x \in Index |-> (frame[x] * Window(x)) % Prime], -1)
      BY <2>1 DEF WindowFrame
    <3> QED
      BY <2>1, <3>1, WindowTyped, StartKeepsFft
  <2>2. CASE Synthesise
    <3>1. StartFft([x \in Index |-> IF x \in Bins THEN Cartesian(gSynMagn[x], gSumPhase'[x]) ELSE 0], 1)
      BY <2>2 DEF Synthesise
    <3> QED
      BY <2>2, <3>1, SynthesiseTyped, StartKeepsFft
  <2>3. CASE Reverse \/ EndReverse \/ Combine \/ EndFft
    BY <2>3, ReverseKeepsFft, EndReverseKeepsFft, CombineKeepsFft, EndFftKeepsFft
  <2>4. CASE Analyse \/ MoveBin \/ DropBin \/ EndShift \/ Accumulate
    <3>1. input' = input /\ pc' \in {"shift", "synthesis", "window"}
      BY <2>4 DEF Analyse, MoveBin, DropBin, EndShift, Accumulate, fft
    <3> QED
      BY <3>1 DEF FftInv, FftIsTransform
  <2>5. CASE UNCHANGED vars
    <3>1. /\ input' = input /\ gFFTworksp' = gFFTworksp /\ sign' = sign
          /\ i' = i /\ le' = le /\ pc' = pc
      BY <2>5 DEF vars, fft
    <3> QED
      BY <3>1 DEF FftInv, FftIsTransform
  <2> QED
    BY <2>1, <2>2, <2>3, <2>4, <2>5 DEF Next
<1>3. FftInv => FftIsTransform
  BY DEF FftInv
<1> QED
  BY <1>1, <1>2, <1>3, SpectrumTyped, PTL DEF Spec
=============================================================================
