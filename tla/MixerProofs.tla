----------------------------- MODULE MixerProofs -----------------------------
(***************************************************************************)
(* What holds of the mixer for every number of channels, every range of    *)
(* samples and every set of sounds: its types, that no index it computes   *)
(* leaves its buffer, and that the accumulator cannot grow beyond one      *)
(* full-scale sample per channel.                                          *)
(***************************************************************************)
EXTENDS Mixer, NatFacts, SequenceTheorems, TLAPS

Level == MSAMPLE_MIN .. MSAMPLE_MAX

(* The inductive invariant.  Neither of the two safety invariants is       *)
(* inductive without the other: a sample stays below the bound because the *)
(* index it is read at is in range, and that is known from the ticks.      *)
IInv == TypeOK /\ IndicesInRange /\ Headroom

(* Audio::Get never leaves the range of a sample: past the end it is 0.    *)
LEMMA GetInLevel ==
  ASSUME NEW a \in Seq(Level), NEW p \in Nat
  PROVE  Get(a, p) \in Level
<1>1. CASE p >= Len(a)
  BY <1>1, SampleAssumption DEF Get, Level
<1>2. CASE p < Len(a)
  <2>1. p + 1 \in 1 .. Len(a)
    BY <1>2
  <2>2. a[p + 1] \in Level
    BY <2>1, ElementOfSeq
  <2> QED
    BY <1>2, <2>2 DEF Get
<1> QED
  BY <1>1, <1>2

(* Appending t zeros, element by element.                                  *)
LEMMA ZerosAppended ==
  ASSUME NEW s \in Seq(Int), NEW t \in Nat
  PROVE  LET z == s \o [k \in 1 .. t |-> 0]
         IN  /\ z \in Seq(Int)
             /\ Len(z) = Len(s) + t
             /\ \A p \in 1 .. Len(z) : z[p] = IF p <= Len(s) THEN s[p] ELSE 0
<1> DEFINE zeros == [k \in 1 .. t |-> 0]
<1>1. zeros \in Seq(Int) /\ Len(zeros) = t
  <2>1. zeros \in [1 .. t -> Int]
    OBVIOUS
  <2>2. zeros \in Seq(Int)
    BY <2>1, SeqDef
  <2>3. DOMAIN zeros = 1 .. t
    OBVIOUS
  <2> QED
    BY <2>2, <2>3, LenProperties
<1>2. \A p \in 1 .. t : zeros[p] = 0
  OBVIOUS
<1> HIDE DEF zeros
<1>3. /\ s \o zeros \in Seq(Int)
      /\ Len(s \o zeros) = Len(s) + t
      /\ \A p \in 1 .. Len(s) + t :
           (s \o zeros)[p] = IF p <= Len(s) THEN s[p] ELSE zeros[p - Len(s)]
  BY <1>1, ConcatProperties
<1>4. \A p \in 1 .. Len(s) + t : p > Len(s) => zeros[p - Len(s)] = 0
  BY <1>2, LenProperties
<1> QED
  BY <1>3, <1>4, LenProperties DEF zeros

(* A buffer rewritten in place keeps its type and its length.              *)
LEMMA RewrittenInPlace ==
  ASSUME NEW s \in Seq(Int), NEW z, z \in [DOMAIN s -> Int]
  PROVE  z \in Seq(Int) /\ Len(z) = Len(s) /\ DOMAIN z = DOMAIN s
<1>1. DOMAIN s = 1 .. Len(s) /\ Len(s) \in Nat
  BY LenProperties
<1>2. z \in Seq(Int)
  BY <1>1, SeqDef
<1>3. DOMAIN z = 1 .. Len(z) /\ Len(z) \in Nat
  BY <1>2, LenProperties
<1> QED
  BY <1>1, <1>2, <1>3

(* No channel has a negative number of samples left, and one has the most. *)
LEMMA SomeChannelLasts ==
  ASSUME TypeOK
  PROVE  /\ \A c \in Channel : RemainingTick(c) \in Nat
         /\ \E k \in Channel : \A c \in Channel : RemainingTick(c) <= RemainingTick(k)
<1> DEFINE f == [c \in Channel |-> RemainingTick(c)]
<1>1. \A c \in Channel : RemainingTick(c) \in Nat
  <2> SUFFICES ASSUME NEW c \in Channel
               PROVE  RemainingTick(c) \in Nat
    OBVIOUS
  <2>1. Len(audio[c]) \in Nat
    BY LenProperties DEF TypeOK
  <2>2. Len(audio[c]) - (tick - started[c]) \in Int
    BY <2>1 DEF TypeOK
  <2> QED
    BY <2>2 DEF RemainingTick
<1>2. f \in [0 .. MIXERSIZE - 1 -> Int]
  BY <1>1 DEF Channel
<1> HIDE DEF f
<1>3. \E k \in Channel : \A c \in Channel : f[c] <= f[k]
  BY <1>2, GreatestOfMany, MixerSizeAssumption DEF Channel
<1> QED
  BY <1>1, <1>3 DEF f

(* The maximum that MixUntilEnd computes exists and is a maximum.          *)
LEMMA LongestRemainingIsLongest ==
  ASSUME TypeOK
  PROVE  /\ LongestRemaining \in Nat
         /\ \A c \in Channel : RemainingTick(c) <= LongestRemaining
         /\ \E c \in Channel : RemainingTick(c) = LongestRemaining
<1>1. \E r \in {RemainingTick(c) : c \in Channel} :
        \A c \in Channel : RemainingTick(c) <= r
  BY SomeChannelLasts
<1>2. /\ LongestRemaining \in {RemainingTick(c) : c \in Channel}
      /\ \A c \in Channel : RemainingTick(c) <= LongestRemaining
  BY <1>1 DEF LongestRemaining
<1> QED
  BY <1>2, SomeChannelLasts

(* A bound on one more channel.                                            *)
LEMMA OneMore ==
  ASSUME NEW n \in Int, NEW b \in Int
  PROVE  (n + 1) * b = n * b + b /\ n * b \in Int
OBVIOUS

-----------------------------------------------------------------------------

LEMMA InitIInv == Init => IInv
<1> SUFFICES ASSUME Init PROVE IInv
  OBVIOUS
<1> USE DEF Init
<1>1. TypeOK
  <2>1. audio \in [Channel -> Seq(Level)] /\ samples \in Seq(Int) /\ out \in Seq(Level)
    BY EmptySeq
  <2>2. started \in [Channel -> Int] /\ tick \in Int
    BY UnsetAssumption
  <2> QED
    BY <2>1, <2>2, MixerSizeAssumption DEF TypeOK, Phase, Level
<1>2. IndicesInRange
  BY DEF IndicesInRange, InRecording
<1>3. Headroom
  <2>1. DOMAIN samples = {}
    BY EmptySeq
  <2> QED
    BY <2>1 DEF Headroom
<1> QED
  BY <1>1, <1>2, <1>3 DEF IInv

(* One turn of Mix's channel loop, the step the bound rests on.            *)
LEMMA MixChannelKeepsIInv ==
  ASSUME IInv, MixChannel
  PROVE  IInv'
<1> USE DEF IInv
<1>1. /\ i \in Channel
      /\ i + 1 \in 0 .. MIXERSIZE
      /\ tick \in Nat
      /\ span \in Nat
      /\ Len(samples) = tick + span
      /\ DOMAIN samples = 1 .. tick + span
      /\ samples \in [DOMAIN samples -> Int]
  <2>1. Len(samples) = tick + span /\ span \in Nat /\ tick \in Int
    BY DEF TypeOK, IndicesInRange, MixChannel
  <2>2. DOMAIN samples = 1 .. Len(samples) /\ Len(samples) \in Nat
        /\ samples \in [DOMAIN samples -> Int]
    BY LenProperties DEF TypeOK
  <2>3. i \in Channel /\ i + 1 \in 0 .. MIXERSIZE
    <3>1. i \in 0 .. MIXERSIZE /\ i < MIXERSIZE
      BY DEF TypeOK, MixChannel
    <3> HIDE DEF IInv
    <3> QED
      BY <3>1, MixerSizeAssumption DEF Channel
  <2>4. tick \in Nat
    BY <2>1 DEF IndicesInRange, InRecording, MixChannel
  <2> QED
    BY <2>1, <2>2, <2>3, <2>4
<1>2. ASSUME mixing[i], NEW p \in tick + 1 .. tick + span
      PROVE  Get(audio[i], p - 1 - started[i]) \in Level
  <2>1. audio[i] \in Seq(Level)
    BY <1>1 DEF TypeOK, Level
  <2>2. started[i] \in 0 .. tick
    BY <1>1, <1>2 DEF IndicesInRange, InRecording, MixChannel
  <2>3. p - 1 - started[i] \in Nat
    BY <1>1, <1>2, <2>2
  <2> QED
    BY <2>1, <2>3, GetInLevel
<1>3. samples' \in [DOMAIN samples -> Int]
  <2>1. CASE mixing[i]
    BY <1>1, <1>2, <2>1, SampleAssumption DEF MixChannel, Level
  <2>2. CASE ~mixing[i]
    BY <1>1, <2>2 DEF MixChannel
  <2> QED
    BY <2>1, <2>2
<1>4. samples' \in Seq(Int) /\ Len(samples') = Len(samples) /\ DOMAIN samples' = DOMAIN samples
  BY <1>3, RewrittenInPlace DEF TypeOK
<1>5. TypeOK'
  BY <1>1, <1>4 DEF TypeOK, MixChannel, chanVars, Phase
<1>6. IndicesInRange'
  BY <1>4 DEF IndicesInRange, InRecording, MixChannel, chanVars
<1>7. Headroom'
  <2> SUFFICES ASSUME NEW p \in DOMAIN samples
               PROVE  LET m == IF p <= tick THEN MIXERSIZE ELSE i + 1
                      IN  samples'[p] \in m * MSAMPLE_MIN .. m * MSAMPLE_MAX
    BY <1>4 DEF Headroom, MixChannel
  <2>1. LET m == IF p <= tick THEN MIXERSIZE ELSE i
        IN  samples[p] \in m * MSAMPLE_MIN .. m * MSAMPLE_MAX
    BY DEF Headroom, MixChannel
  <2>2. CASE p <= tick
    BY <1>1, <2>1, <2>2 DEF MixChannel
  <2>3. CASE p > tick
    <3>1. samples[p] \in i * MSAMPLE_MIN .. i * MSAMPLE_MAX
      BY <1>1, <2>1, <2>3
    <3>2. /\ (i + 1) * MSAMPLE_MIN = i * MSAMPLE_MIN + MSAMPLE_MIN
          /\ (i + 1) * MSAMPLE_MAX = i * MSAMPLE_MAX + MSAMPLE_MAX
          /\ i * MSAMPLE_MIN \in Int
          /\ i * MSAMPLE_MAX \in Int
      <4>1. i \in Int
        BY <1>1, MixerSizeAssumption DEF Channel
      <4> HIDE DEF IInv
      <4> QED
        BY <4>1, OneMore, SampleAssumption
    <3>3. p \in tick + 1 .. tick + span
      BY <1>1, <2>3
    <3>4. samples'[p] \in (i + 1) * MSAMPLE_MIN .. (i + 1) * MSAMPLE_MAX
      <4>1. CASE mixing[i]
        <5>1. samples'[p] = samples[p] + Get(audio[i], p - 1 - started[i])
          BY <3>3, <4>1 DEF MixChannel
        <5>2. Get(audio[i], p - 1 - started[i]) \in MSAMPLE_MIN .. MSAMPLE_MAX
          BY <1>2, <3>3, <4>1 DEF Level
        <5> HIDE DEF IInv
        <5> QED
          BY <3>1, <3>2, <5>1, <5>2, SampleAssumption
      <4>2. CASE ~mixing[i]
        <5>1. samples'[p] = samples[p]
          BY <4>2 DEF MixChannel
        <5> HIDE DEF IInv
        <5> QED
          BY <3>1, <3>2, <5>1, SampleAssumption
      <4> QED
        BY <4>1, <4>2
    <3> QED
      BY <1>1, <2>3, <3>4
  <2> QED
    BY <1>1, <2>2, <2>3
<1> QED
  BY <1>5, <1>6, <1>7

(* The head of Mix: the appended zeros are the sum of no channel at all.   *)
LEMMA BeginMixKeepsIInv ==
  ASSUME IInv, NEW t \in Nat, BeginMix(t), rest' \in Nat \cup {NoRest}
  PROVE  IInv'
<1>1. /\ samples \in Seq(Int)
      /\ Len(samples) = tick
      /\ tick \in Nat
  BY DEF IInv, TypeOK, IndicesInRange, InRecording, BeginMix
<1>2. /\ samples' \in Seq(Int)
      /\ Len(samples') = tick + t
      /\ \A p \in 1 .. Len(samples') : samples'[p] = IF p <= tick THEN samples[p] ELSE 0
  BY <1>1, ZerosAppended DEF BeginMix
<1>3. TypeOK'
  BY <1>2, MixerSizeAssumption DEF IInv, TypeOK, BeginMix, chanVars, Phase
<1>4. IndicesInRange'
  BY <1>1, <1>2 DEF IInv, IndicesInRange, InRecording, BeginMix, chanVars
<1>5. Headroom'
  <2>1. DOMAIN samples' = 1 .. tick + t /\ DOMAIN samples = 1 .. tick
    BY <1>1, <1>2, LenProperties
  <2>2. /\ \A p \in DOMAIN samples :
             samples[p] \in MIXERSIZE * MSAMPLE_MIN .. MIXERSIZE * MSAMPLE_MAX
        /\ tick' = tick /\ pc' = "inMix" /\ i' = 0
    BY DEF IInv, Headroom, BeginMix
  <2>3. 0 * MSAMPLE_MIN = 0 /\ 0 * MSAMPLE_MAX = 0
    BY SampleAssumption
  <2> SUFFICES ASSUME NEW p \in DOMAIN samples'
               PROVE  LET m == IF p <= tick THEN MIXERSIZE ELSE 0
                      IN  samples'[p] \in m * MSAMPLE_MIN .. m * MSAMPLE_MAX
    BY <2>2 DEF Headroom
  <2>4. CASE p <= tick
    BY <1>1, <1>2, <2>1, <2>2, <2>4
  <2>5. CASE ~(p <= tick)
    BY <1>1, <1>2, <2>1, <2>3, <2>5
  <2> QED
    BY <2>4, <2>5
<1> QED
  BY <1>3, <1>4, <1>5 DEF IInv

(* The tail of Mix: the loop has seen every channel.                       *)
LEMMA EndMixKeepsIInv ==
  ASSUME IInv, EndMix
  PROVE  IInv'
<1>1. TypeOK'
  BY MixerSizeAssumption DEF IInv, TypeOK, EndMix, chanVars, Phase
<1>2. IndicesInRange'
  BY DEF IInv, TypeOK, IndicesInRange, InRecording, EndMix, chanVars
<1>3. Headroom'
  BY DEF IInv, Headroom, EndMix
<1> QED
  BY <1>1, <1>2, <1>3 DEF IInv

(* Flush's cut leaves output samples, whatever normalizing did.            *)
LEMMA CutInLevel ==
  ASSUME NEW x \in Int
  PROVE  Cut(x) \in Level
BY SampleAssumption DEF Cut, Level

(* No sample proposes a ratio above 1: the limit is divided by the sample  *)
(* that exceeds it, so the greatest proposal is always the initial 1.      *)
LEMMA NormalizeRatioIsOne ==
  ASSUME NEW s \in Seq(Int)
  PROVE  NormalizeRatio(s) = <<1, 1>>
<1> DEFINE proposals == {<<1, 1>>} \cup {ProposedRatio(s[p]) : p \in DOMAIN s}
<1>1. \A q \in proposals : AtLeast(<<1, 1>>, q)
  <2>1. \A p \in DOMAIN s : AtLeast(<<1, 1>>, ProposedRatio(s[p]))
    <3> SUFFICES ASSUME NEW p \in DOMAIN s
                 PROVE  AtLeast(<<1, 1>>, ProposedRatio(s[p]))
      OBVIOUS
    <3>1. s[p] \in Int
      OBVIOUS
    <3> QED
      BY <3>1, SampleAssumption DEF AtLeast, ProposedRatio
  <2>2. AtLeast(<<1, 1>>, <<1, 1>>)
    BY DEF AtLeast
  <2> QED
    BY <2>1, <2>2
<1>2. \A q \in proposals : AtLeast(q, <<1, 1>>) => q = <<1, 1>>
  <2> SUFFICES ASSUME NEW p \in DOMAIN s, AtLeast(ProposedRatio(s[p]), <<1, 1>>)
               PROVE  ProposedRatio(s[p]) = <<1, 1>>
    OBVIOUS
  <2>1. s[p] \in Int
    OBVIOUS
  <2> QED
    BY <2>1, SampleAssumption DEF AtLeast, ProposedRatio
<1>3. <<1, 1>> \in proposals
  OBVIOUS
<1>4. NormalizeRatio(s) = CHOOSE q \in proposals : \A r \in proposals : AtLeast(q, r)
  BY DEF NormalizeRatio
<1> HIDE DEF proposals
<1> QED
  BY <1>1, <1>2, <1>3, <1>4

(* Flush with `normalize' stores exactly what Flush without it stores: for *)
(* every buffer, the loop of audio.cpp:255-257 multiplies by 1.            *)
THEOREM NormalizingChangesNothing ==
  \A s \in Seq(Int) : Normalized(s) = s
<1> SUFFICES ASSUME NEW s \in Seq(Int) PROVE Normalized(s) = s
  OBVIOUS
<1>1. Normalized(s) = [p \in DOMAIN s |-> Scale(s[p], <<1, 1>>)]
  BY NormalizeRatioIsOne DEF Normalized
<1>2. \A p \in DOMAIN s : Scale(s[p], <<1, 1>>) = s[p]
  <2> SUFFICES ASSUME NEW x \in Int PROVE Scale(x, <<1, 1>>) = x
    OBVIOUS
  <2> QED
    BY DEF Scale
<1>3. s = [p \in DOMAIN s |-> s[p]]
  OBVIOUS
<1> QED
  BY <1>1, <1>2, <1>3

(* Flush empties the accumulator and hands over output samples.            *)
LEMMA FlushKeepsIInv ==
  ASSUME IInv, NEW n \in BOOLEAN, Flush(n)
  PROVE  IInv'
<1>1. samples \in Seq(Int) /\ Normalized(samples) = samples
  BY NormalizingChangesNothing DEF IInv, TypeOK
<1>2. out' = [p \in DOMAIN samples |-> Cut(samples[p])]
  BY <1>1 DEF Flush
<1>3. out' \in Seq(Level)
  <2>1. DOMAIN samples = 1 .. Len(samples) /\ Len(samples) \in Nat
    BY <1>1, LenProperties
  <2>2. \A p \in DOMAIN samples : Cut(samples[p]) \in Level
    BY <1>1, CutInLevel
  <2>3. out' \in [1 .. Len(samples) -> Level]
    BY <1>2, <2>1, <2>2
  <2> QED
    BY <2>1, <2>3, SeqDef
<1>4. samples' = <<>> /\ samples' \in Seq(Int) /\ DOMAIN samples' = {}
  BY EmptySeq DEF Flush
<1>5. TypeOK'
  BY <1>3, <1>4 DEF IInv, TypeOK, Flush, chanVars, loopVars, Phase, Level
<1>6. IndicesInRange'
  BY DEF IndicesInRange, InRecording, Flush
<1>7. Headroom'
  BY <1>4 DEF Headroom
<1> QED
  BY <1>5, <1>6, <1>7 DEF IInv

-----------------------------------------------------------------------------

(* Every step of the mixer keeps the inductive invariant.                  *)
LEMMA StepKeepsIInv ==
  ASSUME IInv, [Next]_vars
  PROVE  IInv'
<1>1. ASSUME NEW c \in Channel, LoadFile(c) \/ LoadFileFails(c) PROVE IInv'
  <2>1. audio' \in [Channel -> Seq(Level)]
    BY <1>1, SoundsAssumption, EmptySeq
       DEF IInv, TypeOK, LoadFile, LoadFileFails, Level
  <2>2. TypeOK'
    BY <1>1, <2>1 DEF IInv, TypeOK, LoadFile, LoadFileFails, loopVars, Level
  <2>3. IndicesInRange'
    BY <1>1 DEF IndicesInRange, InRecording, LoadFile, LoadFileFails
  <2>4. Headroom'
    BY <1>1 DEF IInv, Headroom, LoadFile, LoadFileFails, loopVars
  <2> QED
    BY <2>2, <2>3, <2>4 DEF IInv
<1>2. CASE Release
  <2>1. audio' \in [Channel -> Seq(Level)]
    BY <1>2, EmptySeq DEF Release
  <2>2. TypeOK'
    BY <1>2, <2>1 DEF IInv, TypeOK, Release, loopVars, Level
  <2>3. IndicesInRange'
    BY <1>2 DEF IndicesInRange, InRecording, Release
  <2>4. Headroom'
    BY <1>2 DEF IInv, Headroom, Release, loopVars
  <2> QED
    BY <2>2, <2>3, <2>4 DEF IInv
<1>3. CASE StartMixing
  <2>1. samples' = <<>> /\ samples' \in Seq(Int) /\ DOMAIN samples' = {}
        /\ Len(samples') = 0
    BY <1>3, EmptySeq DEF StartMixing
  <2>2. TypeOK'
    BY <1>3, <2>1 DEF IInv, TypeOK, StartMixing, loopVars, Phase
  <2>3. IndicesInRange'
    BY <1>3, <2>1 DEF IndicesInRange, InRecording, StartMixing
  <2>4. Headroom'
    BY <2>1 DEF Headroom
  <2> QED
    BY <2>2, <2>3, <2>4 DEF IInv
<1>4. ASSUME NEW c \in Channel, Start(c) \/ Stop(c) PROVE IInv'
  <2>1. TypeOK'
    BY <1>4 DEF IInv, TypeOK, Start, Stop, loopVars
  <2>2. IndicesInRange'
    <3>1. tick \in Nat
      BY <1>4 DEF IInv, TypeOK, IndicesInRange, InRecording, Start, Stop
    <3>2. \A d \in Channel : mixing'[d] => started'[d] \in 0 .. tick
      <4>1. \A d \in Channel : mixing[d] => started[d] \in 0 .. tick
        BY <1>4 DEF IInv, IndicesInRange, InRecording, Start, Stop
      <4>2. mixing \in [Channel -> BOOLEAN] /\ started \in [Channel -> Int]
        BY DEF IInv, TypeOK
      <4>3. CASE Start(c)
        BY <3>1, <4>1, <4>2, <4>3 DEF Start
      <4>4. CASE Stop(c)
        BY <4>1, <4>2, <4>4 DEF Stop
      <4> QED
        BY <1>4, <4>3, <4>4
    <3> QED
      BY <1>4, <3>1, <3>2 DEF IInv, IndicesInRange, InRecording, Start, Stop, loopVars
  <2>3. Headroom'
    BY <1>4 DEF IInv, Headroom, Start, Stop, loopVars
  <2> QED
    BY <2>1, <2>2, <2>3 DEF IInv
<1>5. ASSUME NEW t \in 0 .. MaxTick - tick, Mix(t) PROVE IInv'
  <2>1. t \in Nat
    BY <1>5, MaxTickAssumption DEF IInv, TypeOK
  <2> QED
    BY <1>5, <2>1, BeginMixKeepsIInv DEF Mix
<1>6. CASE MixUntilEnd
  <2>1. LongestRemaining \in Nat
    BY LongestRemainingIsLongest DEF IInv
  <2> QED
    BY <1>6, <2>1, BeginMixKeepsIInv DEF MixUntilEnd
<1>7. CASE MixChannel
  BY <1>7, MixChannelKeepsIInv
<1>8. CASE EndMix
  BY <1>8, EndMixKeepsIInv
<1>9. CASE IsAllAudioStopped
  <2>1. mixing' \in [Channel -> BOOLEAN]
    BY <1>9 DEF IInv, TypeOK, IsAllAudioStopped
  <2>2. \A c \in Channel : mixing'[c] => mixing[c]
    BY <1>9 DEF IsAllAudioStopped
  <2>3. TypeOK'
    BY <1>9, <2>1 DEF IInv, TypeOK, IsAllAudioStopped, loopVars
  <2>4. IndicesInRange'
    BY <1>9, <2>2 DEF IInv, IndicesInRange, InRecording, IsAllAudioStopped, loopVars
  <2>5. Headroom'
    BY <1>9 DEF IInv, Headroom, IsAllAudioStopped, loopVars
  <2> QED
    BY <2>3, <2>4, <2>5 DEF IInv
<1>10. ASSUME NEW n \in BOOLEAN, Flush(n) PROVE IInv'
  BY <1>10, FlushKeepsIInv
<1>11. CASE UNCHANGED vars
  BY <1>11 DEF IInv, TypeOK, IndicesInRange, InRecording, Headroom, vars
<1> QED
  BY <1>1, <1>2, <1>3, <1>4, <1>5, <1>6, <1>7, <1>8, <1>9, <1>10, <1>11 DEF Next

(* The inductive invariant holds of every reachable state.                 *)
LEMMA IInvHolds == Spec => []IInv
<1>1. Init => IInv
  BY InitIInv
<1>2. IInv /\ [Next]_vars => IInv'
  BY StepKeepsIInv
<1> QED
  BY <1>1, <1>2, PTL DEF Spec

(* Every variable of the mixer keeps its type; in particular every sample  *)
(* that Flush stores into the output fits a short (audio.cpp:262-266).     *)
THEOREM TypeCorrect == Spec => []TypeOK
<1>1. IInv => TypeOK
  BY DEF IInv
<1> QED
  BY <1>1, IInvHolds, PTL

(* For any number of channels and any schedule of the calls, Mix writes    *)
(* only positions of the accumulator that exist, and reads no audio at a   *)
(* negative position (audio.cpp:211-219).                                  *)
THEOREM IndicesStayInRange == Spec => []IndicesInRange
<1>1. IInv => IndicesInRange
  BY DEF IInv
<1> QED
  BY <1>1, IInvHolds, PTL

(* The accumulator never needs more than MIXERSIZE full-scale samples:     *)
(* 1296 * 32768 is 42467328, so the int of audio.h:31 does not overflow.   *)
THEOREM AccumulatorHasHeadroom == Spec => []Headroom
<1>1. IInv => Headroom
  BY DEF IInv
<1> QED
  BY <1>1, IInvHolds, PTL

-----------------------------------------------------------------------------
(* MixUntilEnd.                                                            *)

(* While the channel loop of MixUntilEnd runs, no channel has more left    *)
(* than the loop is adding, and one has exactly that.  MixUntilEndDrains   *)
(* speaks of the state after the loop and says nothing while it runs.      *)
EndIsKnown ==
  pc = "inMix" /\ rest # NoRest =>
    /\ span = rest
    /\ \A c \in Channel : RemainingTick(c) <= span
    /\ \E c \in Channel : RemainingTick(c) = span

DrainInv == EndIsKnown /\ MixUntilEndDrains

(* The tail of MixUntilEnd: the ticks that every channel had left are over. *)
LEMMA EndMixDrains ==
  ASSUME IInv, EndIsKnown, EndMix
  PROVE  MixUntilEndDrains'
<1> SUFFICES ASSUME rest # NoRest
             PROVE  MixUntilEndDrains'
  BY DEF MixUntilEndDrains, EndMix
<1>1. /\ span = rest /\ span \in Nat /\ tick \in Int
      /\ \A c \in Channel : RemainingTick(c) <= span
      /\ \E c \in Channel : RemainingTick(c) = span
  BY DEF EndIsKnown, EndMix, IInv, TypeOK
<1>2. \A c \in Channel : Len(audio[c]) \in Nat /\ started[c] \in Int
  BY LenProperties DEF IInv, TypeOK
<1>3. ASSUME NEW c \in Channel, mixing[c]
      PROVE  Len(audio[c]) <= tick + span - started[c]
  BY <1>1, <1>2, <1>3 DEF RemainingTick
<1>4. ASSUME rest > 0
      PROVE  \E c \in Channel : mixing[c] /\ started[c] + Len(audio[c]) = tick + span
  <2>1. PICK c \in Channel : RemainingTick(c) = span
    BY <1>1
  <2>2. mixing[c] /\ Len(audio[c]) - (tick - started[c]) = span
    BY <1>1, <1>2, <1>4, <2>1 DEF RemainingTick
  <2> QED
    BY <1>1, <1>2, <2>2
<1>5. /\ audio' = audio /\ mixing' = mixing /\ started' = started
      /\ tick' = tick + span /\ rest' = rest
  BY DEF EndMix, chanVars
<1>6. \A c \in Channel : ~mixing'[c] \/ Len(audio'[c]) <= tick' - started'[c]
  <2>1. mixing \in [Channel -> BOOLEAN]
    BY DEF IInv, TypeOK
  <2> QED
    BY <1>1, <1>2, <1>3, <1>5, <2>1
<1>7. rest' > 0 => \E c \in Channel : mixing'[c] /\ started'[c] + Len(audio'[c]) = tick'
  BY <1>4, <1>5
<1> QED
  BY <1>6, <1>7, Zenon DEF MixUntilEndDrains, IsStopped, HasEnded

LEMMA StepKeepsDrainInv ==
  ASSUME IInv, DrainInv, [Next]_vars
  PROVE  DrainInv'
<1> USE DEF DrainInv
<1>1. ASSUME rest' = NoRest PROVE DrainInv'
  BY <1>1 DEF EndIsKnown, MixUntilEndDrains
<1>2. ASSUME NEW c \in Channel, LoadFile(c) \/ LoadFileFails(c) PROVE DrainInv'
  BY <1>2 DEF LoadFile, LoadFileFails, EndIsKnown, MixUntilEndDrains
<1>3. CASE Release
  BY <1>3 DEF Release, EndIsKnown, MixUntilEndDrains
<1>4. CASE MixUntilEnd
  <2>1. /\ \A c \in Channel : RemainingTick(c)' = RemainingTick(c)
        /\ rest' = LongestRemaining /\ span' = LongestRemaining /\ pc' = "inMix"
    BY <1>4 DEF MixUntilEnd, BeginMix, chanVars, RemainingTick
  <2> QED
    BY <2>1, LongestRemainingIsLongest DEF IInv, EndIsKnown, MixUntilEndDrains
<1>5. CASE MixChannel
  <2>1. /\ \A c \in Channel : RemainingTick(c)' = RemainingTick(c)
        /\ rest' = rest /\ span' = span /\ pc = "inMix" /\ pc' = "inMix"
    BY <1>5 DEF MixChannel, chanVars, RemainingTick
  <2> QED
    BY <2>1 DEF EndIsKnown, MixUntilEndDrains
<1>6. CASE EndMix
  <2>1. EndIsKnown'
    BY <1>6 DEF EndMix, EndIsKnown
  <2> QED
    BY <1>6, <2>1, EndMixDrains
<1>7. CASE UNCHANGED vars
  BY <1>7 DEF vars, EndIsKnown, MixUntilEndDrains, RemainingTick, IsStopped, HasEnded
<1>8. ASSUME \/ StartMixing \/ IsAllAudioStopped
             \/ \E c \in Channel : Start(c) \/ Stop(c)
             \/ \E t \in 0 .. MaxTick - tick : Mix(t)
             \/ \E n \in BOOLEAN : Flush(n)
      PROVE  rest' = NoRest
  BY <1>8 DEF StartMixing, IsAllAudioStopped, Start, Stop, Mix, Flush
<1> QED
  BY <1>1, <1>2, <1>3, <1>4, <1>5, <1>6, <1>7, <1>8 DEF Next

(* "mix until all audio stops playing" (audio.h:138), for any number of    *)
(* channels and any sounds: after MixUntilEnd nothing is left to play, and *)
(* the last sample mixed is the last sample of some channel's sound.       *)
THEOREM EndIsNeitherCutNorPadded == Spec => []MixUntilEndDrains
<1>1. Init => DrainInv
  BY DEF Init, DrainInv, EndIsKnown, MixUntilEndDrains
<1>2. IInv /\ DrainInv /\ [Next]_vars => DrainInv'
  BY StepKeepsDrainInv
<1>3. DrainInv => MixUntilEndDrains
  BY DEF DrainInv
<1> QED
  BY <1>1, <1>2, <1>3, IInvHolds, PTL DEF Spec

-----------------------------------------------------------------------------
(* The mixer is the sum of its play heads: Mixer implements SoundMix.      *)

(* What channel c adds to position p of the accumulator.                   *)
Heard(c, p) == IF mixing[c] THEN Get(audio[c], p - 1 - started[c]) ELSE 0

(* Inside the channel loop the new positions hold the sum of the channels  *)
(* that the loop has seen; before the first one that sum is 0, which is    *)
(* what they were filled with.                                             *)
MixIsSum ==
  pc = "inMix" =>
    \A p \in tick + 1 .. tick + span :
      samples[p] = SumUpTo([c \in Channel |-> Heard(c, p)], i)

SoundsFit == \A c \in Channel : Len(audio[c]) <= MaxTick

SpanFits == span <= MaxTick

NothingExported == pc = "loading" => out = <<>>

MixInv == MixIsSum /\ SoundsFit /\ SpanFits /\ NothingExported

(* What a channel adds is a sample.                                        *)
LEMMA HeardIsSample ==
  ASSUME IInv, pc = "inMix", NEW c \in Channel, NEW p \in tick + 1 .. tick + span
  PROVE  Heard(c, p) \in Int
<1>1. /\ tick \in Nat /\ span \in Nat
      /\ audio[c] \in Seq(Level)
      /\ mixing[c] => started[c] \in 0 .. tick
  BY DEF IInv, TypeOK, IndicesInRange, InRecording, Level
<1>2. CASE mixing[c]
  <2>1. p - 1 - started[c] \in Nat
    BY <1>1, <1>2
  <2>2. Get(audio[c], p - 1 - started[c]) \in Level
    BY <1>1, <2>1, GetInLevel
  <2> QED
    BY <1>2, <2>2, SampleAssumption DEF Heard, Level
<1>3. CASE ~mixing[c]
  BY <1>3 DEF Heard
<1> QED
  BY <1>2, <1>3

(* One turn of the channel loop adds one channel to the sum.               *)
LEMMA MixChannelKeepsSum ==
  ASSUME IInv, MixIsSum, MixChannel
  PROVE  MixIsSum'
<1>1. /\ pc = "inMix" /\ tick \in Nat /\ span \in Nat /\ i \in Nat /\ i < MIXERSIZE
      /\ DOMAIN samples = 1 .. tick + span
      /\ mixing[i] \in BOOLEAN
  <2>1. samples \in Seq(Int) /\ Len(samples) = tick + span
    BY DEF IInv, TypeOK, IndicesInRange, MixChannel
  <2>2. DOMAIN samples = 1 .. Len(samples)
    BY <2>1, LenProperties
  <2>3. tick \in Nat /\ span \in Nat /\ pc = "inMix"
    BY DEF IInv, TypeOK, IndicesInRange, InRecording, MixChannel
  <2>4. i \in 0 .. MIXERSIZE /\ i < MIXERSIZE /\ mixing \in [Channel -> BOOLEAN]
    BY DEF IInv, TypeOK, MixChannel
  <2> QED
    BY <2>1, <2>2, <2>3, <2>4, MixerSizeAssumption DEF Channel
<1>2. /\ tick' = tick /\ span' = span /\ i' = i + 1
      /\ audio' = audio /\ mixing' = mixing /\ started' = started
  BY DEF MixChannel, chanVars
<1> SUFFICES ASSUME NEW p \in tick + 1 .. tick + span
             PROVE  samples'[p] = SumUpTo([c \in Channel |-> Heard(c, p)], i + 1)
  BY <1>2 DEF MixIsSum, Heard
<1> DEFINE v == [c \in Channel |-> Heard(c, p)]
<1>3. samples[p] = SumUpTo(v, i)
  BY <1>1 DEF MixIsSum
<1>4. \A c \in Channel : v[c] \in Int /\ v[c] = Heard(c, p)
  BY <1>1, HeardIsSample
<1> HIDE DEF v
<1>5. \A n \in 0 .. i : v[n] \in Int
  BY <1>1, <1>4, MixerSizeAssumption DEF Channel
<1>6. SumUpTo(v, i) \in Int /\ SumUpTo(v, i + 1) = SumUpTo(v, i) + v[i]
  BY <1>1, <1>5, SumOfOneMore
<1>7. samples'[p] = samples[p] + v[i]
  <2>1. p \in DOMAIN samples
    BY <1>1
  <2>2. v[i] = Heard(i, p) /\ v[i] \in Int
    BY <1>1, <1>4, MixerSizeAssumption DEF Channel
  <2>3. CASE mixing[i]
    BY <2>1, <2>2, <2>3 DEF MixChannel, Heard
  <2>4. CASE ~mixing[i]
    <3>1. samples'[p] = samples[p] /\ v[i] = 0
      BY <2>2, <2>4 DEF MixChannel, Heard
    <3> QED
      BY <1>3, <1>6, <3>1
  <2> QED
    BY <2>3, <2>4
<1> QED
  BY <1>3, <1>6, <1>7 DEF v

LEMMA StepKeepsMixInv ==
  ASSUME IInv, MixInv, [Next]_vars
  PROVE  MixInv'
<1> USE DEF MixInv
<1>1. ASSUME NEW c \in Channel, LoadFile(c) \/ LoadFileFails(c) PROVE MixInv'
  <2>1. \A d \in Channel : Len(audio'[d]) <= MaxTick
    <3>1. PICK s : Len(s) <= MaxTick /\ audio' = [audio EXCEPT ![c] = s]
      BY <1>1, MaxTickAssumption, EmptySeq DEF LoadFile, LoadFileFails
    <3>2. \A d \in Channel : audio'[d] = s \/ audio'[d] = audio[d]
      BY <3>1 DEF IInv, TypeOK
    <3> QED
      BY <3>1, <3>2 DEF SoundsFit
  <2> QED
    BY <1>1, <2>1 DEF LoadFile, LoadFileFails, loopVars, MixIsSum, SoundsFit, SpanFits, NothingExported
<1>2. CASE Release
  <2>1. \A d \in Channel : Len(audio'[d]) <= MaxTick
    BY <1>2, MaxTickAssumption, EmptySeq DEF Release
  <2> QED
    BY <1>2, <2>1 DEF Release, loopVars, MixIsSum, SoundsFit, SpanFits, NothingExported
<1>3. ASSUME NEW t \in Nat, t <= MaxTick, BeginMix(t) PROVE MixInv'
  <2>1. /\ samples \in Seq(Int) /\ Len(samples) = tick /\ tick \in Nat
    BY <1>3 DEF IInv, TypeOK, IndicesInRange, InRecording, BeginMix
  <2>2. \A p \in tick + 1 .. tick + t : samples'[p] = 0
    BY <1>3, <2>1, ZerosAppended DEF BeginMix
  <2>3. MixIsSum'
    BY <1>3, <2>2, SumOfNone DEF BeginMix, MixIsSum
  <2> QED
    BY <1>3, <2>3 DEF BeginMix, chanVars, SoundsFit, SpanFits, NothingExported
<1>4. CASE MixChannel
  <2>1. MixIsSum'
    BY <1>4, MixChannelKeepsSum
  <2> QED
    BY <1>4, <2>1 DEF MixChannel, chanVars, SoundsFit, SpanFits, NothingExported
<1>5. CASE EndMix
  BY <1>5, MaxTickAssumption DEF EndMix, chanVars, MixIsSum, SoundsFit, SpanFits, NothingExported
<1>6. ASSUME \/ StartMixing \/ IsAllAudioStopped
             \/ \E c \in Channel : Start(c) \/ Stop(c)
             \/ \E n \in BOOLEAN : Flush(n)
      PROVE  MixInv'
  <2>1. pc' # "inMix" /\ pc' # "loading" /\ audio' = audio /\ span' = span
    BY <1>6 DEF StartMixing, IsAllAudioStopped, Start, Stop, Flush, chanVars, loopVars
  <2> QED
    BY <2>1 DEF MixIsSum, SoundsFit, SpanFits, NothingExported
<1>7. CASE UNCHANGED vars
  BY <1>7 DEF vars, MixIsSum, SoundsFit, SpanFits, NothingExported, Heard
<1>8. ASSUME NEW t \in 0 .. MaxTick - tick, Mix(t) PROVE MixInv'
  <2>1. tick \in Nat
    BY <1>8 DEF IInv, TypeOK, IndicesInRange, InRecording, Mix, BeginMix
  <2>2. t \in Nat /\ t <= MaxTick
    BY <2>1, MaxTickAssumption
  <2> QED
    BY <1>3, <1>8, <2>2 DEF Mix
<1>9. CASE MixUntilEnd
  <2>1. PICK t \in Nat : t = LongestRemaining /\ \E c \in Channel : RemainingTick(c) = t
    BY LongestRemainingIsLongest DEF IInv
  <2>2. PICK c \in Channel : RemainingTick(c) = t
    BY <2>1
  <2>3. /\ tick \in Nat /\ started[c] \in Int /\ Len(audio[c]) \in Nat
        /\ mixing[c] => started[c] \in 0 .. tick
        /\ Len(audio[c]) <= MaxTick /\ MaxTick \in Nat
    BY <1>9, LenProperties, MaxTickAssumption
       DEF IInv, TypeOK, IndicesInRange, InRecording, MixUntilEnd, BeginMix, SoundsFit
  <2>4. t <= MaxTick
    BY <2>2, <2>3 DEF RemainingTick
  <2>5. BeginMix(t)
    BY <1>9, <2>1 DEF MixUntilEnd, BeginMix
  <2> QED
    BY <1>3, <2>4, <2>5
<1> QED
  BY <1>1, <1>2, <1>4, <1>5, <1>6, <1>7, <1>8, <1>9 DEF Next

LEMMA MixInvHolds == Spec => []MixInv
<1>1. Init => MixInv
  BY EmptySeq, MaxTickAssumption DEF Init, MixInv, MixIsSum, SoundsFit, SpanFits, NothingExported
<1>2. IInv /\ MixInv /\ [Next]_vars => MixInv'
  BY StepKeepsMixInv
<1> QED
  BY <1>1, <1>2, IInvHolds, PTL DEF Spec

(* The values that the refinement gives to the play heads and the track.   *)
HeadAt(c) == IF ~InRecording \/ IsStopped(c) THEN -1 ELSE tick - started[c]

Track == IF InRecording THEN SubSeq(samples, 1, tick) ELSE <<>>

(* A prefix is determined by its elements.                                 *)
LEMMA SamePrefix ==
  ASSUME NEW s \in Seq(Int), NEW z \in Seq(Int), NEW n \in Nat,
         n <= Len(s), n <= Len(z), \A p \in 1 .. n : s[p] = z[p]
  PROVE  SubSeq(s, 1, n) = SubSeq(z, 1, n)
OBVIOUS

LEMMA WholePrefix ==
  ASSUME NEW s \in Seq(Int)
  PROVE  SubSeq(s, 1, Len(s)) = s
OBVIOUS

(* Channel c is heard where its head is: a stopped channel that still is   *)
(* `mixing' is read past the end of its sound.                             *)
LEMMA VoiceIsHeard ==
  ASSUME IInv, pc = "inMix", NEW c \in Channel, NEW k \in Nat
  PROVE  Promise!Voice(c, k) = Heard(c, tick + k + 1)
<1>1. /\ tick \in Nat /\ audio[c] \in Seq(Level) /\ Len(audio[c]) \in Nat
      /\ mixing[c] \in BOOLEAN /\ started[c] \in Int
      /\ mixing[c] => started[c] \in 0 .. tick
  BY LenProperties DEF IInv, TypeOK, IndicesInRange, InRecording, Level
<1>2. Promise!Voice(c, k) = IF HeadAt(c) # -1 /\ HeadAt(c) + k < Len(audio[c])
                            THEN audio[c][HeadAt(c) + k + 1] ELSE 0
  BY DEF Promise!Voice, HeadAt
<1>3. HeadAt(c) = IF ~mixing[c] \/ Len(audio[c]) <= tick - started[c]
                  THEN -1 ELSE tick - started[c]
  BY DEF HeadAt, InRecording, IsStopped, HasEnded
<1>4. Heard(c, tick + k + 1) =
        IF mixing[c]
        THEN IF tick + k - started[c] >= Len(audio[c]) THEN 0
             ELSE audio[c][tick + k - started[c] + 1]
        ELSE 0
  <2>1. (tick + k + 1) - 1 - started[c] = tick + k - started[c]
    BY <1>1
  <2> QED
    BY <2>1 DEF Heard, Get
<1>5. CASE ~mixing[c]
  BY <1>2, <1>3, <1>4, <1>5
<1>6. CASE mixing[c] /\ Len(audio[c]) <= tick - started[c]
  BY <1>1, <1>2, <1>3, <1>4, <1>6
<1>7. CASE mixing[c] /\ ~(Len(audio[c]) <= tick - started[c])
  <2>1. HeadAt(c) = tick - started[c] /\ HeadAt(c) \in Nat
    BY <1>1, <1>3, <1>7
  <2>2. /\ HeadAt(c) + k < Len(audio[c]) <=> ~(tick + k - started[c] >= Len(audio[c]))
        /\ HeadAt(c) + k + 1 = tick + k - started[c] + 1
    BY <1>1, <2>1
  <2> QED
    BY <1>2, <1>4, <1>7, <2>1, <2>2
<1> QED
  BY <1>5, <1>6, <1>7

(* A sequence is a prefix and the rest.                                    *)
LEMMA SplitAt ==
  ASSUME NEW s \in Seq(Int), NEW n \in Nat, NEW m \in Nat, Len(s) = n + m
  PROVE  s = SubSeq(s, 1, n) \o [k \in 1 .. m |-> s[n + k]]
OBVIOUS

(* When the loop ends, the new positions hold what SoundMix plays.         *)
LEMMA LoopPlaysLevel ==
  ASSUME IInv, MixIsSum, EndMix, NEW k \in 1 .. span
  PROVE  samples[tick + k] = Promise!Level(k - 1)
<1>1. /\ pc = "inMix" /\ i = MIXERSIZE /\ tick \in Nat /\ span \in Nat
      /\ k - 1 \in Nat /\ tick + k \in tick + 1 .. tick + span
      /\ tick + (k - 1) + 1 = tick + k
  BY DEF IInv, TypeOK, IndicesInRange, InRecording, EndMix
<1>2. samples[tick + k] = SumUpTo([c \in Channel |-> Heard(c, tick + k)], MIXERSIZE)
  BY <1>1 DEF MixIsSum
<1>3. \A c \in Channel : Promise!Voice(c, k - 1) = Heard(c, tick + k)
  BY <1>1, VoiceIsHeard
<1>4. [c \in Channel |-> Promise!Voice(c, k - 1)] = [c \in Channel |-> Heard(c, tick + k)]
  BY <1>3
<1>5. Promise!Level(k - 1) =
        SumUpTo([c \in Channel |-> Promise!Voice(c, k - 1)], MIXERSIZE)
  BY Zenon DEF Promise!Level, Promise!Channel, Channel, Promise!SumUpTo, SumUpTo
<1> QED
  BY <1>2, <1>4, <1>5

Heads == [c \in Channel |-> HeadAt(c)]

(* The steps of SoundMix, read through the refinement mapping.             *)
LEMMA MappedStutter ==
  ASSUME UNCHANGED <<audio, Heads, Track, out, InRecording>>
  PROVE  UNCHANGED Promise!mixVars
BY DEF Promise!mixVars, Heads, HeadAt, Track

LEMMA MappedLoad ==
  ASSUME NEW c \in Channel,
         ~InRecording,
         \E s \in Sounds \cup {<<>>} : audio' = [audio EXCEPT ![c] = s],
         UNCHANGED <<Heads, Track, out, InRecording>>
  PROVE  Promise!Load(c)
BY DEF Promise!Load, Heads, HeadAt, Track

LEMMA MappedUnloadAll ==
  ASSUME ~InRecording,
         audio' = [c \in Channel |-> <<>>],
         UNCHANGED <<Heads, Track, out, InRecording>>
  PROVE  Promise!UnloadAll
BY DEF Promise!UnloadAll, Promise!Channel, Channel, Heads, HeadAt, Track

LEMMA MappedRecord ==
  ASSUME ~InRecording, InRecording' = TRUE,
         Track' = <<>>, out' = <<>>, Heads' = [c \in Channel |-> -1],
         UNCHANGED audio
  PROVE  Promise!Record
BY DEF Promise!Record, Promise!Channel, Channel, Heads, HeadAt, Track

LEMMA MappedStrike ==
  ASSUME NEW c \in Channel,
         InRecording,
         Heads' = [Heads EXCEPT ![c] = IF 0 < Len(audio[c]) THEN 0 ELSE -1],
         UNCHANGED <<audio, Track, out, InRecording>>
  PROVE  Promise!Strike(c)
BY DEF Promise!Strike, Promise!HeadAt, Heads, HeadAt, Track

LEMMA MappedDamp ==
  ASSUME NEW c \in Channel,
         InRecording,
         Heads' = [Heads EXCEPT ![c] = -1],
         UNCHANGED <<audio, Track, out, InRecording>>
  PROVE  Promise!Damp(c)
BY DEF Promise!Damp, Heads, HeadAt, Track

LEMMA MappedPlay ==
  ASSUME NEW t,
         InRecording,
         Track' = Track \o [k \in 1 .. t |-> Promise!Level(k - 1)],
         Heads' = [c \in Channel |->
                     IF Heads[c] = -1 THEN -1
                     ELSE IF Heads[c] + t < Len(audio[c]) THEN Heads[c] + t ELSE -1],
         UNCHANGED <<audio, out, InRecording>>
  PROVE  Promise!Play(t)
BY DEF Promise!Play, Promise!HeadAt, Promise!Channel, Channel, Heads, HeadAt, Track

LEMMA MappedExport ==
  ASSUME InRecording,
         out' = [k \in 1 .. Len(Track) |-> Cut(Track[k])],
         InRecording' = FALSE, Track' = <<>>, Heads' = [c \in Channel |-> -1],
         UNCHANGED audio
  PROVE  Promise!Export
BY DEF Promise!Export, Promise!Clip, Cut, Promise!Channel, Channel, Heads, HeadAt, Track

(* While nothing is recorded there is no track and no head.                *)
LEMMA NotRecording ==
  ASSUME ~InRecording
  PROVE  Track = <<>> /\ Heads = [c \in Channel |-> -1]
BY DEF Track, Heads, HeadAt

(* Between two calls the accumulator is the track, and inside Mix the      *)
(* track is what it held before.                                           *)
LEMMA TrackIsPrefix ==
  ASSUME IInv, InRecording
  PROVE  /\ tick \in Nat
         /\ samples \in Seq(Int)
         /\ tick <= Len(samples)
         /\ Track = SubSeq(samples, 1, tick)
         /\ pc = "recording" => Track = samples /\ Len(samples) = tick
<1>1. /\ tick \in Nat /\ samples \in Seq(Int) /\ span \in Nat
      /\ pc = "recording" => Len(samples) = tick
      /\ pc = "inMix" => Len(samples) = tick + span
  BY DEF IInv, TypeOK, IndicesInRange
<1>2. Track = SubSeq(samples, 1, tick)
  BY DEF Track
<1>3. pc = "recording" => Track = samples
  BY <1>1, <1>2, WholePrefix
<1> QED
  BY <1>1, <1>2, <1>3 DEF InRecording

(* The end of Mix: the track has grown by what the heads passed over.      *)
LEMMA EndMixPlays ==
  ASSUME IInv, MixInv, EndMix
  PROVE  \E t \in 0 .. MaxTick : Promise!Play(t)
<1>1. /\ InRecording /\ InRecording' = TRUE /\ pc = "inMix" /\ pc' = "recording"
      /\ tick' = tick + span /\ samples' = samples
      /\ audio' = audio /\ mixing' = mixing /\ started' = started /\ out' = out
  BY DEF EndMix, chanVars, InRecording
<1>2. /\ tick \in Nat /\ span \in Nat /\ samples \in Seq(Int)
      /\ Len(samples) = tick + span
      /\ Track = SubSeq(samples, 1, tick)
  BY <1>1, TrackIsPrefix DEF IInv, TypeOK, IndicesInRange
<1>3. Track' = samples
  <2>1. Track' = SubSeq(samples, 1, tick + span)
    BY <1>1 DEF Track
  <2> QED
    BY <1>2, <2>1, WholePrefix
<1>4. \A k \in 1 .. span : samples[tick + k] = Promise!Level(k - 1)
  BY LoopPlaysLevel DEF MixInv
<1> DEFINE played == [k \in 1 .. span |-> Promise!Level(k - 1)]
<1>5. played = [k \in 1 .. span |-> samples[tick + k]]
  BY <1>4
<1>6. samples = Track \o played
  BY <1>2, <1>5, SplitAt
<1>7. Heads' = [c \in Channel |->
                  IF Heads[c] = -1 THEN -1
                  ELSE IF Heads[c] + span < Len(audio[c]) THEN Heads[c] + span ELSE -1]
  <2>1. ASSUME NEW c \in Channel
        PROVE  HeadAt(c)' = IF HeadAt(c) = -1 THEN -1
                            ELSE IF HeadAt(c) + span < Len(audio[c])
                                 THEN HeadAt(c) + span ELSE -1
    <3>1. /\ mixing[c] \in BOOLEAN /\ started[c] \in Int /\ Len(audio[c]) \in Nat
          /\ mixing[c] => started[c] \in 0 .. tick
      BY <1>1, LenProperties DEF IInv, TypeOK, IndicesInRange
    <3>2. HeadAt(c) = IF ~mixing[c] \/ Len(audio[c]) <= tick - started[c]
                      THEN -1 ELSE tick - started[c]
      BY <1>1 DEF HeadAt, IsStopped, HasEnded
    <3>3. HeadAt(c)' = IF ~mixing[c] \/ Len(audio[c]) <= tick + span - started[c]
                       THEN -1 ELSE tick + span - started[c]
      <4>1. HeadAt(c)' = IF ~mixing'[c] \/ Len(audio'[c]) <= tick' - started'[c]
                         THEN -1 ELSE tick' - started'[c]
        BY <1>1 DEF HeadAt, IsStopped, HasEnded
      <4> QED
        BY <1>1, <1>2, <3>1, <4>1
    <3> QED
      BY <1>2, <3>1, <3>2, <3>3
  <2> QED
    BY <2>1 DEF Heads
<1> HIDE DEF played
<1>8. UNCHANGED <<audio, out, InRecording>> /\ Track' = Track \o played
  BY <1>1, <1>3, <1>6
<1>9. Track' = Track \o [k \in 1 .. span |-> Promise!Level(k - 1)]
  BY <1>8, Zenon DEF played
<1>10. PICK t \in 0 .. MaxTick : t = span
  BY <1>2, MaxTickAssumption DEF MixInv, SpanFits
<1>11. Promise!Play(t)
  BY <1>1, <1>7, <1>8, <1>9, <1>10, MappedPlay
<1> QED
  BY <1>11

(* Flush: what is exported is the track, cut into range; normalizing it    *)
(* has changed nothing.                                                    *)
LEMMA FlushExports ==
  ASSUME IInv, NEW n \in BOOLEAN, Flush(n)
  PROVE  Promise!Export
<1>1. InRecording /\ InRecording' = FALSE /\ audio' = audio
  BY DEF Flush, InRecording, chanVars
<1>2. samples \in Seq(Int) /\ Track = samples
  BY <1>1, TrackIsPrefix DEF Flush
<1>3. out' = [p \in DOMAIN samples |-> Cut(samples[p])]
  BY <1>2, NormalizingChangesNothing DEF Flush
<1>4. out' = [k \in 1 .. Len(Track) |-> Cut(Track[k])]
  BY <1>2, <1>3
<1>5. Track' = <<>> /\ Heads' = [c \in Channel |-> -1]
  BY <1>1 DEF Track, Heads, HeadAt
<1> QED
  BY <1>1, <1>4, <1>5, MappedExport

(* The steps that move one head or none.                                   *)
LEMMA HeadMoves ==
  ASSUME IInv, pc = "recording", pc' \in {"recording", "inMix"},
         UNCHANGED <<audio, tick, samples, out>>
  PROVE  /\ UNCHANGED <<audio, Track, out, InRecording>>
         /\ InRecording /\ InRecording'
         /\ \A c \in Channel :
              HeadAt(c)' = IF ~mixing'[c] \/ Len(audio[c]) <= tick - started'[c]
                           THEN -1 ELSE tick - started'[c]
<1>1. InRecording = TRUE /\ InRecording' = TRUE
  BY DEF InRecording
<1>2. Track' = Track
  BY <1>1 DEF Track
<1>3. ASSUME NEW c \in Channel
      PROVE  HeadAt(c)' = IF ~mixing'[c] \/ Len(audio[c]) <= tick - started'[c]
                          THEN -1 ELSE tick - started'[c]
  BY <1>1 DEF HeadAt, IsStopped, HasEnded
<1> QED
  BY <1>1, <1>2, <1>3

LEMMA StepImplements ==
  ASSUME IInv, MixInv, [Next]_vars
  PROVE  [Promise!Next]_(Promise!mixVars)
<1>1. ASSUME NEW c \in Channel, LoadFile(c) \/ LoadFileFails(c) PROVE Promise!Load(c)
  <2>1. ~InRecording /\ InRecording' = InRecording /\ out' = out
    BY <1>1 DEF LoadFile, LoadFileFails, InRecording
  <2>2. Track' = Track /\ Heads' = Heads
    BY <2>1 DEF Track, Heads, HeadAt
  <2>3. \E s \in Sounds \cup {<<>>} : audio' = [audio EXCEPT ![c] = s]
    BY <1>1 DEF LoadFile, LoadFileFails
  <2> QED
    BY <2>1, <2>2, <2>3, MappedLoad
<1>2. CASE Release
  <2>1. ~InRecording /\ InRecording' = InRecording /\ out' = out
    BY <1>2 DEF Release, InRecording
  <2>2. Track' = Track /\ Heads' = Heads
    BY <2>1 DEF Track, Heads, HeadAt
  <2>3. Promise!UnloadAll
    BY <1>2, <2>1, <2>2, MappedUnloadAll DEF Release
  <2> QED
    BY <2>3 DEF Promise!Next
<1>3. CASE StartMixing
  <2>1. /\ ~InRecording /\ InRecording' = TRUE /\ audio' = audio /\ out' = <<>>
        /\ samples' = <<>> /\ tick' = 0 /\ mixing' = [c \in Channel |-> FALSE]
    BY <1>3 DEF StartMixing, InRecording, MixInv, NothingExported
  <2>2. Track' = <<>>
    BY <2>1, EmptySeq DEF Track
  <2>3. Heads' = [c \in Channel |-> -1]
    BY <2>1 DEF Heads, HeadAt, IsStopped
  <2>4. Promise!Record
    BY <2>1, <2>2, <2>3, MappedRecord
  <2> QED
    BY <2>4 DEF Promise!Next
<1>4. ASSUME NEW c \in Channel, Start(c) PROVE Promise!Strike(c)
  <2>1. /\ pc = "recording" /\ UNCHANGED <<audio, tick, samples, out, pc>>
        /\ mixing' = [mixing EXCEPT ![c] = TRUE]
        /\ started' = [started EXCEPT ![c] = tick]
    BY <1>4 DEF Start
  <2>2. /\ mixing \in [Channel -> BOOLEAN] /\ started \in [Channel -> Int]
        /\ tick \in Int /\ \A d \in Channel : Len(audio[d]) \in Nat
    BY LenProperties DEF IInv, TypeOK
  <2>3. HeadAt(c)' = IF 0 < Len(audio[c]) THEN 0 ELSE -1
    BY <2>1, <2>2, HeadMoves
  <2>4. ASSUME NEW d \in Channel, d # c PROVE HeadAt(d)' = HeadAt(d)
    <3>1. HeadAt(d) = IF ~mixing[d] \/ Len(audio[d]) <= tick - started[d]
                      THEN -1 ELSE tick - started[d]
      BY <2>1 DEF HeadAt, IsStopped, HasEnded, InRecording
    <3> QED
      BY <2>1, <2>2, <2>4, <3>1, HeadMoves
  <2>5. Heads' = [Heads EXCEPT ![c] = IF 0 < Len(audio[c]) THEN 0 ELSE -1]
    BY <2>3, <2>4 DEF Heads
  <2> QED
    BY <2>1, <2>5, HeadMoves, MappedStrike
<1>5. ASSUME NEW c \in Channel, Stop(c) PROVE Promise!Damp(c)
  <2>1. /\ pc = "recording" /\ UNCHANGED <<audio, tick, samples, out, pc, started>>
        /\ mixing' = [mixing EXCEPT ![c] = FALSE]
    BY <1>5 DEF Stop
  <2>2. mixing \in [Channel -> BOOLEAN]
    BY DEF IInv, TypeOK
  <2>3. HeadAt(c)' = -1
    BY <2>1, <2>2, HeadMoves
  <2>4. ASSUME NEW d \in Channel, d # c PROVE HeadAt(d)' = HeadAt(d)
    <3>1. HeadAt(d) = IF ~mixing[d] \/ Len(audio[d]) <= tick - started[d]
                      THEN -1 ELSE tick - started[d]
      BY <2>1 DEF HeadAt, IsStopped, HasEnded, InRecording
    <3> QED
      BY <2>1, <2>2, <2>4, <3>1, HeadMoves
  <2>5. Heads' = [Heads EXCEPT ![c] = -1]
    BY <2>3, <2>4 DEF Heads
  <2> QED
    BY <2>1, <2>5, HeadMoves, MappedDamp
<1>6. ASSUME NEW t \in Nat, BeginMix(t)
      PROVE  UNCHANGED <<audio, Heads, Track, out, InRecording>>
  <2>1. /\ InRecording /\ InRecording' = InRecording
        /\ UNCHANGED <<audio, mixing, started, tick, out>>
        /\ samples' = samples \o [k \in 1 .. t |-> 0]
    BY <1>6 DEF BeginMix, chanVars, InRecording
  <2>2. /\ tick \in Nat /\ samples \in Seq(Int) /\ Len(samples) = tick
        /\ Track = SubSeq(samples, 1, tick)
    BY <1>6, <2>1, TrackIsPrefix DEF BeginMix
  <2>3. Track' = SubSeq(samples', 1, tick)
    BY <2>1 DEF Track
  <2>4. Track' = Track
    <3>1. /\ samples' \in Seq(Int) /\ Len(samples') = tick + t
          /\ \A p \in 1 .. tick + t :
               samples'[p] = IF p <= tick THEN samples[p] ELSE 0
      BY <2>1, <2>2, ZerosAppended
    <3>2. \A p \in 1 .. tick : samples[p] = samples'[p]
      BY <2>2, <3>1
    <3> QED
      BY <2>2, <2>3, <3>1, <3>2, SamePrefix
  <2>5. Heads' = Heads
    BY <2>1 DEF Heads, HeadAt, IsStopped, HasEnded
  <2> QED
    BY <2>1, <2>4, <2>5
<1>7. CASE MixChannel
  <2>1. /\ InRecording /\ InRecording' = InRecording
        /\ UNCHANGED <<audio, mixing, started, tick, out>>
    BY <1>7 DEF MixChannel, chanVars, InRecording
  <2>2. /\ tick \in Nat /\ samples \in Seq(Int) /\ tick <= Len(samples)
        /\ Track = SubSeq(samples, 1, tick)
    BY <2>1, TrackIsPrefix
  <2>3. samples' \in Seq(Int) /\ tick <= Len(samples')
    <3>1. IInv'
      BY <1>7, MixChannelKeepsIInv
    <3>2. samples' \in Seq(Int) /\ Len(samples') = tick + span /\ span \in Nat
      BY <1>7, <3>1 DEF IInv, TypeOK, IndicesInRange, MixChannel
    <3> QED
      BY <2>2, <3>2
  <2>4. \A p \in 1 .. tick : samples[p] = samples'[p]
    BY <1>7, <2>2 DEF MixChannel
  <2>5. Track' = SubSeq(samples', 1, tick)
    BY <2>1 DEF Track
  <2>6. Track' = Track
    BY <2>2, <2>3, <2>4, <2>5, SamePrefix
  <2>7. Heads' = Heads
    BY <2>1 DEF Heads, HeadAt, IsStopped, HasEnded
  <2> QED
    BY <2>1, <2>6, <2>7, MappedStutter
<1>8. CASE EndMix
  BY <1>8, EndMixPlays DEF Promise!Next
<1>9. CASE IsAllAudioStopped
  <2>1. /\ pc = "recording" /\ UNCHANGED <<audio, tick, samples, out, pc, started>>
        /\ \A c \in Channel :
             \/ mixing'[c] = mixing[c]
             \/ IsStopped(c) /\ mixing'[c] = FALSE
    <3>1. \A c \in Channel : c \in 0 .. c
      BY DEF Channel
    <3> QED
      BY <1>9, <3>1, Zenon DEF IsAllAudioStopped
  <2>2. mixing \in [Channel -> BOOLEAN]
    BY DEF IInv, TypeOK
  <2>3. ASSUME NEW c \in Channel PROVE HeadAt(c)' = HeadAt(c)
    <3>1. HeadAt(c) = IF IsStopped(c) THEN -1 ELSE tick - started[c]
      BY <2>1 DEF HeadAt, InRecording
    <3>2. HeadAt(c)' = IF ~mixing'[c] \/ Len(audio[c]) <= tick - started[c]
                       THEN -1 ELSE tick - started[c]
      BY <2>1, HeadMoves
    <3> QED
      BY <2>1, <2>2, <3>1, <3>2 DEF IsStopped, HasEnded
  <2>4. Heads' = Heads
    BY <2>3 DEF Heads
  <2> QED
    BY <2>1, <2>4, HeadMoves, MappedStutter
<1>10. ASSUME NEW n \in BOOLEAN, Flush(n) PROVE Promise!Export
  BY <1>10, FlushExports
<1>11. CASE UNCHANGED vars
  <2>1. UNCHANGED <<audio, Heads, Track, out, InRecording>>
    BY <1>11 DEF vars, Heads, HeadAt, IsStopped, HasEnded, Track, InRecording
  <2> QED
    BY <2>1, MappedStutter
<1>12. ASSUME NEW t \in 0 .. MaxTick - tick, Mix(t) PROVE UNCHANGED Promise!mixVars
  <2>1. t \in Nat
    BY MaxTickAssumption DEF IInv, TypeOK
  <2> QED
    BY <1>6, <1>12, <2>1, MappedStutter DEF Mix
<1>13. CASE MixUntilEnd
  <2>1. PICK t \in Nat : t = LongestRemaining
    BY LongestRemainingIsLongest DEF IInv
  <2>2. BeginMix(t)
    BY <1>13, <2>1 DEF MixUntilEnd, BeginMix
  <2> QED
    BY <1>6, <2>2, MappedStutter
<1>14. Promise!Channel = Channel
  BY DEF Promise!Channel, Channel
<1> QED
  BY <1>1, <1>2, <1>3, <1>4, <1>5, <1>7, <1>8, <1>9, <1>10, <1>11, <1>12, <1>13, <1>14
     DEF Next, Promise!Next

(* The track is the sum of what the play heads pass over (SoundMix), for   *)
(* any number of channels, sounds and schedule of Start, Stop, Mix and     *)
(* IsAllAudioStopped: the difference of two ticks is as good as a stored   *)
(* head, and the `mixing' that outlives its sound is silent.               *)
THEOREM MixerImplementsSoundMix == Spec => ImplementsSoundMix
<1>1. Init => Promise!Init
  <2> SUFFICES ASSUME Init PROVE Promise!Init
    OBVIOUS
  <2>1. ~InRecording
    BY DEF Init, InRecording
  <2> QED
    BY <2>1 DEF Init, Promise!Init, Promise!Channel, Channel
<1>2. IInv /\ MixInv /\ [Next]_vars => [Promise!Next]_(Promise!mixVars)
  BY StepImplements
<1> QED
  BY <1>1, <1>2, IInvHolds, MixInvHolds, PTL DEF Spec, ImplementsSoundMix, Promise!Spec
=============================================================================
