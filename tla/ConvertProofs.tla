---------------------------- MODULE ConvertProofs ----------------------------
(***************************************************************************)
(* Theorems about Convert.  main uses the mixer as it may be used, so that *)
(* what is proved of Mixer holds in main; it keeps the files a chart       *)
(* names; and what it is about to write is the music of the chart, whatever *)
(* the chart, the files and the speed.                                     *)
(***************************************************************************)
EXTENDS Convert, NatFacts, SequenceTheorems, TLAPS

(* What mixing has come to: the tick, or where a call of Mix will leave it. *)
Reached == tick + span

(* Between two calls span is 0, and main waits for a call of Mix before it *)
(* looks at a bar's objects, or flushes; and the mixer stands where the    *)
(* bar before the current one, or the current one if it has been mixed to, *)
(* begins.                                                                 *)
IInv ==
  /\ chart \in Charts
  /\ bar \in Nat \ {0}
  /\ object \in Nat \ {0}
  /\ phase # "inMix" => span = 0
  /\ phase = "inMix" => pc = "flush" \/ (pc = "object" /\ object = 1)
  /\ pc \in {"bar", "object", "start", "flush"} => phase \in {"recording", "inMix"}
  /\ pc = "load" => phase = "loading" /\ bar = 1
  /\ pc \in {"bar", "object", "start"} =>
       /\ tick \in Int /\ span \in Int
       /\ Reached <= MaxTick
  /\ pc = "bar" => Reached = IF bar = 1 THEN 0 ELSE SampleAt(bar - 1)
  /\ pc = "bar" => bar = 1 \/ bar - 1 \in Bars
  /\ pc \in {"object", "start"} => bar \in Bars /\ Reached = SampleAt(bar)
  /\ pc = "start" =>
       phase = "recording" /\ object \in DOMAIN Objects /\ Struck(Objects[object])

(* The times of two bars do not change places when they become samples.    *)
LEMMA BarsAscend ==
  ASSUME chart \in Charts, NEW b \in Bars
  PROVE  /\ SampleAt(b) \in 0 .. MaxTick
         /\ \A e \in Bars : e <= b => SampleAt(e) <= SampleAt(b)
<1> DEFINE n(c) == chart.bars[c].time * FREQUENCY
<1>1. /\ FREQUENCY \in Nat /\ TimeUnit \in Nat \ {0} /\ MaxTick \in Nat
      /\ chart.bars \in Seq([time : Nat, objects : Seq(Object)])
      /\ \A c, e \in Bars : c < e => chart.bars[c].time <= chart.bars[e].time
      /\ SampleAt(b) <= MaxTick
  BY ChartAssumption, TimeAssumption, MixerAssumption DEF Bars, SampleAt
<1>2. \A c \in Bars : chart.bars[c].time \in Nat /\ c \in Nat
  <2> DEFINE R == [time : Nat, objects : Seq(Object)]
  <2>1. \A r \in R : r.time \in Nat
    OBVIOUS
  <2>a. chart.bars \in Seq(R)
    BY <1>1
  <2> HIDE DEF R
  <2>2. \A c \in Bars : chart.bars[c] \in R /\ c \in Nat
    BY <2>a DEF Bars
  <2> QED
    BY <2>1, <2>2
<1>3. \A c \in Bars : n(c) \in Nat
  BY <1>1, <1>2
<1> HIDE DEF n
<1>4. \A c \in Bars : n(c) \div TimeUnit \in Nat
  BY <1>1, <1>3, Quotient
<1>5. \A c \in Bars : SampleAt(c) = (n(c) \div TimeUnit) * 2
  BY DEF SampleAt, n
<1>6. SampleAt(b) \in 0 .. MaxTick
  BY <1>1, <1>4, <1>5
<1>7. ASSUME NEW e \in Bars, e <= b PROVE SampleAt(e) <= SampleAt(b)
  <2>1. chart.bars[e].time <= chart.bars[b].time
    <3>1. e < b \/ e = b
      BY <1>2, <1>7
    <3> QED
      BY <1>1, <1>2, <3>1
  <2>2. n(e) <= n(b)
    <3>1. chart.bars[e].time \in Int /\ chart.bars[b].time \in Int
      BY <1>2, <1>7
    <3> QED
      BY <3>1, <2>1, <1>1, Monotone DEF n
  <2>3. n(e) \div TimeUnit <= n(b) \div TimeUnit
    BY <2>2, <1>1, <1>3, <1>7, QuotientMonotone
  <2> QED
    BY <2>3, <1>4, <1>5, <1>7
<1> QED
  BY <1>6, <1>7

(* The words of the objects are channels of the mixer.                     *)
LEMMA WordsAreChannels ==
  ASSUME chart \in Charts, bar \in Bars, NEW k \in DOMAIN Objects
  PROVE  Objects[k].word \in M!Channel
<1> DEFINE R == [time : Nat, objects : Seq(Object)]
<1>1. chart.bars \in Seq(R)
  BY ChartAssumption
<1>2. \A r \in R : r.objects \in Seq(Object)
  OBVIOUS
<1> HIDE DEF R
<1>3. chart.bars[bar] \in R
  BY <1>1 DEF Bars
<1>4. Objects \in Seq(Object)
  BY <1>2, <1>3 DEF Objects
<1>5. Objects[k] \in Object
  BY <1>4
<1>6. Objects[k].word \in Word
  BY <1>5 DEF Object
<1>7. Word \subseteq M!Channel
  BY WordAssumption, MixerAssumption DEF Word, M!Channel
<1> QED
  BY <1>6, <1>7

-----------------------------------------------------------------------------
(* Every step keeps the invariant and is a step of the mixer or none.      *)

MixerStep == M!Next \/ UNCHANGED M!vars

LEMMA Initially == Init => IInv /\ M!Init
<1> SUFFICES ASSUME Init PROVE IInv
  BY DEF Init
<1> QED
  BY DEF Init, M!Init, IInv

(* The steps that leave the mixer alone.                                   *)
LEMMA OtherSteps ==
  ASSUME IInv, UNCHANGED mixerVars, UNCHANGED chart,
         Refuse \/ PassWord \/ PassObject \/ NextBar
           \/ ChangePitch \/ ChangeRate \/ Save \/ SaveFails \/ SaveCrashes \/ UNCHANGED vars
  PROVE  IInv' /\ MixerStep
<1>1. MixerStep
  BY DEF MixerStep, mixerVars, M!vars, M!chanVars, M!loopVars
<1>2. /\ tick' = tick /\ span' = span /\ phase' = phase /\ chart' = chart
      /\ Reached' = Reached /\ Bars' = Bars
      /\ SampleAt(bar)' = (SampleAt(bar'))
      /\ SampleAt(bar - 1)' = SampleAt(bar' - 1)
  BY DEF mixerVars, Reached, Bars, SampleAt
<1>3. ASSUME bar' = bar PROVE Objects' = Objects
  BY <1>2, <1>3 DEF Objects
<1>4. CASE Refuse \/ PassWord \/ ChangePitch \/ ChangeRate \/ Save \/ SaveFails \/ SaveCrashes \/ UNCHANGED vars
  <2>1. /\ bar' = bar /\ object' = object
        /\ \/ pc' = pc
           \/ /\ pc' \in {"rate", "save", "exited", "crashed"}
              /\ pc \in {"load", "pitch", "rate", "save"}
    BY <1>4 DEF Refuse, Loading, PassWord, ChangePitch, ChangeRate, Save, SaveFails, SaveCrashes, vars
  <2> QED
    BY <1>1, <1>2, <1>3, <2>1 DEF IInv
<1>5. CASE PassObject
  <2>1. bar' = bar /\ object' = object + 1 /\ pc' = pc /\ pc = "object"
        /\ phase # "inMix"
    BY <1>5 DEF PassObject, Idle
  <2> QED
    BY <1>1, <1>2, <2>1 DEF IInv
<1>6. CASE NextBar
  <2>1. bar' = bar + 1 /\ object' = object /\ pc' = "bar" /\ pc = "object"
        /\ phase # "inMix"
    BY <1>6 DEF NextBar, Idle
  <2>2. bar' - 1 = bar /\ bar' # 1 /\ bar' \in Nat \ {0}
    BY <2>1 DEF IInv
  <2> QED
    BY <1>1, <1>2, <2>1, <2>2 DEF IInv
<1> QED
  BY <1>4, <1>5, <1>6

(* A key sound is loaded, or the loading is over.                          *)
LEMMA LoadingSteps ==
  ASSUME IInv, LoadSound \/ StartMixing
  PROVE  IInv' /\ MixerStep
<1>1. /\ chart' = chart /\ bar' = bar /\ object' = object
      /\ pc = "load" /\ phase = "loading" /\ bar = 1 /\ span = 0
  BY DEF LoadSound, Loading, StartMixing, parameters, IInv
<1>2. CASE LoadSound
  <2>1. PICK w \in Word : M!LoadFile(w) \/ M!LoadFileFails(w)
    BY <1>2 DEF LoadSound
  <2>2. w \in M!Channel
    BY WordAssumption, MixerAssumption DEF Word, M!Channel
  <2>3. MixerStep
    BY <2>1, <2>2 DEF MixerStep, M!Next
  <2>4. phase' = phase /\ span' = span
    BY <2>1 DEF M!LoadFile, M!LoadFileFails, M!loopVars
  <2>5. pc' = pc
    BY <1>2 DEF LoadSound
  <2> QED
    BY <1>1, <2>3, <2>4, <2>5 DEF IInv
<1>3. CASE StartMixing
  <2>1. MixerStep
    BY <1>3 DEF StartMixing, MixerStep, M!Next
  <2>2. /\ phase' = "recording" /\ tick' = 0 /\ span' = 0 /\ pc' = "bar"
        /\ Reached' = 0 /\ Reached' <= MaxTick
    BY <1>1, <1>3, MixerAssumption DEF StartMixing, M!StartMixing, M!loopVars, Reached
  <2> QED
    BY <1>1, <2>1, <2>2 DEF IInv
<1> QED
  BY <1>2, <1>3

(* Inside a call of Mix: what it will come to does not change.             *)
LEMMA InMixKeeps ==
  ASSUME IInv, InMix
  PROVE  IInv' /\ MixerStep
<1>1. /\ chart' = chart /\ bar' = bar /\ object' = object /\ pc' = pc
      /\ M!MixChannel \/ M!EndMix
  BY DEF InMix, parameters
<1>2. MixerStep
  BY <1>1 DEF MixerStep, M!Next
<1>3. phase = "inMix" /\ pc # "load" /\ pc # "start"
  BY <1>1 DEF M!MixChannel, M!EndMix, IInv
<1>4. /\ Bars' = Bars /\ SampleAt(bar)' = SampleAt(bar)
      /\ SampleAt(bar - 1)' = SampleAt(bar - 1)
  BY <1>1 DEF Bars, SampleAt
<1>5. CASE M!MixChannel
  <2>1. phase' = phase /\ span' = span /\ tick' = tick /\ Reached' = Reached
    BY <1>5 DEF M!MixChannel, Reached
  <2> QED
    BY <1>1, <1>2, <1>3, <1>4, <2>1 DEF IInv
<1>6. CASE M!EndMix
  <2>1. phase' = "recording" /\ span' = 0 /\ tick' = tick + span
    BY <1>6 DEF M!EndMix
  <2>2. CASE pc \in {"bar", "object"}
    <3>1. tick \in Int /\ span \in Int
      BY <2>2 DEF IInv
    <3>2. Reached' = Reached /\ tick' \in Int
      BY <2>1, <3>1 DEF Reached
    <3> QED
      BY <1>1, <1>2, <1>3, <1>4, <2>1, <2>2, <3>2 DEF IInv
  <2>3. CASE pc \notin {"bar", "object"}
    BY <1>1, <1>2, <1>3, <2>1, <2>3 DEF IInv
  <2> QED
    BY <2>2, <2>3
<1> QED
  BY <1>1, <1>5, <1>6

(* The mixer is asked for the span to the bar, which is not negative since *)
(* the bars ascend, and does not lead beyond the bound.                    *)
LEMMA MixToBarKeeps ==
  ASSUME IInv, MixToBar
  PROVE  IInv' /\ MixerStep
<1>1. /\ chart' = chart /\ bar' = bar /\ object' = 1
      /\ bar \in Bars /\ pc = "bar" /\ pc' = "object"
      /\ M!Mix(SampleAt(bar) - tick)
  BY DEF MixToBar, parameters
<1>2. /\ phase = "recording" /\ phase' = "inMix"
      /\ tick' = tick /\ span' = SampleAt(bar) - tick
  BY <1>1 DEF M!Mix, M!BeginMix
<1>3. /\ tick \in Int /\ span = 0 /\ MaxTick \in Nat
      /\ SampleAt(bar) \in 0 .. MaxTick
      /\ bar - 1 \in Bars => SampleAt(bar - 1) <= SampleAt(bar)
  <2>1. tick \in Int /\ span = 0 /\ MaxTick \in Nat /\ bar \in Nat /\ chart \in Charts
    BY <1>1, <1>2, MixerAssumption DEF IInv
  <2>2. bar - 1 <= bar
    BY <2>1
  <2> QED
    BY <1>1, <2>1, <2>2, BarsAscend
<1>4. tick <= SampleAt(bar)
  <2>1. Reached = tick
    BY <1>3 DEF Reached
  <2> QED
    BY <1>1, <1>3, <2>1 DEF IInv
<1>5. SampleAt(bar) - tick \in 0 .. MaxTick - tick
  BY <1>3, <1>4
<1>6. MixerStep
  BY <1>1, <1>5 DEF MixerStep, M!Next
<1>7. Reached' = SampleAt(bar) /\ tick' \in Int /\ span' \in Int
  BY <1>2, <1>3 DEF Reached
<1>8. Bars' = Bars /\ SampleAt(bar)' = SampleAt(bar)
  BY <1>1 DEF Bars, SampleAt
<1> QED
  BY <1>1, <1>2, <1>3, <1>6, <1>7, <1>8 DEF IInv

(* An object is struck.                                                    *)
LEMMA StrikeKeeps ==
  ASSUME IInv, StopObject \/ StartObject
  PROVE  IInv' /\ MixerStep
<1>1. /\ chart' = chart /\ bar' = bar /\ bar \in Bars
      /\ pc \in {"object", "start"} /\ object \in DOMAIN Objects
      /\ chart \in Charts /\ object \in Nat \ {0}
  BY DEF StopObject, StartObject, parameters, IInv
<1> DEFINE w == Objects[object].word
<1>2. w \in M!Channel
  BY <1>1, WordsAreChannels
<1> HIDE DEF w
<1>3. M!Stop(w) \/ M!Start(w)
  BY DEF StopObject, StartObject, w
<1>4. MixerStep
  BY <1>2, <1>3 DEF MixerStep, M!Next
<1>5. /\ phase = "recording" /\ phase' = phase /\ tick' = tick /\ span' = span
      /\ Reached' = Reached
  BY <1>3 DEF M!Stop, M!Start, M!loopVars, Reached
<1>6. /\ Bars' = Bars /\ SampleAt(bar)' = SampleAt(bar) /\ Objects' = Objects
  BY <1>1 DEF Bars, SampleAt, Objects
<1>7. \/ pc' = "start" /\ object' = object
      \/ pc' = "object" /\ object' = object + 1
  BY DEF StopObject, StartObject
<1>8. pc' \in {"start", "object"} /\ object' \in Nat \ {0}
  BY <1>1, <1>7
<1>9. pc' = "start" => object' \in DOMAIN Objects /\ Struck(Objects[object'])
  <2>1. pc' = "start" => Struck(Objects[object])
    BY DEF StopObject, StartObject
  <2> QED
    BY <1>1, <1>7, <2>1
<1> QED
  BY <1>1, <1>4, <1>5, <1>6, <1>8, <1>9 DEF IInv

(* The recording is completed and exported.                                *)
LEMMA EndingSteps ==
  ASSUME IInv, MixUntilEnd \/ Flush
  PROVE  IInv' /\ MixerStep
<1>1. chart' = chart /\ bar' = bar /\ object' = object
  BY DEF MixUntilEnd, Flush, parameters
<1>2. CASE MixUntilEnd
  <2>1. M!MixUntilEnd /\ pc = "bar" /\ pc' = "flush"
    BY <1>2 DEF MixUntilEnd
  <2>2. phase = "recording" /\ phase' = "inMix"
    BY <2>1 DEF M!MixUntilEnd, M!BeginMix
  <2>3. tick \in Int /\ span = 0 /\ Reached <= MaxTick
    BY <2>1, <2>2 DEF IInv
  <2>4. tick <= MaxTick
    BY <2>3 DEF Reached
  <2>5. MixerStep
    BY <2>1, <2>4 DEF MixerStep, M!Next
  <2> QED
    BY <1>1, <2>1, <2>2, <2>5 DEF IInv
<1>3. CASE Flush
  <2>1. M!Flush(TRUE) /\ pc' = "pitch"
    BY <1>3 DEF Flush
  <2>2. phase = "recording" /\ phase' = "flushed" /\ span' = span
    BY <2>1 DEF M!Flush, M!loopVars
  <2>3. MixerStep
    BY <2>1 DEF MixerStep, M!Next
  <2> QED
    BY <1>1, <2>1, <2>2, <2>3 DEF IInv
<1> QED
  BY <1>2, <1>3

LEMMA EveryStep == IInv /\ [Next]_vars => IInv' /\ MixerStep
<1> SUFFICES ASSUME IInv, [Next]_vars PROVE IInv' /\ MixerStep
  OBVIOUS
<1>1. CASE Refuse \/ PassWord \/ PassObject \/ NextBar \/ ChangePitch \/ ChangeRate
             \/ Save \/ SaveFails \/ SaveCrashes \/ UNCHANGED vars
  <2>1. UNCHANGED mixerVars /\ UNCHANGED chart
    BY <1>1 DEF Refuse, PassWord, PassObject, NextBar, ChangePitch, ChangeRate,
         Save, SaveFails, SaveCrashes, vars, mixerVars, parameters
  <2> QED
    BY <1>1, <2>1, OtherSteps
<1>2. CASE LoadSound \/ StartMixing
  BY <1>2, LoadingSteps
<1>3. CASE InMix
  BY <1>3, InMixKeeps
<1>4. CASE MixToBar
  BY <1>4, MixToBarKeeps
<1>5. CASE StopObject \/ StartObject
  BY <1>5, StrikeKeeps
<1>6. CASE MixUntilEnd \/ Flush
  BY <1>6, EndingSteps
<1> QED
  BY <1>1, <1>2, <1>3, <1>4, <1>5, <1>6 DEF Next

(* Every run of main, seen from the mixer, is a run of the mixer as module *)
(* Mixer allows it (main.cpp:212-291): its calls come in the order that    *)
(* the mixer relies on, and Mix is never given a negative span.            *)
THEOREM MainObeysMixer == Spec => ObeysMixer
<1>1. Init => IInv /\ M!Init
  BY Initially
<1>2. IInv /\ [Next]_vars => IInv' /\ [M!Next]_(M!vars)
  BY EveryStep DEF MixerStep
<1> QED
  BY <1>1, <1>2, PTL DEF Spec, ObeysMixer, M!Spec

LEMMA IInvHolds == Spec => []IInv
<1>1. Init => IInv
  BY Initially
<1>2. IInv /\ [Next]_vars => IInv'
  BY EveryStep
<1> QED
  BY <1>1, <1>2, PTL DEF Spec

-----------------------------------------------------------------------------
(* What is proved of the mixer holds in main.                              *)

P == INSTANCE MixerProofs WITH pc <- phase

(* P holds a second copy of module Mixer; the two say the same.            *)
LEMMA SameMixer ==
  /\ M!Init <=> P!Init
  /\ M!Next <=> P!Next
  /\ M!IndicesInRange <=> P!IndicesInRange
<1>1. M!Init <=> P!Init
  BY DEF M!Init, P!Init, M!Channel, P!Channel, M!NoRest, P!NoRest
<1>2. M!Next <=> P!Next
  BY DEF M!Next, P!Next, M!Channel, P!Channel, M!chanVars, P!chanVars,
       M!loopVars, P!loopVars, M!NoRest, P!NoRest, M!LoadFile,
       P!LoadFile, M!LoadFileFails, P!LoadFileFails, M!Release,
       P!Release, M!StartMixing, P!StartMixing, M!Start, P!Start,
       M!Stop, P!Stop, M!Mix, P!Mix, M!BeginMix, P!BeginMix,
       M!MixUntilEnd, P!MixUntilEnd, M!LongestRemaining,
       P!LongestRemaining, M!RemainingTick, P!RemainingTick,
       M!MixChannel, P!MixChannel, M!Get, P!Get, M!EndMix, P!EndMix,
       M!IsAllAudioStopped, P!IsAllAudioStopped, M!IsStopped,
       P!IsStopped, M!HasEnded, P!HasEnded, M!Flush, P!Flush,
       M!Normalized, P!Normalized, M!NormalizeRatio, P!NormalizeRatio,
       M!ProposedRatio, P!ProposedRatio, M!AtLeast, P!AtLeast, M!Scale,
       P!Scale, M!Cut, P!Cut
<1>3. M!IndicesInRange <=> P!IndicesInRange
  BY DEF M!IndicesInRange, P!IndicesInRange, M!InRecording, P!InRecording,
       M!Channel, P!Channel
<1> QED
  BY <1>1, <1>2, <1>3

(* The loops of Mix (audio.cpp:211-219) stay within the accumulator and    *)
(* within the key sounds, in every run of main.                            *)
THEOREM MainKeepsIndices == Spec => []M!IndicesInRange
<1>1. /\ P!MixerSizeAssumption /\ P!SampleAssumption /\ P!SoundsAssumption
      /\ P!UnsetAssumption /\ P!MaxTickAssumption
  BY MixerAssumption DEF P!MixerSizeAssumption, P!SampleAssumption, P!SoundsAssumption,
       P!UnsetAssumption, P!MaxTickAssumption
<1>2. P!Spec => []P!IndicesInRange
  BY P!IndicesStayInRange, <1>1, PTL
<1>3. M!Init => P!Init
  BY SameMixer
<1>4. [M!Next]_(M!vars) => [P!Next]_(P!vars)
  BY SameMixer DEF M!vars, P!vars
<1>5. P!IndicesInRange => M!IndicesInRange
  BY SameMixer
<1> QED
  BY MainObeysMixer, <1>2, <1>3, <1>4, <1>5, PTL DEF ObeysMixer, M!Spec, P!Spec

(* What the mixer hands over is a list of output samples.                  *)
LEMMA MixerIsTyped == Spec => [](P!IInv /\ P!MixInv)
<1>1. /\ P!MixerSizeAssumption /\ P!SampleAssumption /\ P!SoundsAssumption
      /\ P!UnsetAssumption /\ P!MaxTickAssumption
  BY MixerAssumption DEF P!MixerSizeAssumption, P!SampleAssumption, P!SoundsAssumption,
       P!UnsetAssumption, P!MaxTickAssumption
<1>2. P!Spec => []P!IInv
  BY P!IInvHolds, <1>1, PTL
<1>3. P!Spec => []P!MixInv
  BY P!MixInvHolds, <1>1, PTL
<1>4. M!Init => P!Init
  BY SameMixer
<1>5. [M!Next]_(M!vars) => [P!Next]_(P!vars)
  BY SameMixer DEF M!vars, P!vars
<1> QED
  BY MainObeysMixer, <1>2, <1>3, <1>4, <1>5, PTL DEF ObeysMixer, M!Spec, P!Spec

-----------------------------------------------------------------------------
(* The output file.                                                        *)

(* s is a list, of whatever elements.                                      *)
IsList(s) == Len(s) \in Nat /\ s = [k \in 1 .. Len(s) |-> s[k]]

(* main looks at all words before it writes, and what it writes is a list. *)
FileInv ==
  /\ chart \in Charts
  /\ rate \in Speed
  /\ word \in 0 .. WORD_MAX_COUNT
  /\ pc = "load" => \A w \in Word : w < word => ~Collides(w)
  /\ pc \notin {"load", "exited"} => \A w \in Word : ~Collides(w)
  /\ pc \in {"pitch", "rate", "save"} => IsList(music)

LEMMA TabulatedIsList ==
  ASSUME NEW n \in Nat, NEW f, DOMAIN f = 1 .. n, f = [k \in 1 .. n |-> f[k]]
  PROVE  IsList(f) /\ Len(f) = n
<1> DEFINE S == {f[k] : k \in 1 .. n}
<1>1. f \in [1 .. n -> S]
  OBVIOUS
<1> HIDE DEF S
<1>2. f \in Seq(S)
  BY <1>1, SeqDef
<1>3. Len(f) = n
  BY <1>2, LenProperties
<1> QED
  BY <1>3 DEF IsList

LEMMA ListIsSeq ==
  ASSUME NEW s, IsList(s)
  PROVE  DOMAIN s = 1 .. Len(s) /\ s \in Seq({s[k] : k \in 1 .. Len(s)})
<1>1. PICK n \in Nat : n = Len(s)
  BY DEF IsList
<1>2. s = [k \in 1 .. n |-> s[k]]
  BY <1>1 DEF IsList
<1> DEFINE S == {s[k] : k \in 1 .. n}
<1>3. s \in [1 .. n -> S] /\ DOMAIN s = 1 .. n
  BY <1>2
<1> HIDE DEF S
<1>4. s \in Seq(S)
  BY <1>3, SeqDef
<1> QED
  BY <1>1, <1>3, <1>4 DEF S

LEMMA ChannelsOfWords == Word \subseteq M!Channel /\ WORD_MAX_COUNT \in Nat \ {0}
BY WordAssumption, MixerAssumption DEF Word, M!Channel

(* Which words are in the output's way does not change.                    *)
LEMMA SameCollisions ==
  ASSUME chart' = chart, output_path' = output_path
  PROVE  \A w \in Word : Collides(w)' <=> Collides(w)
BY DEF Collides, Registered, path

(* Which steps write.                                                      *)
LEMMA FileStep ==
  ASSUME FileInv, [Next]_vars
  PROVE  /\ UNCHANGED parameters
         /\ disk' = disk \/ Save \/ SaveFails \/ SaveCrashes
<1>1. CASE Refuse \/ PassWord \/ LoadSound \/ StartMixing \/ InMix \/ MixToBar \/ PassObject
             \/ StopObject \/ StartObject \/ NextBar \/ MixUntilEnd \/ Flush \/ ChangePitch
             \/ ChangeRate \/ UNCHANGED vars
  BY <1>1 DEF Refuse, Loading, PassWord, LoadSound, StartMixing, InMix, MixToBar, PassObject,
       StopObject, StartObject, NextBar, MixUntilEnd, Flush, ChangePitch, ChangeRate, vars
<1>2. CASE Save \/ SaveFails \/ SaveCrashes
  BY <1>2 DEF Save, SaveFails, SaveCrashes
<1> QED
  BY <1>1, <1>2 DEF Next

LEMMA FlushedIsList ==
  ASSUME P!IInv', Flush
  PROVE  IsList(music')
<1>1. music' = out' /\ out' \in Seq(MSAMPLE_MIN .. MSAMPLE_MAX)
  BY DEF Flush, P!IInv, P!TypeOK
<1>2. out' \in [1 .. Len(out') -> MSAMPLE_MIN .. MSAMPLE_MAX] /\ Len(out') \in Nat
  BY <1>1, LenProperties
<1> QED
  BY <1>1, <1>2 DEF IsList

LEMMA ShiftedIsList ==
  ASSUME NEW s, IsList(s)
  PROVE  IsList(PitchShift(s))
<1>1. DOMAIN s = 1 .. Len(s) /\ Len(s) \in Nat
  BY ListIsSeq DEF IsList
<1>2. PitchShift(s) = [k \in 1 .. Len(s) |-> PitchedSample(s, k)]
  BY <1>1 DEF PitchShift
<1>3. PICK f : f = PitchShift(s)
  OBVIOUS
<1>4. DOMAIN f = 1 .. Len(s) /\ f = [k \in 1 .. Len(s) |-> f[k]]
  BY <1>2, <1>3
<1>5. IsList(f)
  BY <1>1, <1>4, TabulatedIsList
<1> QED
  BY <1>3, <1>5

(* Resampling gives a list, whose samples are those of s wherever they can *)
(* come from s.                                                            *)
LEMMA ResampledIsList ==
  ASSUME NEW s, IsList(s), NEW d \in Speed, NEW behind \in Leftover \X Leftover
  PROVE  /\ IsList(Resampled(s, Clamped(d), behind))
         /\ ResampledBy(Resampled(s, Clamped(d), behind), s, Clamped(d))
<1>1. PICK e \in Speed : e = Clamped(d) /\ e[1] > 0
  BY ClampedPositive
<1>2. PICK n \in Nat : n = NewCount(Len(s), e)
  BY <1>1, NewCountBounds DEF IsList
<1>3. PICK t : t = s \o behind
  OBVIOUS
<1>4. PICK f : f = Resampled(s, e, behind)
  OBVIOUS
<1>5. f = [p \in 1 .. n |-> t[Origin(p, e)]]
  BY <1>2, <1>3, <1>4 DEF Resampled
<1>6. DOMAIN f = 1 .. n /\ f = [k \in 1 .. n |-> f[k]]
  BY <1>5
<1>7. IsList(f) /\ Len(f) = n
  BY <1>6, TabulatedIsList
<1>8. \A k \in 1 .. Len(s) : t[k] = s[k]
  <2> DEFINE T == {s[k] : k \in 1 .. Len(s)} \cup Leftover
  <2>1. PICK m \in Nat : m = Len(s)
    BY DEF IsList
  <2>2. s = [k \in 1 .. m |-> s[k]]
    BY <2>1 DEF IsList
  <2>3. s \in [1 .. m -> T]
    BY <2>1, <2>2
  <2>4. behind \in [1 .. 2 -> T]
    OBVIOUS
  <2> HIDE DEF T
  <2>5. s \in Seq(T)
    BY <2>3, SeqDef
  <2>6. behind \in Seq(T)
    BY <2>4, SeqDef
  <2> QED
    BY <1>3, <2>5, <2>6
<1>9. \A p \in 1 .. n : Origin(p, e) \in 1 .. Len(s) + 2
  BY <1>1, <1>2, OriginInReach DEF IsList
<1>10. \A p \in 1 .. n : Origin(p, e) <= Len(s) => f[p] = s[Origin(p, e)]
  <2> SUFFICES ASSUME NEW p \in 1 .. n, Origin(p, e) <= Len(s)
               PROVE  f[p] = s[Origin(p, e)]
    OBVIOUS
  <2>1. Origin(p, e) \in 1 .. Len(s)
    BY <1>9 DEF IsList
  <2> QED
    BY <1>5, <1>8, <2>1
<1> QED
  BY <1>1, <1>2, <1>4, <1>7, <1>10 DEF ResampledBy

LEMMA StepKeepsFileInv ==
  ASSUME FileInv, P!IInv', [Next]_vars
  PROVE  FileInv'
<1> USE DEF FileInv
<1>1. /\ UNCHANGED <<chart, output_path, rate>>
      /\ \A w \in Word : Collides(w)' <=> Collides(w)
  BY FileStep, SameCollisions DEF parameters
<1>2. WORD_MAX_COUNT \in Nat \ {0} /\ Word = 0 .. WORD_MAX_COUNT - 1
  BY ChannelsOfWords DEF Word
<1>3. CASE Refuse
  BY <1>1, <1>3 DEF Refuse
<1>4. CASE PassWord \/ LoadSound
  <2>1. /\ word < WORD_MAX_COUNT /\ word \in Word /\ ~Collides(word)
        /\ word' = word + 1 /\ pc = "load" /\ pc' = "load"
    BY <1>2, <1>4 DEF PassWord, LoadSound, Loading
  <2>2. \A w \in Word : w < word + 1 => w < word \/ w = word
    BY <1>2
  <2>3. \A w \in Word : w < word' => ~Collides(w)
    BY <2>1, <2>2
  <2> QED
    BY <1>1, <1>2, <2>1, <2>3
<1>5. CASE StartMixing
  <2>1. word = WORD_MAX_COUNT /\ word' = word /\ pc = "load" /\ pc' = "bar"
    BY <1>5 DEF StartMixing
  <2>2. \A w \in Word : w < word
    BY <1>2, <2>1
  <2> QED
    BY <1>1, <2>1, <2>2
<1>6. CASE InMix \/ MixToBar \/ PassObject \/ StopObject \/ StartObject \/ NextBar \/ MixUntilEnd
  <2>1. /\ word' = word /\ music' = music
        /\ \/ pc' = pc
           \/ /\ pc \in {"bar", "object", "start"}
              /\ pc' \in {"bar", "object", "start", "flush"}
    BY <1>6 DEF InMix, MixToBar, PassObject, StopObject, StartObject, NextBar, MixUntilEnd
  <2> QED
    BY <1>1, <2>1
<1>7. CASE Flush
  <2>1. pc = "flush" /\ pc' = "pitch" /\ word' = word
    BY <1>7 DEF Flush
  <2>2. IsList(music')
    BY <1>7, FlushedIsList
  <2> QED
    BY <1>1, <2>1, <2>2 DEF IsList
<1>8. CASE ChangePitch
  <2>1. pc = "pitch" /\ pc' = "rate" /\ word' = word
    BY <1>8 DEF ChangePitch
  <2>2. IsList(music')
    BY <1>8, <2>1, ShiftedIsList DEF ChangePitch
  <2> QED
    BY <1>1, <2>1, <2>2 DEF IsList
<1>9. CASE ChangeRate
  <2>1. pc = "rate" /\ pc' = "save" /\ word' = word
    BY <1>9 DEF ChangeRate
  <2>2. IsList(music')
    <3>1. \/ music' = music
          \/ \E behind \in Leftover \X Leftover : music' = Resampled(music, Clamped(rate), behind)
      BY <1>9 DEF ChangeRate
    <3> QED
      BY <2>1, <3>1, ResampledIsList
  <2> QED
    BY <1>1, <2>1, <2>2 DEF IsList
<1>10. CASE Save \/ SaveFails \/ SaveCrashes
  <2>1. pc = "save" /\ pc' \in {"exited", "crashed"} /\ word' = word
    BY <1>10 DEF Save, SaveFails, SaveCrashes
  <2> QED
    BY <1>1, <2>1
<1>11. CASE UNCHANGED vars
  BY <1>1, <1>11 DEF vars, IsList
<1> QED
  BY <1>3, <1>4, <1>5, <1>6, <1>7, <1>8, <1>9, <1>10, <1>11 DEF Next

LEMMA FileInvHolds == Spec => []FileInv
<1>1. Init => FileInv
  <2> SUFFICES ASSUME Init PROVE FileInv
    OBVIOUS
  <2>1. WORD_MAX_COUNT \in Nat \ {0}
    BY ChannelsOfWords
  <2>2. \A w \in Word : ~(w < 0)
    BY <2>1 DEF Word
  <2> QED
    BY <2>1, <2>2, RateAssumption DEF Init, FileInv
<1>2. FileInv /\ P!IInv' /\ [Next]_vars => FileInv'
  BY StepKeepsFileInv
<1> QED
  BY <1>1, <1>2, MixerIsTyped, PTL DEF Spec

(* What is written goes into one file.                                     *)
LEMMA WritesOneFile ==
  ASSUME NEW s, Written(s)
  PROVE  \A p \in DOMAIN disk \ {output_path} : disk'[p] = disk[p]
BY DEF Written

(* The words' files are left alone: whatever main writes goes into a file  *)
(* that no word of the chart names (main.cpp:220).                         *)
THEOREM ChartFilesAreKept == Spec => NamedSoundsSurvive
<1>1. ASSUME FileInv, [Next]_vars, NEW w \in Word, Registered(w), path(w) \in DOMAIN disk
      PROVE  disk'[path(w)] = disk[path(w)]
  <2>1. CASE disk' = disk
    BY <2>1
  <2>2. CASE disk' # disk
    <3>1. Save \/ SaveFails \/ SaveCrashes
      BY <1>1, <2>2, FileStep
    <3>2. pc = "save"
      BY <3>1 DEF Save, SaveFails, SaveCrashes
    <3>3. \E s : Written(s)
      BY <2>2, <3>1 DEF Save, SaveFails, SaveCrashes, WrittenInPart
    <3>4. path(w) # output_path
      BY <1>1, <3>2 DEF FileInv, Collides
    <3> QED
      BY <1>1, <3>3, <3>4, WritesOneFile
  <2> QED
    BY <2>1, <2>2
<1>2. FileInv /\ [Next]_vars =>
        [\A w \in Word : Registered(w) /\ path(w) \in DOMAIN disk =>
                          disk'[path(w)] = disk[path(w)]]_vars
  BY <1>1
<1> QED
  BY <1>2, FileInvHolds, PTL DEF Spec, NamedSoundsSurvive

-----------------------------------------------------------------------------
(* The score: what RendersChart says of a chart, in terms of its bars.     *)

(* A bar's frame is its time in samples, halved.                           *)
LEMMA FrameIsSample ==
  ASSUME chart \in Charts, NEW b \in Bars
  PROVE  2 * FrameOfBar(b) = SampleAt(b)
<1>1. PICK n : n = chart.bars[b].time * FREQUENCY
  OBVIOUS
<1>2. n \in Nat /\ TimeUnit \in Nat \ {0}
  <2> DEFINE R == [time : Nat, objects : Seq(Object)]
  <2>1. chart.bars \in Seq(R)
    BY ChartAssumption
  <2>2. \A r \in R : r.time \in Nat
    OBVIOUS
  <2> HIDE DEF R
  <2>3. chart.bars[b] \in R
    BY <2>1 DEF Bars
  <2>4. chart.bars[b].time \in Nat /\ FREQUENCY \in Nat
    BY <2>2, <2>3, TimeAssumption
  <2> QED
    BY <1>1, <2>4, ProductInNat, TimeAssumption
<1>3. PICK q \in Nat : q = n \div TimeUnit
  BY <1>2, Quotient
<1>4. q * TimeUnit <= n /\ n < q * TimeUnit + TimeUnit
  BY <1>2, <1>3, Quotient
<1>5. q * TimeUnit \in Nat
  BY <1>2, ProductInNat
<1>6. \A f \in Nat : (f + 1) * TimeUnit = f * TimeUnit + TimeUnit /\ f * TimeUnit \in Nat
  <2> SUFFICES ASSUME NEW f \in Nat
               PROVE  (f + 1) * TimeUnit = f * TimeUnit + TimeUnit /\ f * TimeUnit \in Nat
    OBVIOUS
  <2>1. (f + 1) * TimeUnit = f * TimeUnit + 1 * TimeUnit /\ 1 * TimeUnit = TimeUnit
    BY <1>2, Distribute
  <2> QED
    BY <1>2, <2>1, ProductInNat
<1>7. q <= n
  <2>1. q * 1 <= q * TimeUnit
    BY <1>2
  <2> QED
    BY <1>2, <1>4, <1>5, <2>1
<1>8. q \in 0 .. n /\ q * TimeUnit <= n /\ n < (q + 1) * TimeUnit
  BY <1>2, <1>4, <1>6, <1>7
<1>9. ASSUME NEW f \in 0 .. n, f * TimeUnit <= n, n < (f + 1) * TimeUnit
      PROVE  f = q
  <2>1. f \in Nat /\ f * TimeUnit \in Nat /\ (f + 1) * TimeUnit \in Nat
        /\ (q + 1) * TimeUnit \in Nat
    BY <1>2, <1>6
  <2>2. f * TimeUnit < (q + 1) * TimeUnit /\ q * TimeUnit < (f + 1) * TimeUnit
    BY <1>2, <1>5, <1>8, <1>9, <2>1
  <2>3. f < q + 1
    BY <1>2, <2>1, <2>2, Cancel
  <2>4. q < f + 1
    BY <1>2, <2>1, <2>2, Cancel
  <2> QED
    BY <2>1, <2>3, <2>4
<1>10. FrameOfBar(b) = q
  BY <1>1, <1>8, <1>9 DEF FrameOfBar
<1> QED
  BY <1>1, <1>3, <1>10 DEF SampleAt

LEMMA GreatestIs ==
  ASSUME NEW S, S \subseteq Int, NEW m \in S, \A n \in S : n <= m
  PROVE  Greatest(S) = m
<1>1. \A k \in S : (\A n \in S : n <= k) => k = m
  OBVIOUS
<1> QED
  BY <1>1 DEF Greatest

(* Object k of bar b strikes word c.                                       *)
Rings(c, b, k) ==
  LET o == chart.bars[b].objects[k] IN o.word = c /\ Struck(o)

(* The bars that strike a word; and those that have struck it by now.      *)
Ringing ==
  [c \in M!Channel |-> {b \in Bars : \E k \in DOMAIN chart.bars[b].objects : Rings(c, b, k)}]

Passed(b, k) == b < bar \/ (b = bar /\ pc \in {"object", "start"} /\ k < object)

Rung ==
  [c \in M!Channel |->
     {b \in Bars : \E k \in DOMAIN chart.bars[b].objects : Rings(c, b, k) /\ Passed(b, k)}]

LEMMA StrikesAreRinging ==
  ASSUME chart \in Charts, NEW w \in Word
  PROVE  Strikes(w) = {SampleAt(b) : b \in Ringing[w]}
<1>1. w \in M!Channel
  BY ChannelsOfWords
<1> DEFINE T == {c \in Bars : w # 0 /\ \E o \in Range(chart.bars[c].objects) :
                                 o.word = w /\ o.plays /\ ~o.lnEnd}
<1>2. T = Ringing[w]
  <2>1. Ringing[w] = {b \in Bars : \E k \in DOMAIN chart.bars[b].objects : Rings(w, b, k)}
    BY <1>1 DEF Ringing
  <2>2. ASSUME NEW b \in Bars
        PROVE  b \in T <=> \E k \in DOMAIN chart.bars[b].objects : Rings(w, b, k)
    BY Zenon DEF Rings, Struck, Range
  <2> QED
    BY <2>1, <2>2
<1>3. Strikes(w) = {2 * FrameOfBar(b) : b \in T}
  BY DEF Strikes
<1>4. \A b \in T : 2 * FrameOfBar(b) = SampleAt(b)
  BY FrameIsSample
<1> HIDE DEF T
<1> QED
  BY <1>2, <1>3, <1>4

-----------------------------------------------------------------------------
(* What the mixing loop keeps, as functions, so that what the steps leave  *)
(* of them can be said at once.                                            *)

Playing == {"bar", "object", "start", "flush"}

(* The bars' samples, the words' sounds, and the sum of all that sounds.   *)
Moments == [b \in Bars |-> SampleAt(b)]

Bank == [c \in M!Channel |-> Sound(c)]

Chorus == [k \in Nat |-> SumUpTo([w \in Word |-> Heard(w, k)], WORD_MAX_COUNT)]

(* The words seen have got their sounds.                                   *)
Loaded ==
  /\ pc \in Playing \cup {"load"} =>
       \A c \in M!Channel : audio[c] = IF c < word THEN Bank[c] ELSE <<>>
  /\ pc \in Playing => word = WORD_MAX_COUNT

(* A channel is mixing since the last of the bars that have struck it; the *)
(* one that is just being struck has been stopped.                         *)
HeadsRight ==
  pc \in Playing =>
    \A c \in M!Channel :
      /\ \A b \in Rung[c] : Moments[b] <= tick
      /\ ~(pc = "start" /\ c = Objects[object].word) =>
           /\ mixing[c] <=> Rung[c] # {}
           /\ \A b \in Rung[c] : Moments[b] <= started[c]
           /\ Rung[c] # {} => \E b \in Rung[c] : Moments[b] = started[c]

(* What has been mixed is what the chart says.                             *)
Recorded == pc \in Playing => \A p \in 1 .. tick : samples[p] = Chorus[p - 1]

(* MixUntilEnd leads to the end of the music.                              *)
EndReached ==
  pc = "flush" => Reached = MusicLength /\ \A b \in Bars : b < bar

MusicRight ==
  /\ pc = "pitch" => music = ChartMusic
  /\ pc = "rate" => music = Shifted(ChartMusic)
  /\ pc = "save" => IF rate[1] = rate[2] THEN music = Shifted(ChartMusic)
                    ELSE ResampledBy(music, Shifted(ChartMusic), Clamped(rate))

ScoreInv == Loaded /\ HeadsRight /\ Recorded /\ EndReached /\ MusicRight

(* What the score is made of changes only with the chart and the files.    *)
LEMMA SameScore ==
  ASSUME chart' = chart, disk' = disk
  PROVE  /\ Bars' = Bars /\ Moments' = Moments /\ Bank' = Bank /\ Ringing' = Ringing
         /\ Chorus' = Chorus /\ MusicLength' = MusicLength /\ ChartMusic' = ChartMusic
<1>1. Bars' = Bars
  BY DEF Bars
<1>2. \A b : SampleAt(b)' = SampleAt(b) /\ FrameOfBar(b)' = FrameOfBar(b)
  BY DEF SampleAt, FrameOfBar
<1>3. Moments' = Moments
  BY <1>1, <1>2 DEF Moments
<1>4. \A w : Sound(w)' = Sound(w)
  BY DEF Sound, Found, Registered, SoundFile, ogg_path, path
<1>5. Bank' = Bank
  BY <1>4 DEF Bank
<1>6. Ringing' = Ringing
  BY <1>1 DEF Ringing, Rings
<1>7. \A w : Strikes(w)' = Strikes(w)
  BY <1>1, <1>2 DEF Strikes
<1>8. \A w, k : Heard(w, k)' = Heard(w, k)
  BY <1>4, <1>7 DEF Heard
<1>9. Chorus' = Chorus
  BY <1>8 DEF Chorus
<1>10. MusicLength' = MusicLength
  BY <1>1, <1>2, <1>4, <1>7 DEF MusicLength
<1>11. ChartMusic' = ChartMusic
  BY <1>8, <1>10 DEF ChartMusic
<1> QED
  BY <1>1, <1>3, <1>5, <1>6, <1>9, <1>10, <1>11

(* What a word contributes at a moment, from the last bar that has struck  *)
(* it by then.                                                             *)
LEMMA HeardFromLastStrike ==
  ASSUME chart \in Charts, NEW w \in Word, NEW k \in Nat, NEW T \in SUBSET Bars,
         \A b \in Bars : b \in T <=> b \in Ringing[w] /\ SampleAt(b) <= k
  PROVE  /\ T = {} => Heard(w, k) = 0
         /\ \A g \in T : (\A b \in T : SampleAt(b) <= SampleAt(g)) =>
                         Heard(w, k) = M!Get(Sound(w), k - SampleAt(g))
<1> DEFINE before == {t \in Strikes(w) : t <= k}
<1>1. Ringing[w] \subseteq Bars
  BY ChannelsOfWords DEF Ringing
<1>2. before = {SampleAt(b) : b \in T}
  BY <1>1, StrikesAreRinging
<1>3. Heard(w, k) = IF before = {} \/ k - Greatest(before) >= Len(Sound(w)) THEN 0
                    ELSE Sound(w)[k - Greatest(before) + 1]
  BY DEF Heard
<1> HIDE DEF before
<1>4. CASE T = {}
  BY <1>2, <1>3, <1>4
<1>5. ASSUME NEW g \in T, \A b \in T : SampleAt(b) <= SampleAt(g)
      PROVE  Heard(w, k) = M!Get(Sound(w), k - SampleAt(g))
  <2>1. before \subseteq Int
    BY <1>2, BarsAscend
  <2>2. SampleAt(g) \in before /\ \A n \in before : n <= SampleAt(g)
    BY <1>2, <1>5
  <2>3. Greatest(before) = SampleAt(g)
    BY <2>1, <2>2, GreatestIs
  <2> QED
    BY <1>3, <2>2, <2>3 DEF M!Get
<1> QED
  BY <1>4, <1>5

LEMMA BarsAreNumbers ==
  ASSUME chart \in Charts
  PROVE  /\ Bars \subseteq Nat \ {0}
         /\ \A b \in Bars : \A n \in Nat \ {0} : n <= b => n \in Bars
         /\ \A b \in Bars : Moments[b] = SampleAt(b) /\ Moments[b] \in Nat
<1>1. PICK n \in Nat : Bars = 1 .. n
  BY ChartAssumption, LenProperties DEF Bars
<1> QED
  BY <1>1, BarsAscend DEF Moments

LEMMA RungAreBars ==
  ASSUME NEW c \in M!Channel
  PROVE  Rung[c] \subseteq Ringing[c] /\ Ringing[c] \subseteq Bars
BY DEF Rung, Ringing

(* What the mixer is known to be while main calls it.                      *)
LEMMA MixerTypes ==
  ASSUME IInv, P!IInv, pc \in Playing
  PROVE  /\ tick \in Nat /\ span \in Nat /\ i \in 0 .. MIXERSIZE
         /\ mixing \in [M!Channel -> BOOLEAN] /\ started \in [M!Channel -> Int]
         /\ audio \in [M!Channel -> Seq(MSAMPLE_MIN .. MSAMPLE_MAX)]
         /\ samples \in Seq(Int) /\ Len(samples) = tick + span
         /\ phase \in {"recording", "inMix"}
         /\ phase = "recording" => span = 0
<1>1. /\ phase \in {"recording", "inMix"}
      /\ phase = "recording" => span = 0
  BY DEF IInv, Playing
<1>2. P!TypeOK /\ P!IndicesInRange
  BY DEF P!IInv
<1>3. tick \in Int /\ tick >= 0
  BY <1>1, <1>2 DEF P!TypeOK, P!IndicesInRange, P!InRecording
<1>4. Len(samples) = tick + span
  BY <1>1, <1>2, <1>3 DEF P!IndicesInRange
<1> QED
  BY <1>1, <1>2, <1>3, <1>4 DEF P!TypeOK, P!Channel, M!Channel

(* In the loop of Mix, the bars that have struck a word are those that do  *)
(* so before the moments that are being mixed.                             *)
LEMMA RungByNow ==
  ASSUME IInv, P!IInv, HeadsRight, EndReached, phase = "inMix", pc \in Playing,
         NEW c \in M!Channel, NEW k \in tick .. Reached - 1
  PROVE  \A b \in Bars : b \in Rung[c] <=> b \in Ringing[c] /\ SampleAt(b) <= k
<1>1. /\ chart \in Charts /\ tick \in Nat /\ Reached \in Nat /\ bar \in Nat
      /\ pc = "flush" \/ pc = "object"
  BY MixerTypes DEF IInv, Reached
<1>2. ASSUME NEW b \in Bars, b \in Rung[c] PROVE b \in Ringing[c] /\ SampleAt(b) <= k
  <2>1. Moments[b] <= tick /\ Moments[b] = SampleAt(b) /\ Moments[b] \in Nat
    BY <1>1, <1>2, BarsAreNumbers DEF HeadsRight
  <2> QED
    BY <1>1, <1>2, <2>1, RungAreBars
<1>3. ASSUME NEW b \in Bars, b \in Ringing[c], SampleAt(b) <= k PROVE b < bar
  <2>1. CASE pc = "flush"
    BY <2>1 DEF EndReached
  <2>2. CASE pc = "object"
    <3>1. bar \in Bars /\ SampleAt(bar) = Reached /\ b \in Nat
      BY <1>1, <2>2, BarsAreNumbers DEF IInv
    <3>2. bar <= b => SampleAt(bar) <= SampleAt(b)
      BY <1>1, <3>1, BarsAscend
    <3>3. SampleAt(b) \in Nat
      BY <1>1, BarsAreNumbers
    <3> QED
      BY <1>1, <1>3, <3>1, <3>2, <3>3
  <2> QED
    BY <1>1, <2>1, <2>2
<1>4. ASSUME NEW b \in Bars, b \in Ringing[c], SampleAt(b) <= k PROVE b \in Rung[c]
  <2>1. b < bar
    BY <1>3, <1>4
  <2>2. \E n \in DOMAIN chart.bars[b].objects : Rings(c, b, n)
    BY <1>4 DEF Ringing
  <2> QED
    BY <2>1, <2>2 DEF Rung, Passed
<1> QED
  BY <1>2, <1>4

(* A channel contributes what the chart says of its word.                  *)
LEMMA ChannelPlaysWord ==
  ASSUME IInv, P!IInv, Loaded, HeadsRight, EndReached, phase = "inMix", pc \in Playing,
         NEW p \in tick + 1 .. tick + span, NEW c \in M!Channel
  PROVE  P!Heard(c, p) = IF c \in Word THEN Heard(c, p - 1) ELSE 0
<1>1. /\ chart \in Charts /\ tick \in Nat /\ span \in Nat /\ p - 1 \in Nat
      /\ p - 1 \in tick .. Reached - 1
      /\ mixing[c] \in BOOLEAN /\ started[c] \in Int
      /\ pc # "start"
  BY MixerTypes DEF IInv, Reached
<1>2. /\ mixing[c] <=> Rung[c] # {}
      /\ \A b \in Rung[c] : Moments[b] <= started[c]
      /\ Rung[c] # {} => \E b \in Rung[c] : Moments[b] = started[c]
  BY <1>1 DEF HeadsRight
<1>3. audio[c] = IF c \in Word THEN Sound(c) ELSE <<>>
  <2>1. c < word <=> c \in Word
    BY ChannelsOfWords DEF Loaded, Word, M!Channel
  <2> QED
    BY <2>1 DEF Loaded, Bank
<1>4. \A b \in Rung[c] : b \in Bars /\ Moments[b] = SampleAt(b) /\ SampleAt(b) \in Nat
  BY <1>1, RungAreBars, BarsAreNumbers
<1>5. CASE c \in Word /\ mixing[c]
  <2>1. PICK g \in Rung[c] : Moments[g] = started[c]
    BY <1>2, <1>5
  <2>2. Heard(c, p - 1) = M!Get(Sound(c), p - 1 - SampleAt(g))
    <3>1. Rung[c] \in SUBSET Bars
      BY RungAreBars
    <3>2. \A b \in Bars : b \in Rung[c] <=> b \in Ringing[c] /\ SampleAt(b) <= p - 1
      BY <1>1, RungByNow
    <3>3. \A b \in Rung[c] : SampleAt(b) <= SampleAt(g)
      BY <1>2, <1>4, <2>1
    <3> QED
      BY <1>1, <1>5, <2>1, <3>1, <3>2, <3>3, HeardFromLastStrike
  <2>3. P!Heard(c, p) = P!Get(Sound(c), p - 1 - SampleAt(g))
    BY <1>3, <1>4, <1>5, <2>1 DEF P!Heard
  <2> QED
    BY <1>5, <2>2, <2>3 DEF M!Get, P!Get
<1>6. CASE c \in Word /\ ~mixing[c]
  <2>1. Rung[c] = {}
    BY <1>2, <1>6
  <2>2. Heard(c, p - 1) = 0
    <3>2. \A b \in Bars : b \in Rung[c] <=> b \in Ringing[c] /\ SampleAt(b) <= p - 1
      BY <1>1, RungByNow
    <3> QED
      BY <1>1, <1>6, <2>1, <3>2, HeardFromLastStrike
  <2> QED
    BY <1>6, <2>2 DEF P!Heard
<1>7. CASE c \notin Word /\ mixing[c]
  <2>1. started[c] <= tick
    BY <1>2, <1>7 DEF HeadsRight
  <2>2. P!Heard(c, p) = P!Get(<<>>, p - 1 - started[c]) /\ p - 1 - started[c] >= 0
    BY <1>1, <1>3, <1>7, <2>1 DEF P!Heard
  <2> QED
    BY <1>1, <1>7, <2>2 DEF P!Get
<1>8. CASE c \notin Word /\ ~mixing[c]
  BY <1>8 DEF P!Heard
<1> QED
  BY <1>1, <1>5, <1>6, <1>7, <1>8

(* When the channel loop is over, the new positions hold the chorus.       *)
LEMMA MixedIsChorus ==
  ASSUME IInv, P!IInv, P!MixInv, Loaded, HeadsRight, EndReached, pc \in Playing,
         phase = "inMix", i = MIXERSIZE, NEW p \in tick + 1 .. tick + span
  PROVE  samples[p] = Chorus[p - 1]
<1>1. tick \in Nat /\ span \in Nat /\ p - 1 \in Nat
  BY MixerTypes
<1>2. /\ WORD_MAX_COUNT \in Nat /\ MIXERSIZE \in Nat /\ WORD_MAX_COUNT <= MIXERSIZE
      /\ Word = 0 .. WORD_MAX_COUNT - 1 /\ M!Channel = 0 .. MIXERSIZE - 1
      /\ P!Channel = M!Channel
  BY WordAssumption, MixerAssumption DEF Word, M!Channel, P!Channel
<1> DEFINE v == [c \in P!Channel |-> P!Heard(c, p)]
           w == [c \in Word |-> Heard(c, p - 1)]
<1>3. samples[p] = P!SumUpTo(v, MIXERSIZE)
  BY DEF P!MixInv, P!MixIsSum
<1>4. P!SumUpTo(v, MIXERSIZE) = SumUpTo(v, MIXERSIZE)
  BY DEF P!SumUpTo, SumUpTo
<1>5. Chorus[p - 1] = SumUpTo(w, WORD_MAX_COUNT)
  BY <1>1 DEF Chorus
<1>6. \A c \in M!Channel : v[c] \in Int /\ v[c] = IF c \in Word THEN w[c] ELSE 0
  <2>1. \A c \in M!Channel : P!Heard(c, p) \in Int
    BY <1>2, P!HeardIsSample, MixerAssumption DEF P!SampleAssumption, P!MixerSizeAssumption,
         P!SoundsAssumption, P!UnsetAssumption, P!MaxTickAssumption
  <2>2. \A c \in M!Channel : v[c] = P!Heard(c, p)
    BY <1>2
  <2>3. \A c \in Word : w[c] = Heard(c, p - 1)
    OBVIOUS
  <2> HIDE DEF v, w
  <2> QED
    BY <2>1, <2>2, <2>3, ChannelPlaysWord
<1> HIDE DEF v, w
<1>7. SumUpTo(v, MIXERSIZE) = SumUpTo(v, WORD_MAX_COUNT)
  <2>1. /\ \A n \in 0 .. MIXERSIZE - 1 : v[n] \in Int
        /\ \A n \in WORD_MAX_COUNT .. MIXERSIZE - 1 : v[n] = 0
    BY <1>2, <1>6
  <2> QED
    BY <1>2, <2>1, SumOfZeros
<1>8. SumUpTo(v, WORD_MAX_COUNT) = SumUpTo(w, WORD_MAX_COUNT)
  <2>1. \A n \in 0 .. WORD_MAX_COUNT - 1 : v[n] \in Int /\ v[n] = w[n]
    BY <1>2, <1>6
  <2> QED
    BY <1>2, <2>1, SumsAgree
<1> QED
  BY <1>3, <1>4, <1>5, <1>7, <1>8

-----------------------------------------------------------------------------
(* Every step keeps what the mixing loop keeps.                            *)

LEMMA ScoreStays ==
  ASSUME FileInv, [Next]_vars, pc' \notin {"exited", "crashed"}
  PROVE  /\ UNCHANGED <<parameters, disk, chart, rate, shifted>>
         /\ Bars' = Bars /\ Moments' = Moments /\ Bank' = Bank /\ Ringing' = Ringing
         /\ Chorus' = Chorus /\ MusicLength' = MusicLength /\ ChartMusic' = ChartMusic
<1>1. UNCHANGED parameters /\ disk' = disk
  BY FileStep DEF Save, SaveFails, SaveCrashes
<1>2. chart' = chart /\ rate' = rate /\ shifted' = shifted
  BY <1>1 DEF parameters
<1> QED
  BY <1>1, <1>2, SameScore

(* The steps of the mixing loop, and those that are none.                  *)
LEMMA StepsOfPlaying ==
  ASSUME IInv, [Next]_vars
  PROVE  /\ pc \in Playing =>
              \/ InMix \/ MixToBar \/ PassObject \/ StopObject \/ StartObject
              \/ NextBar \/ MixUntilEnd \/ Flush \/ UNCHANGED vars
         /\ pc' \in Playing => pc \in Playing \/ StartMixing
         /\ pc \notin Playing => ~InMix
<1>1. pc \notin Playing => ~InMix
  BY DEF InMix, M!MixChannel, M!EndMix, IInv, Playing
<1>2. pc \in Playing =>
        ~(Refuse \/ PassWord \/ LoadSound \/ StartMixing \/ ChangePitch \/ ChangeRate
            \/ Save \/ SaveFails \/ SaveCrashes)
  BY DEF Playing, Refuse, Loading, PassWord, LoadSound, StartMixing, ChangePitch, ChangeRate,
       Save, SaveFails, SaveCrashes
<1>3. pc \notin Playing =>
        ~(MixToBar \/ PassObject \/ StopObject \/ StartObject \/ NextBar \/ MixUntilEnd \/ Flush)
  BY DEF Playing, MixToBar, PassObject, StopObject, StartObject, NextBar, MixUntilEnd, Flush
<1>4. Refuse \/ PassWord \/ LoadSound \/ ChangePitch \/ ChangeRate
        \/ Save \/ SaveFails \/ SaveCrashes => pc' \notin Playing
  BY DEF Playing, Refuse, Loading, PassWord, LoadSound, ChangePitch, ChangeRate,
       Save, SaveFails, SaveCrashes
<1>5. UNCHANGED vars => pc' = pc
  BY DEF vars
<1> QED
  BY <1>1, <1>2, <1>3, <1>4, <1>5 DEF Next

(* The words' sounds do not change once they are loaded.                   *)
LEMMA PlayingKeepsSounds ==
  ASSUME pc \in Playing, IInv, [Next]_vars
  PROVE  audio' = audio /\ word' = word /\ pc' # "load"
<1>1. CASE InMix
  BY <1>1 DEF InMix, M!MixChannel, M!EndMix, M!chanVars, Playing
<1>2. CASE MixToBar \/ MixUntilEnd
  BY <1>2 DEF MixToBar, MixUntilEnd, M!Mix, M!MixUntilEnd, M!BeginMix, M!chanVars
<1>3. CASE StopObject \/ StartObject
  BY <1>3 DEF StopObject, StartObject, M!Stop, M!Start
<1>4. CASE PassObject \/ NextBar \/ UNCHANGED vars
  BY <1>4 DEF PassObject, NextBar, vars, mixerVars, Playing
<1>5. CASE Flush
  BY <1>5 DEF Flush, M!Flush, M!chanVars
<1> QED
  BY <1>1, <1>2, <1>3, <1>4, <1>5, StepsOfPlaying

LEMMA StepKeepsLoaded ==
  ASSUME IInv, FileInv, P!IInv, Loaded, [Next]_vars
  PROVE  Loaded'
<1> SUFFICES ASSUME pc' \in Playing \cup {"load"} PROVE Loaded'
  BY DEF Loaded
<1>1. Bank' = Bank /\ disk' = disk
  BY ScoreStays DEF Playing
<1>2. CASE pc \in Playing
  BY <1>1, <1>2, PlayingKeepsSounds DEF Loaded
<1>3. CASE LoadSound \/ PassWord
  <2>1. /\ word \in Word /\ word' = word + 1 /\ pc = "load" /\ pc' = "load"
        /\ audio \in [M!Channel -> Seq(MSAMPLE_MIN .. MSAMPLE_MAX)]
        /\ word \in M!Channel /\ M!Channel \subseteq Int
        /\ \A c \in M!Channel : audio[c] = IF c < word THEN Bank[c] ELSE <<>>
    BY <1>3, ChannelsOfWords
       DEF LoadSound, PassWord, Loading, P!IInv, P!TypeOK, M!Channel, P!Channel, Loaded
  <2>2. Bank[word] = Sound(word)
    BY <2>1 DEF Bank
  <2>3. audio' = [audio EXCEPT ![word] = Sound(word)]
    <3>1. CASE PassWord
      <4>1. Sound(word) = <<>> /\ audio' = audio
        BY <3>1, <2>1 DEF PassWord, Loading, Sound, mixerVars
      <4> QED
        BY <4>1, <2>1
    <3>2. CASE LoadSound /\ disk[SoundFile(word)] # Broken
      <4>1. /\ Sound(word) = disk[SoundFile(word)]
            /\ M!LoadFile(word) /\ audio'[word] = Sound(word)
        BY <3>2 DEF LoadSound, Loading, Sound
      <4> QED
        BY <4>1, <2>1 DEF M!LoadFile
    <3>3. CASE LoadSound /\ disk[SoundFile(word)] = Broken
      BY <3>3 DEF LoadSound, Loading, Sound, M!LoadFileFails
    <3> QED
      BY <1>3, <3>1, <3>2, <3>3
  <2>4. \A c \in M!Channel : audio'[c] = IF c < word + 1 THEN Bank[c] ELSE <<>>
    <3>1. \A c \in M!Channel : c < word + 1 <=> c < word \/ c = word
      BY <2>1
    <3> QED
      BY <2>1, <2>2, <2>3, <3>1
  <2> QED
    BY <1>1, <2>1, <2>4 DEF Loaded, Playing
<1>4. CASE StartMixing
  BY <1>1, <1>4 DEF StartMixing, M!StartMixing, Loaded, Playing
<1>5. CASE UNCHANGED vars
  BY <1>1, <1>5 DEF vars, mixerVars, Loaded
<1>6. CASE Refuse \/ ChangePitch \/ ChangeRate \/ Save \/ SaveFails \/ SaveCrashes
  BY <1>6 DEF Refuse, ChangePitch, ChangeRate, Save, SaveFails, SaveCrashes, Playing
<1>7. pc \notin Playing =>
        ~(InMix \/ MixToBar \/ PassObject \/ StopObject \/ StartObject \/ NextBar \/ MixUntilEnd \/ Flush)
  BY StepsOfPlaying
     DEF Playing, MixToBar, PassObject, StopObject, StartObject, NextBar, MixUntilEnd, Flush
<1> QED
  BY <1>2, <1>3, <1>4, <1>5, <1>6, <1>7 DEF Next

LEMMA ObjectsAreNumbered ==
  ASSUME chart \in Charts, NEW b \in Bars
  PROVE  \E n \in Nat : DOMAIN chart.bars[b].objects = 1 .. n
<1> DEFINE R == [time : Nat, objects : Seq(Object)]
<1>1. chart.bars \in Seq(R)
  BY ChartAssumption
<1>2. \A r \in R : r.objects \in Seq(Object)
  OBVIOUS
<1> HIDE DEF R
<1>3. chart.bars[b] \in R
  BY <1>1 DEF Bars
<1> QED
  BY <1>2, <1>3, LenProperties

LEMMA SameRung ==
  ASSUME chart' = chart, Bars' = Bars,
         \A b \in Bars : \A k \in DOMAIN chart.bars[b].objects :
           Struck(chart.bars[b].objects[k]) => (Passed(b, k)' <=> Passed(b, k))
  PROVE  Rung' = Rung
BY DEF Rung, Rings

(* The steps that strike nothing.                                          *)
LEMMA RungStays ==
  ASSUME IInv, chart' = chart, Bars' = Bars,
         InMix \/ MixToBar \/ PassObject \/ StopObject \/ NextBar \/ MixUntilEnd \/ UNCHANGED vars
  PROVE  Rung' = Rung
<1> SUFFICES ASSUME NEW b \in Bars, NEW k \in DOMAIN chart.bars[b].objects,
                    Struck(chart.bars[b].objects[k])
             PROVE  Passed(b, k)' <=> Passed(b, k)
  BY SameRung
<1>1. /\ chart \in Charts /\ bar \in Nat \ {0} /\ object \in Nat \ {0}
      /\ b \in Nat \ {0}
  BY BarsAreNumbers DEF IInv
<1>2. PICK n \in Nat : DOMAIN chart.bars[b].objects = 1 .. n
  BY <1>1, ObjectsAreNumbered
<1>3. CASE InMix \/ MixUntilEnd \/ StopObject \/ UNCHANGED vars
  BY <1>3 DEF InMix, MixUntilEnd, StopObject, vars, Passed
<1>4. CASE MixToBar
  BY <1>1, <1>2, <1>4 DEF MixToBar, Passed
<1>5. CASE PassObject
  <2>1. /\ bar' = bar /\ object' = object + 1 /\ pc' = "object" /\ pc = "object"
        /\ b = bar => k # object
    BY <1>5 DEF PassObject, Objects
  <2> QED
    BY <1>1, <1>2, <2>1 DEF Passed
<1>6. CASE NextBar
  <2>1. /\ bar' = bar + 1 /\ pc' = "bar" /\ pc = "object"
        /\ b = bar => object \notin 1 .. n
    BY <1>2, <1>6 DEF NextBar, Objects
  <2> QED
    BY <1>1, <1>2, <2>1 DEF Passed
<1> QED
  BY <1>3, <1>4, <1>5, <1>6

LEMMA HeadsStay ==
  ASSUME HeadsRight, pc \in Playing \ {"start"}, pc' \in Playing \ {"start"},
         Rung' = Rung, Moments' = Moments, mixing' = mixing, started' = started,
         \A c \in M!Channel : \A b \in Rung[c] : Moments[b] <= tick => Moments[b] <= tick'
  PROVE  HeadsRight'
BY DEF HeadsRight

(* A word that is struck starts at this moment, which no bar before is     *)
(* later than.                                                             *)
LEMMA StartKeepsHeads ==
  ASSUME IInv, P!IInv, HeadsRight, StartObject, chart' = chart, Bars' = Bars, Moments' = Moments
  PROVE  HeadsRight'
<1> DEFINE w == Objects[object].word
<1>1. /\ pc = "start" /\ pc' = "object" /\ bar' = bar /\ object' = object + 1
      /\ chart \in Charts /\ object \in Nat \ {0} /\ bar \in Bars /\ object \in DOMAIN Objects
      /\ phase = "recording" /\ tick' = tick
      /\ mixing' = [mixing EXCEPT ![w] = TRUE] /\ started' = [started EXCEPT ![w] = tick]
  BY DEF StartObject, IInv, M!Start, parameters
<1>2. w \in M!Channel
  BY <1>1, WordsAreChannels
<1> HIDE DEF w
<1>3. tick = Moments[bar] /\ tick \in Nat
  <2>1. tick \in Nat /\ span = 0
    BY <1>1, MixerTypes DEF Playing
  <2>2. Reached = SampleAt(bar) /\ Reached = tick
    BY <1>1, <2>1 DEF IInv, Reached
  <2> QED
    BY <1>1, <2>1, <2>2, BarsAreNumbers
<1>4. \A c \in M!Channel : \A b \in Bars :
        b \in Rung'[c] => b \in Rung[c] \/ (b = bar /\ c = w)
  <2> SUFFICES ASSUME NEW c \in M!Channel, NEW b \in Bars, b \in Rung'[c]
               PROVE  b \in Rung[c] \/ (b = bar /\ c = w)
    OBVIOUS
  <2>1. PICK k \in DOMAIN chart.bars[b].objects :
          Rings(c, b, k) /\ (b < bar \/ (b = bar /\ k < object + 1))
    BY <1>1 DEF Rung, Rings, Passed
  <2>2. k \in Nat
    BY <1>1, ObjectsAreNumbered
  <2>3. k < object + 1 => k < object \/ k = object
    BY <1>1, <2>2
  <2>4. CASE b = bar /\ k = object
    BY <2>1, <2>4 DEF Rings, Objects, w
  <2>5. CASE b < bar \/ (b = bar /\ k < object)
    BY <1>1, <2>1, <2>5 DEF Rung, Passed
  <2> QED
    BY <2>1, <2>3, <2>4, <2>5
<1>5. \A c \in M!Channel : Rung[c] \subseteq Rung'[c] /\ Rung'[c] \subseteq Bars
  <2> SUFFICES ASSUME NEW c \in M!Channel
               PROVE  Rung[c] \subseteq Rung'[c] /\ Rung'[c] \subseteq Bars
    OBVIOUS
  <2>1. Rung'[c] \subseteq Bars
    BY DEF Rung
  <2>2. ASSUME NEW b \in Rung[c] PROVE b \in Rung'[c]
    <3>1. PICK k \in DOMAIN chart.bars[b].objects :
            b \in Bars /\ Rings(c, b, k) /\ (b < bar \/ (b = bar /\ k < object))
      BY <1>1, <2>2 DEF Rung, Passed
    <3>2. k \in Nat
      BY <1>1, <3>1, ObjectsAreNumbered
    <3>3. k < object => k < object + 1
      BY <1>1, <3>2
    <3> QED
      BY <1>1, <3>1, <3>3 DEF Rung, Rings, Passed
  <2> QED
    BY <2>1, <2>2
<1>6. bar \in Rung'[w]
  <2>1. Rings(w, bar, object)
    BY <1>1 DEF Rings, w, Objects, IInv
  <2> QED
    BY <1>1, <1>2, <2>1 DEF Rung, Rings, Passed, Objects
<1>7. /\ mixing \in [M!Channel -> BOOLEAN] /\ started \in [M!Channel -> Int]
  BY <1>1, MixerTypes DEF Playing
<1> SUFFICES ASSUME NEW c \in M!Channel
             PROVE  /\ \A b \in Rung'[c] : Moments[b] <= tick
                    /\ mixing'[c] <=> Rung'[c] # {}
                    /\ \A b \in Rung'[c] : Moments[b] <= started'[c]
                    /\ Rung'[c] # {} => \E b \in Rung'[c] : Moments[b] = started'[c]
  BY <1>1 DEF HeadsRight
<1>8. \A b \in Rung'[c] : Moments[b] <= tick
  <2>1. \A b \in Rung[c] : Moments[b] <= tick
    BY <1>1 DEF HeadsRight, Playing
  <2> QED
    BY <1>3, <1>4, <1>5, <2>1
<1>9. CASE c = w
  BY <1>2, <1>3, <1>1, <1>6, <1>7, <1>8, <1>9
<1>10. CASE c # w
  <2>1. Rung'[c] = Rung[c]
    BY <1>4, <1>5, <1>10
  <2>2. mixing'[c] = mixing[c] /\ started'[c] = started[c]
    BY <1>1, <1>7, <1>10
  <2> QED
    BY <1>1, <1>8, <1>10, <2>1, <2>2 DEF HeadsRight, Playing, w
<1> QED
  BY <1>9, <1>10

LEMMA StepKeepsHeads ==
  ASSUME IInv, FileInv, P!IInv, HeadsRight, [Next]_vars
  PROVE  HeadsRight'
<1> SUFFICES ASSUME pc' \in Playing PROVE HeadsRight'
  BY DEF HeadsRight
<1>1. Bars' = Bars /\ Moments' = Moments /\ chart' = chart
  BY ScoreStays DEF Playing
<1>2. chart \in Charts
  BY DEF IInv
<1>3. CASE StartMixing
  <2>1. bar = 1 /\ bar' = bar /\ pc' = "bar"
    BY <1>3 DEF StartMixing, IInv
  <2>2. \A c \in M!Channel : Rung'[c] = {}
    <3>1. \A b \in Bars : ~(b < 1)
      BY <1>2, BarsAreNumbers
    <3> QED
      BY <1>1, <2>1, <3>1 DEF Rung, Passed
  <2>3. \A c \in M!Channel : ~mixing'[c]
    BY <1>3 DEF StartMixing, M!StartMixing
  <2> QED
    BY <2>1, <2>2, <2>3 DEF HeadsRight
<1>4. CASE InMix
  <2>1. /\ pc' = pc /\ pc # "start" /\ mixing' = mixing /\ started' = started
        /\ tick' = tick \/ tick' = tick + span
    BY <1>4 DEF InMix, M!MixChannel, M!EndMix, M!chanVars, IInv
  <2>2. /\ pc \in Playing /\ tick \in Nat /\ span \in Nat
        /\ \A b \in Bars : Moments[b] \in Nat
    BY <1>2, <2>1, MixerTypes, BarsAreNumbers
  <2>3. \A c \in M!Channel : \A b \in Rung[c] : Moments[b] <= tick => Moments[b] <= tick'
    BY <2>1, <2>2, RungAreBars
  <2>4. Rung' = Rung
    BY <1>1, <1>4, RungStays
  <2> QED
    BY <1>1, <2>1, <2>2, <2>3, <2>4, HeadsStay
<1>5. CASE MixToBar \/ MixUntilEnd \/ PassObject \/ NextBar
  <2>1. /\ pc' # "start" /\ pc \in Playing \ {"start"}
        /\ mixing' = mixing /\ started' = started /\ tick' = tick
    BY <1>5 DEF MixToBar, MixUntilEnd, PassObject, NextBar, M!Mix, M!MixUntilEnd, M!BeginMix,
         M!chanVars, mixerVars, Playing
  <2>2. Rung' = Rung
    BY <1>1, <1>5, RungStays
  <2> QED
    BY <1>1, <2>1, <2>2, HeadsStay
<1>6. CASE StopObject
  <2> DEFINE w == Objects[object].word
  <2>1. /\ pc' = "start" /\ pc = "object" /\ started' = started /\ tick' = tick
        /\ mixing' = [mixing EXCEPT ![w] = FALSE]
        /\ Objects' = Objects /\ object' = object
    BY <1>1, <1>6 DEF StopObject, M!Stop, parameters, Objects
  <2> HIDE DEF w
  <2>2. Rung' = Rung /\ mixing \in [M!Channel -> BOOLEAN]
    BY <1>1, <1>6, <2>1, RungStays, MixerTypes DEF Playing
  <2>3. \A c \in M!Channel : c # w => mixing'[c] = mixing[c]
    BY <2>1, <2>2
  <2> QED
    BY <1>1, <2>1, <2>2, <2>3 DEF HeadsRight, Playing, w
<1>7. CASE StartObject
  BY <1>1, <1>7, StartKeepsHeads
<1>8. CASE UNCHANGED vars
  <2>1. Rung' = Rung /\ Objects' = Objects
    BY <1>1, <1>8, RungStays DEF vars, Objects
  <2> QED
    BY <1>1, <1>8, <2>1 DEF vars, mixerVars, HeadsRight
<1>9. ~Flush
  BY DEF Flush, Playing
<1> QED
  BY <1>3, <1>4, <1>5, <1>6, <1>7, <1>8, <1>9, StepsOfPlaying

(* The head of Mix appends to what has been mixed.                         *)
LEMMA BeginKeepsMixed ==
  ASSUME IInv, P!IInv, pc \in Playing, NEW t \in Nat, M!BeginMix(t)
  PROVE  tick' = tick /\ \A p \in 1 .. tick : samples'[p] = samples[p]
<1>1. samples \in Seq(Int) /\ Len(samples) = tick /\ tick \in Nat
  BY MixerTypes DEF M!BeginMix
<1>2. /\ samples' = samples \o [k \in 1 .. t |-> 0]
      /\ tick' = tick
  BY DEF M!BeginMix
<1>3. Len(samples') = tick + t /\ \A p \in 1 .. Len(samples') : samples'[p] = IF p <= tick THEN samples[p] ELSE 0
  BY <1>1, <1>2, P!ZerosAppended, MixerAssumption
     DEF P!SampleAssumption, P!MixerSizeAssumption,
         P!SoundsAssumption, P!UnsetAssumption, P!MaxTickAssumption
<1>4. \A p \in 1 .. tick : p \in 1 .. Len(samples') /\ p <= tick
  BY <1>1, <1>3
<1> QED
  BY <1>2, <1>3, <1>4

LEMMA StepKeepsRecorded ==
  ASSUME IInv, FileInv, P!IInv, P!IInv', P!MixInv, ScoreInv, [Next]_vars
  PROVE  Recorded'
<1> SUFFICES ASSUME pc' \in Playing PROVE Recorded'
  BY DEF Recorded
<1>1. Chorus' = Chorus
  BY ScoreStays DEF Playing
<1>2. CASE StartMixing
  BY <1>2 DEF StartMixing, M!StartMixing, Recorded
<1>3. CASE InMix /\ M!MixChannel
  <2>1. pc \in Playing /\ phase = "inMix" /\ tick' = tick
    BY <1>3 DEF InMix, M!MixChannel
  <2>2. tick \in Nat /\ span \in Nat /\ DOMAIN samples = 1 .. tick + span
    BY <2>1, MixerTypes, LenProperties
  <2>3. \A p \in 1 .. tick : samples'[p] = samples[p]
    <3> SUFFICES ASSUME NEW p \in 1 .. tick PROVE samples'[p] = samples[p]
      OBVIOUS
    <3>1. p \in DOMAIN samples /\ p \notin tick + 1 .. tick + span
      BY <2>2
    <3> QED
      BY <1>3, <3>1 DEF M!MixChannel
  <2> QED
    BY <1>1, <2>1, <2>3 DEF Recorded, ScoreInv
<1>4. CASE InMix /\ M!EndMix
  <2>1. /\ pc \in Playing /\ phase = "inMix" /\ i = MIXERSIZE
        /\ tick' = tick + span /\ samples' = samples
    BY <1>4 DEF InMix, M!EndMix
  <2>2. tick \in Nat /\ span \in Nat
    BY <2>1, MixerTypes
  <2>3. \A p \in 1 .. tick : samples[p] = Chorus[p - 1]
    BY <2>1 DEF ScoreInv, Recorded
  <2>4. \A p \in tick + 1 .. tick + span : samples[p] = Chorus[p - 1]
    BY <2>1, MixedIsChorus DEF ScoreInv
  <2>5. \A p \in 1 .. tick + span : p \in 1 .. tick \/ p \in tick + 1 .. tick + span
    BY <2>2
  <2> QED
    BY <1>1, <2>1, <2>3, <2>4, <2>5 DEF Recorded
<1>5. CASE MixToBar \/ MixUntilEnd
  <2>1. pc \in Playing
    BY <1>5 DEF MixToBar, MixUntilEnd, Playing
  <2>2. PICK t : M!BeginMix(t) /\ span' = t
    BY <1>5 DEF MixToBar, MixUntilEnd, M!Mix, M!MixUntilEnd, M!BeginMix
  <2>3. t \in Nat
    BY <2>2 DEF P!IInv, P!TypeOK
  <2>4. tick' = tick /\ \A p \in 1 .. tick : samples'[p] = samples[p]
    BY <2>1, <2>2, <2>3, BeginKeepsMixed
  <2> QED
    BY <1>1, <2>1, <2>4 DEF Recorded, ScoreInv
<1>6. CASE PassObject \/ NextBar \/ StopObject \/ StartObject \/ UNCHANGED vars
  <2>1. tick' = tick /\ samples' = samples /\ pc \in Playing
    BY <1>6 DEF PassObject, NextBar, StopObject, StartObject, M!Stop, M!Start, mixerVars, vars, Playing
  <2> QED
    BY <1>1, <2>1 DEF Recorded, ScoreInv
<1>7. ~Flush
  BY DEF Flush, Playing
<1>8. InMix => M!MixChannel \/ M!EndMix
  BY DEF InMix
<1> QED
  BY <1>2, <1>3, <1>4, <1>5, <1>6, <1>7, <1>8, StepsOfPlaying

(* When the bars are over, the channel that has most left plays to the end *)
(* of the music, unless the last bar is that end.                          *)
LEMMA LongestReachesTheEnd ==
  ASSUME IInv, P!IInv, Loaded, HeadsRight, pc = "bar", bar \notin Bars, phase = "recording"
  PROVE  /\ tick + M!LongestRemaining = MusicLength
         /\ \A b \in Bars : b < bar
<1>1. /\ chart \in Charts /\ tick \in Nat /\ Reached = tick
      /\ mixing \in [M!Channel -> BOOLEAN] /\ started \in [M!Channel -> Int]
      /\ audio \in [M!Channel -> Seq(MSAMPLE_MIN .. MSAMPLE_MAX)]
      /\ bar \in Nat \ {0} /\ (bar = 1 \/ bar - 1 \in Bars)
      /\ Reached = IF bar = 1 THEN 0 ELSE SampleAt(bar - 1)
  BY MixerTypes DEF IInv, Reached, Playing
<1>2. \A b \in Bars : b < bar
  BY <1>1, BarsAreNumbers
<1>3. \A c \in M!Channel : Rung[c] = Ringing[c]
  BY <1>2 DEF Rung, Ringing, Passed
<1>4. \A b \in Bars : 2 * FrameOfBar(b) = Moments[b] /\ Moments[b] \in Nat /\ Moments[b] <= tick
  <2> SUFFICES ASSUME NEW b \in Bars
               PROVE  2 * FrameOfBar(b) = Moments[b] /\ Moments[b] \in Nat /\ Moments[b] <= tick
    OBVIOUS
  <2>1. 2 * FrameOfBar(b) = Moments[b] /\ Moments[b] = SampleAt(b) /\ Moments[b] \in Nat
    BY <1>1, FrameIsSample, BarsAreNumbers
  <2>2. b < bar /\ b \in Nat \ {0}
    BY <1>1, <1>2, BarsAreNumbers
  <2>3. bar - 1 \in Bars /\ b <= bar - 1
    BY <1>1, <2>2
  <2>4. SampleAt(b) <= SampleAt(bar - 1)
    BY <1>1, <2>3, BarsAscend
  <2>5. bar # 1
    BY <1>1, <2>2
  <2> QED
    BY <1>1, <2>1, <2>4, <2>5
<1> DEFINE Left(c) == Len(audio[c]) - (tick - started[c])
<1>5. /\ M!LongestRemaining \in Nat
      /\ \A c \in M!Channel : M!RemainingTick(c) <= M!LongestRemaining
      /\ \E c \in M!Channel : M!RemainingTick(c) = M!LongestRemaining
  <2>1. P!LongestRemaining = M!LongestRemaining
    BY DEF P!LongestRemaining, M!LongestRemaining, P!RemainingTick, M!RemainingTick,
         P!Channel, M!Channel
  <2>2. \A c : P!RemainingTick(c) = M!RemainingTick(c)
    BY DEF P!RemainingTick, M!RemainingTick
  <2>3. P!TypeOK /\ P!Channel = M!Channel
    BY DEF P!IInv, P!Channel, M!Channel
  <2> QED
    BY <2>1, <2>2, <2>3, P!LongestRemainingIsLongest, MixerAssumption
       DEF P!SampleAssumption, P!MixerSizeAssumption,
           P!SoundsAssumption, P!UnsetAssumption, P!MaxTickAssumption
<1>6. \A c \in M!Channel :
        /\ Left(c) \in Int /\ Len(audio[c]) \in Nat
        /\ M!RemainingTick(c) = IF ~mixing[c] \/ Left(c) < 0 THEN 0 ELSE Left(c)
  BY <1>1, LenProperties DEF M!RemainingTick
<1>7. \A c \in M!Channel : mixing[c] =>
        /\ \A b \in Ringing[c] : Moments[b] <= started[c]
        /\ \E b \in Ringing[c] : Moments[b] = started[c]
  BY <1>3 DEF HeadsRight, Playing
<1>8. \A c \in M!Channel : mixing[c] <=> Ringing[c] # {}
  BY <1>3 DEF HeadsRight, Playing
<1>9. ASSUME NEW w \in Word
      PROVE  /\ w \in M!Channel /\ audio[w] = Sound(w)
             /\ Strikes(w) # {} <=> mixing[w]
             /\ mixing[w] => Greatest(Strikes(w)) = started[w]
  <2>1. w \in M!Channel /\ w < word
    BY ChannelsOfWords DEF Loaded, Playing, Word
  <2>2. audio[w] = Sound(w)
    BY <2>1 DEF Loaded, Playing, Bank
  <2>3. \A b \in Ringing[w] : SampleAt(b) = Moments[b] /\ Moments[b] \in Nat
    BY <1>1, <2>1, RungAreBars, BarsAreNumbers
  <2>4. Strikes(w) = {Moments[b] : b \in Ringing[w]}
    BY <1>1, <2>3, StrikesAreRinging
  <2>5. mixing[w] => Greatest(Strikes(w)) = started[w]
    <3> SUFFICES ASSUME mixing[w] PROVE Greatest(Strikes(w)) = started[w]
      OBVIOUS
    <3>1. Strikes(w) \subseteq Int
      BY <2>3, <2>4
    <3>2. started[w] \in Strikes(w) /\ \A n \in Strikes(w) : n <= started[w]
      BY <1>7, <2>1, <2>4
    <3> QED
      BY <3>1, <3>2, GreatestIs
  <2> QED
    BY <1>8, <2>1, <2>2, <2>4, <2>5
<1> HIDE DEF Left
<1> DEFINE ends == {Greatest(Strikes(w)) + Len(Sound(w)) : w \in {v \in Word : Strikes(v) # {}}}
           all == {0} \cup {2 * FrameOfBar(b) : b \in Bars} \cup ends
           m == tick + M!LongestRemaining
<1>10. \A x \in ends : \E w \in Word : mixing[w] /\ x = started[w] + Len(audio[w])
  BY <1>9
<1>11. \A w \in Word : mixing[w] => started[w] + Len(audio[w]) \in ends
  BY <1>9
<1> HIDE DEF ends
<1>12. \A x \in ends : x \in Int /\ x <= m
  <2> SUFFICES ASSUME NEW x \in ends PROVE x \in Int /\ x <= m
    OBVIOUS
  <2>1. PICK w \in Word : mixing[w] /\ x = started[w] + Len(audio[w])
    BY <1>10
  <2>2. w \in M!Channel /\ started[w] \in Int /\ Len(audio[w]) \in Nat
    BY <1>1, <1>6, <1>9
  <2>3. Left(w) <= M!LongestRemaining
    BY <1>5, <1>6, <2>1, <2>2
  <2> QED
    BY <1>1, <1>5, <2>1, <2>2, <2>3 DEF Left
<1>13. m \in all
  <2>1. PICK c \in M!Channel : M!RemainingTick(c) = M!LongestRemaining
    BY <1>5
  <2>2. CASE M!LongestRemaining = 0
    <3>1. m = IF bar = 1 THEN 0 ELSE SampleAt(bar - 1)
      BY <1>1, <2>2
    <3>2. bar # 1 => SampleAt(bar - 1) = 2 * FrameOfBar(bar - 1)
      BY <1>1, FrameIsSample
    <3> QED
      BY <1>1, <3>1, <3>2
  <2>3. CASE M!LongestRemaining # 0
    <3>1. mixing[c] /\ M!LongestRemaining = Left(c)
      BY <1>6, <2>1, <2>3
    <3>2. c \in Word
      <4>1. CASE c \notin Word
        <5>1. audio[c] = <<>>
          BY <4>1, ChannelsOfWords DEF Loaded, Playing, Word, M!Channel
        <5>2. started[c] <= tick
          BY <1>3, <1>7, <3>1 DEF HeadsRight, Playing
        <5>3. Left(c) <= 0
          BY <1>1, <5>1, <5>2 DEF Left
        <5> QED
          BY <1>5, <2>3, <3>1, <5>3
      <4> QED
        BY <4>1
    <3>3. m = started[c] + Len(audio[c])
      <4>1. tick \in Int /\ started[c] \in Int /\ Len(audio[c]) \in Int
        BY <1>1, <1>6
      <4>2. M!LongestRemaining = Len(audio[c]) - (tick - started[c])
        BY <3>1 DEF Left
      <4> HIDE DEF all
      <4> QED
        BY <4>1, <4>2
    <3> QED
      BY <1>11, <3>1, <3>2, <3>3
  <2> QED
    BY <2>2, <2>3
<1>14. all \subseteq Int /\ \A x \in all : x <= m
  <2>1. 0 \in Int /\ 0 <= m
    BY <1>1, <1>5
  <2>2. \A b \in Bars : 2 * FrameOfBar(b) \in Int /\ 2 * FrameOfBar(b) <= m
    <3> SUFFICES ASSUME NEW b \in Bars
                 PROVE  2 * FrameOfBar(b) \in Int /\ 2 * FrameOfBar(b) <= m
      OBVIOUS
    <3>1. 2 * FrameOfBar(b) = Moments[b] /\ Moments[b] \in Nat /\ Moments[b] <= tick
      BY <1>4
    <3> QED
      BY <1>1, <1>5, <3>1
  <2>3. \A x \in all : x = 0 \/ x \in ends \/ \E b \in Bars : x = 2 * FrameOfBar(b)
    OBVIOUS
  <2> HIDE DEF all, m
  <2> QED
    BY <1>12, <2>1, <2>2, <2>3
<1>15. MusicLength = Greatest(all)
  BY DEF MusicLength, ends
<1> HIDE DEF all, m
<1>16. MusicLength = m
  BY <1>13, <1>14, <1>15, GreatestIs
<1> QED
  BY <1>2, <1>16 DEF m

LEMMA StepKeepsEnd ==
  ASSUME IInv, FileInv, P!IInv, ScoreInv, [Next]_vars
  PROVE  EndReached'
<1> SUFFICES ASSUME pc' = "flush" PROVE EndReached'
  BY DEF EndReached
<1>1. /\ MusicLength' = MusicLength /\ Bars' = Bars /\ EndReached
  BY ScoreStays DEF ScoreInv
<1>2. CASE MixUntilEnd
  <2>1. /\ pc = "bar" /\ bar \notin Bars /\ bar' = bar /\ phase = "recording"
        /\ tick' = tick /\ span' = M!LongestRemaining
    BY <1>2 DEF MixUntilEnd, M!MixUntilEnd, M!BeginMix
  <2>2. tick + M!LongestRemaining = MusicLength /\ \A b \in Bars : b < bar
    BY <2>1, LongestReachesTheEnd DEF ScoreInv
  <2> QED
    BY <1>1, <2>1, <2>2 DEF EndReached, Reached
<1>3. CASE InMix
  <2>1. pc = "flush" /\ bar' = bar
    BY <1>3 DEF InMix
  <2>2. tick \in Nat /\ span \in Nat
    BY <2>1, MixerTypes DEF Playing
  <2>3. Reached' = Reached
    BY <1>3, <2>2 DEF InMix, M!MixChannel, M!EndMix, Reached
  <2> QED
    BY <1>1, <2>1, <2>3 DEF EndReached
<1>4. CASE UNCHANGED vars
  BY <1>1, <1>4 DEF vars, mixerVars, EndReached, Reached
<1>5. pc \in Playing
  BY StepsOfPlaying DEF Playing, StartMixing
<1>6. ~(MixToBar \/ PassObject \/ StopObject \/ StartObject \/ NextBar \/ Flush)
  BY DEF MixToBar, PassObject, StopObject, StartObject, NextBar, Flush
<1> QED
  BY <1>2, <1>3, <1>4, <1>5, <1>6, StepsOfPlaying

(* Flush cuts the chorus, which normalizing does not change.               *)
LEMMA FlushedIsChart ==
  ASSUME IInv, P!IInv, Recorded, EndReached, Flush
  PROVE  music' = ChartMusic
<1>1. /\ pc = "flush" /\ M!Flush(TRUE) /\ phase = "recording" /\ music' = out'
  BY DEF Flush, M!Flush
<1>2. /\ tick \in Nat /\ Reached = tick /\ tick = MusicLength
      /\ samples \in Seq(Int) /\ Len(samples) = tick /\ DOMAIN samples = 1 .. tick
  BY <1>1, MixerTypes, LenProperties DEF Playing, Reached, EndReached
<1>3. M!Normalized(samples) = samples
  <2>1. P!Normalized(samples) = samples
    BY <1>2, P!NormalizingChangesNothing, MixerAssumption
       DEF P!SampleAssumption, P!MixerSizeAssumption,
           P!SoundsAssumption, P!UnsetAssumption, P!MaxTickAssumption
  <2>2. M!Normalized(samples) = P!Normalized(samples)
    BY DEF M!Normalized, P!Normalized, M!NormalizeRatio, P!NormalizeRatio,
         M!ProposedRatio, P!ProposedRatio, M!AtLeast, P!AtLeast, M!Scale, P!Scale
  <2> QED
    BY <2>1, <2>2
<1>4. out' = [p \in 1 .. MusicLength |-> M!Cut(samples[p])]
  BY <1>1, <1>2, <1>3 DEF M!Flush
<1>5. \A p \in 1 .. MusicLength :
        samples[p] = SumUpTo([w \in Word |-> Heard(w, p - 1)], WORD_MAX_COUNT)
  <2> SUFFICES ASSUME NEW p \in 1 .. MusicLength
               PROVE  samples[p] = SumUpTo([w \in Word |-> Heard(w, p - 1)], WORD_MAX_COUNT)
    OBVIOUS
  <2>1. samples[p] = Chorus[p - 1] /\ p - 1 \in Nat
    BY <1>1, <1>2 DEF Recorded, Playing
  <2> QED
    BY <2>1 DEF Chorus
<1> QED
  BY <1>1, <1>4, <1>5 DEF ChartMusic

LEMMA StepKeepsMusic ==
  ASSUME IInv, FileInv, P!IInv, ScoreInv, [Next]_vars
  PROVE  MusicRight'
<1> SUFFICES ASSUME pc' \in {"pitch", "rate", "save"} PROVE MusicRight'
  BY DEF MusicRight
<1>1. /\ ChartMusic' = ChartMusic /\ rate' = rate /\ shifted' = shifted
      /\ Shifted(ChartMusic)' = Shifted(ChartMusic)
  BY ScoreStays DEF Shifted
<1>2. CASE Flush
  BY <1>1, <1>2, FlushedIsChart DEF Flush, ScoreInv, MusicRight
<1>3. CASE ChangePitch
  BY <1>1, <1>3 DEF ChangePitch, ScoreInv, MusicRight, Shifted
<1>4. CASE ChangeRate
  <2>1. /\ pc = "rate" /\ pc' = "save" /\ music = Shifted(ChartMusic) /\ IsList(music)
        /\ rate \in Speed
    BY <1>4 DEF ChangeRate, ScoreInv, MusicRight, FileInv
  <2>2. IF rate[1] = rate[2] THEN music' = music
        ELSE \E behind \in Leftover \X Leftover : music' = Resampled(music, Clamped(rate), behind)
    BY <1>4 DEF ChangeRate
  <2>3. IF rate[1] = rate[2] THEN music' = music ELSE ResampledBy(music', music, Clamped(rate))
    BY <2>1, <2>2, ResampledIsList
  <2>4. Clamped(rate)' = Clamped(rate)
    BY <1>1 DEF Clamped, Faster
  <2> QED
    BY <1>1, <2>1, <2>3, <2>4 DEF MusicRight
<1>5. CASE UNCHANGED vars
  BY <1>1, <1>5 DEF vars, ScoreInv, MusicRight
<1>6. ~InMix
  BY DEF InMix, M!MixChannel, M!EndMix, IInv
<1>7. ~(Refuse \/ PassWord \/ LoadSound \/ StartMixing \/ MixToBar \/ PassObject \/ StopObject
          \/ StartObject \/ NextBar \/ MixUntilEnd \/ Save \/ SaveFails \/ SaveCrashes)
  BY DEF Refuse, Loading, PassWord, LoadSound, StartMixing, MixToBar, PassObject, StopObject,
       StartObject, NextBar, MixUntilEnd, Save, SaveFails, SaveCrashes
<1> QED
  BY <1>2, <1>3, <1>4, <1>5, <1>6, <1>7 DEF Next

(* For every chart, every set of files and every way the mixer works them  *)
(* off, what main is about to write is the music that the chart defines,   *)
(* in the pitch and at the speed asked for, slow ones included             *)
(* (main.cpp:212-341).                                                     *)
THEOREM ConvertsChart == Spec => []RendersChart
<1>1. Init => ScoreInv
  <2> SUFFICES ASSUME Init PROVE ScoreInv
    OBVIOUS
  <2>1. pc = "load" /\ word = 0 /\ audio = [c \in M!Channel |-> <<>>]
    BY DEF Init, M!Init
  <2>2. \A c \in M!Channel : ~(c < 0)
    BY MixerAssumption DEF M!Channel
  <2>3. Loaded
    BY <2>1, <2>2 DEF Loaded, Playing
  <2> QED
    BY <2>1, <2>3 DEF ScoreInv, HeadsRight, Recorded, EndReached, MusicRight, Playing
<1>2. IInv /\ FileInv /\ P!IInv /\ P!IInv' /\ P!MixInv /\ ScoreInv /\ [Next]_vars => ScoreInv'
  BY StepKeepsLoaded, StepKeepsHeads, StepKeepsRecorded, StepKeepsEnd, StepKeepsMusic
     DEF ScoreInv
<1>3. ScoreInv => RendersChart
  BY DEF ScoreInv, MusicRight, RendersChart
<1> QED
  BY <1>1, <1>2, <1>3, IInvHolds, FileInvHolds, MixerIsTyped, PTL DEF Spec
=============================================================================
