-------------------------------- MODULE Mixer --------------------------------
(***************************************************************************)
(* The Mixer class of bmx2ogg/audio.cpp.  A channel holds the Audio it     *)
(* plays, whether it is mixing, and the tick at which it was started; the  *)
(* play position is never stored, it is the difference of two ticks.       *)
(* Mix(t) appends t zeros to `samples' and then goes through the channels, *)
(* adding each one's samples to the new positions; it is modelled one      *)
(* channel per step, because the accumulator's bounds hold only along that *)
(* loop.  Every other member function is one step.                         *)
(*                                                                         *)
(* samples[p] of the code is samples[p + 1] here, and pos of its AudioData *)
(* is Len(samples).  Ticks count samples, not frames.                      *)
(***************************************************************************)
EXTENDS Integers, Sequences, FiniteSets

CONSTANTS
  MIXERSIZE,     \* number of channels (audio.h:15)
  MSAMPLE_MIN,   \* least and greatest value of an output sample
  MSAMPLE_MAX,   \*   (audio.h:32-33)
  Sounds,        \* what an audio file may hold: sequences of samples
  Unset,         \* values of an int nobody has assigned yet
  MaxTick        \* bound: Mix is not asked to go beyond this tick,
                 \*   and MixUntilEnd is not called beyond it

ASSUME MixerSizeAssumption == MIXERSIZE \in Nat \ {0}
ASSUME SampleAssumption ==
  /\ MSAMPLE_MIN \in Int
  /\ MSAMPLE_MAX \in Int
  /\ MSAMPLE_MIN < 0
  /\ MSAMPLE_MAX > 0
ASSUME SoundsAssumption == Sounds \subseteq Seq(MSAMPLE_MIN .. MSAMPLE_MAX)
ASSUME UnsetAssumption == Unset \subseteq Int
ASSUME MaxTickAssumption == MaxTick \in Nat /\ \A s \in Sounds : Len(s) <= MaxTick

Channel == 0 .. MIXERSIZE - 1

VARIABLES
  audio,         \* channel[c].audio, as the sequence of its samples
  mixing,        \* channel[c].mixing
  started,       \* channel[c].tick: the tick at which c was started
  tick,          \* the current tick
  samples,       \* the accumulator, of MSample
  out,           \* the Audio that Flush fills
  pc,            \* which member function may run: see Phase
  i,             \* the channel loop's index while Mix runs
  span,          \* Mix's argument t while it runs
  rest           \* history: what MixUntilEnd mixed, if it was the last call,
                 \*   and NoRest otherwise

chanVars == <<audio, mixing, started>>
loopVars == <<i, span>>
NoRest == -1
vars == <<audio, mixing, started, tick, samples, out, pc, i, span, rest>>

(***************************************************************************)
(* The order main (bmx2wav_main.cpp:210-291) uses the class in: files are  *)
(* loaded, StartMixing, any number of Mix / Stop / Start, MixUntilEnd and  *)
(* Flush, after which only the destructor runs.  "inMix" is inside the     *)
(* channel loop of Mix.                                                    *)
(***************************************************************************)
Phase == {"loading", "recording", "inMix", "flushed"}

TypeOK ==
  /\ audio \in [Channel -> Seq(MSAMPLE_MIN .. MSAMPLE_MAX)]
  /\ mixing \in [Channel -> BOOLEAN]
  /\ started \in [Channel -> Int]
  /\ tick \in Int
  /\ samples \in Seq(Int)
  /\ out \in Seq(MSAMPLE_MIN .. MSAMPLE_MAX)
  /\ pc \in Phase
  /\ i \in 0 .. MIXERSIZE
  /\ span \in Nat
  /\ rest \in Nat \cup {NoRest}

-----------------------------------------------------------------------------
(* Helpers: the private member functions.                                  *)

InRecording == pc \in {"recording", "inMix"}

(* Audio::Get at a position that is not negative.                          *)
Get(a, p) == IF p >= Len(a) THEN 0 ELSE a[p + 1]

(* Mutant: the time already played is not subtracted.                      *)
RemainingTickUnplayed(c) == IF ~mixing[c] THEN 0 ELSE Len(audio[c])

(* RemainingTick(c): how many samples channel c still has to play.         *)
RemainingTick(c) ==
  LET r == Len(audio[c]) - (tick - started[c])
  IN  IF ~mixing[c] \/ r < 0 THEN 0 ELSE r

(* The channel's sound has been played to its last sample.                 *)
HasEnded(c) == Len(audio[c]) <= tick - started[c]

(* IsStopped(c), without its side effect.                                  *)
IsStopped(c) == ~mixing[c] \/ HasEnded(c)

(* MixUntilEnd's maximum of RemainingTick over the channels.               *)
LongestRemaining ==
  CHOOSE r \in {RemainingTick(c) : c \in Channel} :
    \A c \in Channel : RemainingTick(c) <= r

-----------------------------------------------------------------------------
(* Flush's arithmetic.  A ratio is a pair <<numerator, denominator>> of    *)
(* positive integers.                                                      *)

AtLeast(q, r) == q[1] * r[2] >= r[1] * q[2]

(* What one sample proposes as the ratio.                                  *)
ProposedRatio(s) ==
  IF s > MSAMPLE_MAX THEN <<MSAMPLE_MAX, s>>
  ELSE IF s < MSAMPLE_MIN THEN <<-MSAMPLE_MIN, -s>>
  ELSE <<1, 1>>

(* The std::max over 1.0 and the proposals of all samples.                 *)
NormalizeRatio(s) ==
  LET proposals == {<<1, 1>>} \cup {ProposedRatio(s[p]) : p \in DOMAIN s}
  IN  CHOOSE q \in proposals : \A r \in proposals : AtLeast(q, r)

(* samples[i] * ratio, stored into an int: the fraction is cut off.        *)
Scale(s, q) ==
  IF s >= 0 THEN (s * q[1]) \div q[2] ELSE -((-s * q[1]) \div q[2])

(* Mutant: the lower limit is forgotten.                                   *)
CutAboveOnly(s) == IF s > MSAMPLE_MAX THEN MSAMPLE_MAX ELSE s

Cut(s) == IF s > MSAMPLE_MAX THEN MSAMPLE_MAX
          ELSE IF s < MSAMPLE_MIN THEN MSAMPLE_MIN ELSE s

Normalized(s) == LET q == NormalizeRatio(s) IN [p \in DOMAIN s |-> Scale(s[p], q)]

-----------------------------------------------------------------------------

(* The Mixer constructor: every Audio is empty; mixing, tick and the start *)
(* ticks have no initializer.                                              *)
Init ==
  /\ audio = [c \in Channel |-> <<>>]
  /\ mixing \in [Channel -> BOOLEAN]
  /\ started \in [Channel -> Unset]
  /\ tick \in Unset
  /\ samples = <<>>
  /\ out = <<>>
  /\ pc = "loading"
  /\ i = 0
  /\ span = 0
  /\ rest = NoRest

(* LoadFile(c, path) that reads the file: Release, then the file's samples. *)
LoadFile(c) ==
  /\ pc = "loading"
  /\ \E s \in Sounds : audio' = [audio EXCEPT ![c] = s]
  /\ UNCHANGED <<mixing, started, tick, samples, out, pc, loopVars, rest>>

(* LoadFile(c, path) that cannot open the file: what Release left is empty. *)
LoadFileFails(c) ==
  /\ pc = "loading"
  /\ audio' = [audio EXCEPT ![c] = <<>>]
  /\ UNCHANGED <<mixing, started, tick, samples, out, pc, loopVars, rest>>

(* Release, which only the destructor calls: every channel becomes empty.  *)
Release ==
  /\ pc = "flushed"
  /\ audio' = [c \in Channel |-> <<>>]
  /\ UNCHANGED <<mixing, started, tick, samples, out, pc, loopVars, rest>>

(* Mutant: the current tick is not reset.                                  *)
StartMixingKeepingTick ==
  /\ pc = "loading"
  /\ pc' = "recording"
  /\ mixing' = [c \in Channel |-> FALSE]
  /\ started' = [c \in Channel |-> 0]
  /\ samples' = <<>>
  /\ rest' = NoRest
  /\ UNCHANGED <<audio, tick, out, loopVars>>

(* StartMixing, the reset before a recording.                              *)
StartMixing ==
  /\ pc = "loading"
  /\ pc' = "recording"
  /\ tick' = 0
  /\ mixing' = [c \in Channel |-> FALSE]
  /\ started' = [c \in Channel |-> 0]
  /\ samples' = <<>>
  /\ rest' = NoRest
  /\ UNCHANGED <<audio, out, loopVars>>

Start(c) ==
  /\ pc = "recording"
  /\ mixing' = [mixing EXCEPT ![c] = TRUE]
  /\ started' = [started EXCEPT ![c] = tick]
  /\ rest' = NoRest
  /\ UNCHANGED <<audio, tick, samples, out, pc, loopVars>>

Stop(c) ==
  /\ pc = "recording"
  /\ mixing' = [mixing EXCEPT ![c] = FALSE]
  /\ rest' = NoRest
  /\ UNCHANGED <<audio, started, tick, samples, out, pc, loopVars>>

(* The head of Mix(t): t zeros, and the channel loop begins.               *)
BeginMix(t) ==
  /\ pc = "recording"
  /\ pc' = "inMix"
  /\ samples' = samples \o [k \in 1 .. t |-> 0]
  /\ i' = 0
  /\ span' = t
  /\ UNCHANGED <<chanVars, tick, out>>

Mix(t) == BeginMix(t) /\ rest' = NoRest

MixUntilEnd == BeginMix(LongestRemaining) /\ rest' = LongestRemaining

(* Mutant: the channel is read as if it had been started with the recording. *)
MixChannelFromTickZero ==
  /\ pc = "inMix"
  /\ i < MIXERSIZE
  /\ i' = i + 1
  /\ samples' = IF mixing[i]
                THEN [p \in DOMAIN samples |->
                        IF p \in tick + 1 .. tick + span
                        THEN samples[p] + Get(audio[i], p - 1)
                        ELSE samples[p]]
                ELSE samples
  /\ UNCHANGED <<chanVars, tick, out, pc, span, rest>>

(* One turn of the channel loop: the channel's samples are added to the    *)
(* positions tick .. tick + t - 1.                                         *)
MixChannel ==
  /\ pc = "inMix"
  /\ i < MIXERSIZE
  /\ i' = i + 1
  /\ samples' = IF mixing[i]
                THEN [p \in DOMAIN samples |->
                        IF p \in tick + 1 .. tick + span
                        THEN samples[p] + Get(audio[i], p - 1 - started[i])
                        ELSE samples[p]]
                ELSE samples
  /\ UNCHANGED <<chanVars, tick, out, pc, span, rest>>

(* Mutant: `tick += t' is forgotten.                                       *)
EndMixKeepingTick ==
  /\ pc = "inMix"
  /\ i = MIXERSIZE
  /\ pc' = "recording"
  /\ i' = 0
  /\ span' = 0
  /\ UNCHANGED <<chanVars, tick, samples, out, rest>>

(* The tail of Mix(t).                                                     *)
EndMix ==
  /\ pc = "inMix"
  /\ i = MIXERSIZE
  /\ pc' = "recording"
  /\ tick' = tick + span
  /\ i' = 0
  /\ span' = 0
  /\ UNCHANGED <<chanVars, samples, out, rest>>

(* IsAllAudioStopped asks the channels in turn until one is not stopped,   *)
(* and IsStopped clears `mixing' of a channel whose sound has ended.       *)
IsAllAudioStopped ==
  /\ pc = "recording"
  /\ mixing' = [c \in Channel |->
                  IF \A d \in 0 .. c : IsStopped(d) THEN FALSE ELSE mixing[c]]
  /\ rest' = NoRest
  /\ UNCHANGED <<audio, started, tick, samples, out, pc, loopVars>>

(* audio_out.Create(), then Flush(&audio_out, normalize).                  *)
Flush(normalize) ==
  /\ pc = "recording"
  /\ pc' = "flushed"
  /\ LET mixed == IF normalize THEN Normalized(samples) ELSE samples
     IN  out' = [p \in DOMAIN mixed |-> Cut(mixed[p])]
  /\ samples' = <<>>
  /\ rest' = NoRest
  /\ UNCHANGED <<chanVars, tick, loopVars>>

Next ==
  \/ \E c \in Channel : LoadFile(c)
  \/ \E c \in Channel : LoadFileFails(c)
  \/ Release
  \/ StartMixing
  \/ \E c \in Channel : Start(c)
  \/ \E c \in Channel : Stop(c)
  \/ \E t \in 0 .. MaxTick - tick : Mix(t)
  \/ tick <= MaxTick /\ MixUntilEnd
  \/ MixChannel
  \/ EndMix
  \/ IsAllAudioStopped
  \/ \E n \in BOOLEAN : Flush(n)

Spec == Init /\ [][Next]_vars

-----------------------------------------------------------------------------
(* Mix writes samples[_t] for _t in tick .. tick + t - 1 and reads the     *)
(* channel's audio at _t - started (audio.cpp:211-219), and neither index  *)
(* is tested against 0 or against the buffer's size.  Both are in range    *)
(* because the buffer holds exactly tick samples between two calls, and    *)
(* because no channel that is mixing was started in the future.            *)
IndicesInRange ==
  /\ InRecording => tick >= 0
  /\ pc = "recording" => Len(samples) = tick
  /\ pc = "inMix" => Len(samples) = tick + span
  /\ InRecording => \A c \in Channel : mixing[c] => started[c] \in 0 .. tick

(* The accumulator is an int (audio.h:31) and adds up to MIXERSIZE shorts  *)
(* with no overflow check: after the loop has seen n channels no sample is *)
(* beyond n full-scale samples.                                            *)
Headroom ==
  LET n == IF pc = "inMix" THEN i ELSE MIXERSIZE
  IN  \A p \in DOMAIN samples :
        LET m == IF p <= tick THEN MIXERSIZE ELSE n
        IN  samples[p] \in m * MSAMPLE_MIN .. m * MSAMPLE_MAX

(* "mix until all audio stops playing" (audio.h:138): after MixUntilEnd no *)
(* channel has a sample left to play, and, unless there was nothing to     *)
(* play, some channel plays its very last sample on the last position:     *)
(* the recording is neither truncated nor padded with silence.             *)
MixUntilEndDrains ==
  rest # NoRest /\ pc = "recording" =>
    /\ \A c \in Channel : IsStopped(c)
    /\ rest > 0 => \E c \in Channel : mixing[c] /\ started[c] + Len(audio[c]) = tick

(* The mixer is the sum of its play heads (module SoundMix), although it   *)
(* stores start ticks and clears `mixing' of an ended sound only when      *)
(* IsAllAudioStopped happens to ask.                                       *)
Promise == INSTANCE SoundMix WITH
  Channels <- MIXERSIZE,
  SMin <- MSAMPLE_MIN,
  SMax <- MSAMPLE_MAX,
  Lifted <- -1,
  MaxSpan <- MaxTick,
  sound <- audio,
  head <- [c \in Channel |->
             IF ~InRecording \/ IsStopped(c) THEN -1 ELSE tick - started[c]],
  track <- IF InRecording THEN SubSeq(samples, 1, tick) ELSE <<>>,
  product <- out,
  recording <- InRecording

ImplementsSoundMix == Promise!Spec
=============================================================================
