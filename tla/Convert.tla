------------------------------- MODULE Convert -------------------------------
(***************************************************************************)
(* main (bmx2ogg/bmx2wav_main.cpp:210-356): the key sounds of a chart are  *)
(* loaded into the mixer, the chart's bars are played into it, and what it *)
(* has mixed is shifted, resampled and written.  The mixer is module Mixer *)
(* (M), and every step that calls it is one of M's steps.                  *)
(*                                                                         *)
(* The chart is what the BMS library makes of the file: the names of the   *)
(* key sounds (registered words) and the bars that hold an object, in      *)
(* ascending order, each with its time and its objects over all channels.  *)
(* It may be empty: main goes on if the file cannot be parsed.             *)
(***************************************************************************)
EXTENDS Paths, Rate, Sums

CONSTANTS
  MIXERSIZE, MSAMPLE_MIN, MSAMPLE_MAX, Sounds, Unset, MaxTick,   \* see Mixer
  WORD_MAX_COUNT,  \* how many words a BMS file has
  FREQUENCY,       \* frames per second
  TimeUnit,        \* the times of a chart are multiples of 1 / TimeUnit s
  Charts,
  Disks,           \* the files there may be: functions from paths
  Broken,          \* a file that is no audio file
  BmsPath,         \* BMX2WAVParameter::bms_path
  Outputs,         \* the outputs that Options may have come to
  Rates,           \* the arguments of -rate, quotients as in Rate
  Leftover,        \* what memory behind the samples may hold
  PitchedSample(_, _)   \* what ChangePitch puts at a position of the samples

(* An output is a path and a format.                                       *)
Format == {"wav", "flac", "ogg"}

Word == 0 .. WORD_MAX_COUNT - 1

(* object.plays: IsShouldPlayWavChannel; object.lnEnd: a long note channel *)
(* has the note's end there.                                               *)
Object == [word : Word, plays : BOOLEAN, lnEnd : BOOLEAN]

ASSUME MixerAssumption ==
  /\ MIXERSIZE \in Nat \ {0}
  /\ MSAMPLE_MIN \in Int /\ MSAMPLE_MAX \in Int
  /\ MSAMPLE_MIN < 0 /\ MSAMPLE_MAX > 0
  /\ Sounds \subseteq Seq(MSAMPLE_MIN .. MSAMPLE_MAX)
  /\ Unset \subseteq Int
  /\ MaxTick \in Nat /\ \A s \in Sounds : Len(s) <= MaxTick
ASSUME WordAssumption == WORD_MAX_COUNT \in 1 .. MIXERSIZE
ASSUME TimeAssumption == FREQUENCY \in Nat /\ TimeUnit \in Nat \ {0}
ASSUME ChartAssumption ==
  \A ch \in Charts :
    /\ DOMAIN ch.wav \subseteq Word
    /\ ch.bars \in Seq([time : Nat, objects : Seq(Object)])
    /\ \A b, c \in DOMAIN ch.bars : b < c => ch.bars[b].time <= ch.bars[c].time
    /\ \A b \in DOMAIN ch.bars :
         ((ch.bars[b].time * FREQUENCY) \div TimeUnit) * 2 <= MaxTick
ASSUME DiskAssumption == \A d \in Disks : \A p \in DOMAIN d : d[p] \in Sounds \cup {Broken}
ASSUME OutputAssumption == \A o \in Outputs : o.type \in Format
ASSUME RateAssumption == Rates \subseteq Speed
ASSUME LeftoverAssumption ==
  Leftover \subseteq MSAMPLE_MIN .. MSAMPLE_MAX /\ Leftover # {}

VARIABLES
  audio, mixing, started, tick, samples, out, phase, i, span, rest,  \* M's
  chart,
  disk,            \* path -> what the file holds
  output_path, output_type,
  rate,
  shifted,         \* is there a -pitch?
  word,            \* the word looked at in the loading loop
  bar, object,     \* the bar and the object looked at in the mixing loop
  music,           \* audio_out
  exit,            \* main's return value
  pc               \* where main is

mixerVars == <<audio, mixing, started, tick, samples, out, phase, i, span, rest>>
parameters == <<chart, output_path, output_type, rate, shifted>>
vars == <<mixerVars, parameters, disk, word, bar, object, music, exit, pc>>

M == INSTANCE Mixer WITH pc <- phase

Running == 1       \* no return value yet

-----------------------------------------------------------------------------
(* Loading, main.cpp:212-244.                                              *)

path(w) == get_filedir(BmsPath) \o <<"/">> \o chart.wav[w]
ogg_path(w) == substitute_extension(path(w), <<".", "ogg">>)
Registered(w) == w \in DOMAIN chart.wav

(* The file that is read for w: the .ogg beside it, if there is one.       *)
SoundFile(w) == IF ogg_path(w) \in DOMAIN disk THEN ogg_path(w) ELSE path(w)
Found(w) == Registered(w) /\ SoundFile(w) \in DOMAIN disk

(* Mutant: the file that would be read is compared, if it is the .ogg.     *)
CollidesWithOgg(w) == Registered(w) /\ ogg_path(w) = output_path

Collides(w) == Registered(w) /\ path(w) = output_path

Init ==
  /\ M!Init
  /\ chart \in Charts
  /\ disk \in Disks
  /\ \E o \in Outputs : output_path = o.path /\ output_type = o.type
  /\ rate \in Rates
  /\ shifted \in BOOLEAN
  /\ word = 0
  /\ bar = 1
  /\ object = 1
  /\ music = <<>>
  /\ exit = Running
  /\ pc = "load"

Loading(w) == pc = "load" /\ word = w /\ word < WORD_MAX_COUNT

(* "Bmx resource file path cannot same with output path!"                  *)
Refuse ==
  /\ \E w \in Word : Loading(w) /\ Collides(w)
  /\ pc' = "exited"
  /\ exit' = -1
  /\ UNCHANGED <<mixerVars, parameters, disk, word, bar, object, music>>

(* The word is not registered, or neither file exists.                     *)
PassWord ==
  /\ \E w \in Word : Loading(w) /\ ~Collides(w) /\ ~Found(w)
  /\ word' = word + 1
  /\ UNCHANGED <<mixerVars, parameters, disk, bar, object, music, exit, pc>>

LoadSound ==
  /\ \E w \in Word :
       /\ Loading(w) /\ ~Collides(w) /\ Found(w)
       /\ \/ disk[SoundFile(w)] # Broken /\ M!LoadFile(w) /\ audio'[w] = disk[SoundFile(w)]
          \/ disk[SoundFile(w)] = Broken /\ M!LoadFileFails(w)
  /\ word' = word + 1
  /\ UNCHANGED <<parameters, disk, bar, object, music, exit, pc>>

StartMixing ==
  /\ pc = "load"
  /\ word = WORD_MAX_COUNT
  /\ M!StartMixing
  /\ pc' = "bar"
  /\ UNCHANGED <<parameters, disk, word, bar, object, music, exit>>

-----------------------------------------------------------------------------
(* Mixing, main.cpp:255-286.                                               *)

Bars == DOMAIN chart.bars

(* mixing_sample: frames are rounded down, then doubled.                   *)
SampleAt(b) == ((chart.bars[b].time * FREQUENCY) \div TimeUnit) * 2

(* One step of the channel loop of a call of Mix, main waiting.            *)
InMix ==
  /\ M!MixChannel \/ M!EndMix
  /\ UNCHANGED <<parameters, disk, word, bar, object, music, exit, pc>>

(* Main goes on when Mix has returned.                                     *)
Idle == phase # "inMix"

(* Mutant: the time mixed already is not subtracted.                       *)
MixToBarAnew ==
  /\ Idle /\ pc = "bar" /\ bar \in Bars
  /\ M!Mix(SampleAt(bar))
  /\ pc' = "object"
  /\ object' = 1
  /\ UNCHANGED <<parameters, disk, word, bar, music, exit>>

MixToBar ==
  /\ Idle /\ pc = "bar" /\ bar \in Bars
  /\ M!Mix(SampleAt(bar) - tick)
  /\ pc' = "object"
  /\ object' = 1
  /\ UNCHANGED <<parameters, disk, word, bar, music, exit>>

Objects == chart.bars[bar].objects

(* Mutant: the end of a long note is struck like its beginning.            *)
StruckAlsoAtEnd(o) == o.plays /\ o.word # 0

(* BmsWord::MIN, the word 0, stands for no object.                         *)
Struck(o) == o.plays /\ o.word # 0 /\ ~o.lnEnd

PassObject ==
  /\ Idle /\ pc = "object" /\ object \in DOMAIN Objects
  /\ ~Struck(Objects[object])
  /\ object' = object + 1
  /\ UNCHANGED <<mixerVars, parameters, disk, word, bar, music, exit, pc>>

StopObject ==
  /\ Idle /\ pc = "object" /\ object \in DOMAIN Objects
  /\ Struck(Objects[object])
  /\ M!Stop(Objects[object].word)
  /\ pc' = "start"
  /\ UNCHANGED <<parameters, disk, word, bar, object, music, exit>>

StartObject ==
  /\ pc = "start"
  /\ M!Start(Objects[object].word)
  /\ pc' = "object"
  /\ object' = object + 1
  /\ UNCHANGED <<parameters, disk, word, bar, music, exit>>

(* Mutant: the bar is not moved on.                                        *)
NextBarStaying ==
  /\ Idle /\ pc = "object" /\ object \notin DOMAIN Objects
  /\ pc' = "bar"
  /\ UNCHANGED <<mixerVars, parameters, disk, word, bar, object, music, exit>>

NextBar ==
  /\ Idle /\ pc = "object" /\ object \notin DOMAIN Objects
  /\ pc' = "bar"
  /\ bar' = bar + 1
  /\ UNCHANGED <<mixerVars, parameters, disk, word, object, music, exit>>

MixUntilEnd ==
  /\ Idle /\ pc = "bar" /\ bar \notin Bars
  /\ M!MixUntilEnd
  /\ pc' = "flush"
  /\ UNCHANGED <<parameters, disk, word, bar, object, music, exit>>

-----------------------------------------------------------------------------
(* From the mixer to the file, main.cpp:290-355.                           *)

Flush ==
  /\ Idle /\ pc = "flush"
  /\ M!Flush(TRUE)
  /\ music' = out'
  /\ pc' = "pitch"
  /\ UNCHANGED <<parameters, disk, word, bar, object, exit>>

(* Audio::ChangePitch: as many samples as before.                          *)
PitchShift(s) == [k \in DOMAIN s |-> PitchedSample(s, k)]

ChangePitch ==
  /\ pc = "pitch"
  /\ music' = IF shifted THEN PitchShift(music) ELSE music
  /\ pc' = "rate"
  /\ UNCHANGED <<mixerVars, parameters, disk, word, bar, object, exit>>

(* Audio::ChangeRate: at the slower speeds the last samples may be what    *)
(* lies behind the old ones.                                               *)
ChangeRate ==
  /\ pc = "rate"
  /\ IF rate[1] = rate[2] THEN music' = music
     ELSE \E behind \in Leftover \X Leftover :
            music' = Resampled(music, Clamped(rate), behind)
  /\ pc' = "save"
  /\ UNCHANGED <<mixerVars, parameters, disk, word, bar, object, exit>>

Written(s) == disk' = [p \in DOMAIN disk \cup {output_path} |->
                         IF p = output_path THEN s ELSE disk[p]]

WrittenInPart == \E n \in 0 .. Len(music) - 1 : Written(SubSeq(music, 1, n))

(* Audio::SaveFile returns true (module SaveFile): all is written, or the  *)
(* disk became full when an encoder wrote out what it had taken, or there  *)
(* was nothing to write and the file need not even have been opened.  No   *)
(* other program makes room on the disk meanwhile.                         *)
Save ==
  /\ pc = "save"
  /\ \/ Len(music) % 2 = 0 /\ Written(music)
     \/ output_type # "wav" /\ Len(music) % 2 = 0 /\ WrittenInPart
     \/ music = <<>> /\ UNCHANGED disk
  /\ exit' = 0
  /\ pc' = "exited"
  /\ UNCHANGED <<mixerVars, parameters, word, bar, object, music>>

(* Audio::SaveFile returns false: the file could not be opened, or only a  *)
(* part of the music was written.                                          *)
SaveFails ==
  /\ pc = "save"
  /\ music # <<>>
  /\ WrittenInPart \/ UNCHANGED disk
  /\ exit' = -1
  /\ pc' = "exited"
  /\ UNCHANGED <<mixerVars, parameters, word, bar, object, music>>

(* The process dies in SaveFile: a FLAC file has not got its header.       *)
SaveCrashes ==
  /\ pc = "save"
  /\ music # <<>> /\ output_type = "flac"
  /\ Written(<<>>)
  /\ pc' = "crashed"
  /\ UNCHANGED <<mixerVars, parameters, word, bar, object, music, exit>>

Next ==
  \/ Refuse \/ PassWord \/ LoadSound \/ StartMixing
  \/ InMix \/ MixToBar \/ PassObject \/ StopObject \/ StartObject
  \/ NextBar \/ MixUntilEnd
  \/ Flush \/ ChangePitch \/ ChangeRate \/ Save \/ SaveFails \/ SaveCrashes

(* One thread: main goes on until it returns.                              *)
Spec == Init /\ [][Next]_vars /\ WF_vars(Next)

-----------------------------------------------------------------------------

(* The music of the chart, by its definition and not by mixing: every      *)
(* struck word sounds from its bar on, until it has ended or the same word *)
(* is struck again; all that sounds is added up and cut to a sample; and   *)
(* the music ends with the last bar or with the last sound.                *)
Sound(w) == IF Found(w) /\ disk[SoundFile(w)] # Broken THEN disk[SoundFile(w)] ELSE <<>>

(* The frame in which a bar's time falls.                                  *)
FrameOfBar(b) ==
  LET n == chart.bars[b].time * FREQUENCY
  IN  CHOOSE f \in 0 .. n : f * TimeUnit <= n /\ n < (f + 1) * TimeUnit

(* When w is struck, in samples: not where a long note ends, and not where *)
(* the object is 00 or belongs to a channel of another kind.               *)
Strikes(w) ==
  {2 * FrameOfBar(b) : b \in {c \in Bars : w # 0 /\ \E o \in Range(chart.bars[c].objects) :
                                 o.word = w /\ o.plays /\ ~o.lnEnd}}

Greatest(S) == CHOOSE m \in S : \A n \in S : n <= m

Heard(w, k) ==
  LET before == {t \in Strikes(w) : t <= k}
      n == k - Greatest(before)
  IN  IF before = {} \/ n >= Len(Sound(w)) THEN 0 ELSE Sound(w)[n + 1]

MusicLength ==
  Greatest({0} \cup {2 * FrameOfBar(b) : b \in Bars}
             \cup {Greatest(Strikes(w)) + Len(Sound(w)) : w \in {v \in Word : Strikes(v) # {}}})

ChartMusic ==
  [k \in 1 .. MusicLength |->
     M!Cut(SumUpTo([w \in Word |-> Heard(w, k - 1)], WORD_MAX_COUNT))]

Shifted(s) == IF shifted THEN PitchShift(s) ELSE s

(* When it comes to writing, audio_out is the music of the chart, in the   *)
(* pitch and at the speed that was asked for, but for the samples that     *)
(* ChangeRate takes from behind it.                                        *)
RendersChart ==
  /\ pc = "pitch" => music = ChartMusic
  /\ pc = "save" =>
       IF rate[1] = rate[2] THEN music = Shifted(ChartMusic)
       ELSE ResampledBy(music, Shifted(ChartMusic), Clamped(rate))

(* main uses the mixer as the mixer may be used: in the order of its       *)
(* phases, and never asking it to mix a negative span or beyond the bound. *)
(* What is shown of Mixer therefore holds in main.                         *)
ObeysMixer == M!Spec

(* A chart that names the output as one of its key sounds is not           *)
(* converted: its file is never written, not even in part.                 *)
NamedSoundsSurvive ==
  [][\A w \in Word : Registered(w) /\ path(w) \in DOMAIN disk => disk'[path(w)] = disk[path(w)]]_vars

(* main returns, or has died writing a FLAC file.                          *)
Terminates == <>(pc \in {"exited", "crashed"})

(* "Bmx resource file path(%s) cannot same with output path!"              *)
(* (bmx2wav_main.cpp:221): a file that main has read as a key sound is not *)
(* overwritten.  The code does NOT have this property: the .ogg that is    *)
(* read in place of the named file is not compared with the output path.   *)
ReadSoundsSurvive ==
  [][\A w \in Word : Found(w) => disk'[SoundFile(w)] = disk[SoundFile(w)]]_vars
=============================================================================
