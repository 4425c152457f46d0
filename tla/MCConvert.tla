------------------------------ MODULE MCConvert ------------------------------
(* Instances of Convert for TLC: three words, 2 frames per second, times   *)
(* in thirds of a second.                                                  *)
EXTENDS Convert

MCSampleMin == -3
MCUnset == {-1}

(* A frame, three frames, and a mono sound that ends in mid-frame.         *)
Click == <<1, 2>>
Long == <<2, -1, -3, 1, 2, 1>>
Odd == <<-2, 1, 1>>
MCSounds == {<<>>, Click, Long, Odd}

Note(w) == [word |-> w, plays |-> TRUE, lnEnd |-> FALSE]
Release(w) == [word |-> w, plays |-> TRUE, lnEnd |-> TRUE]
Silent(w) == [word |-> w, plays |-> FALSE, lnEnd |-> FALSE]

File(name, ext) == <<name, ".", ext>>
AllWords == [w \in 0 .. 2 |-> IF w = 2 THEN File("b", "wav") ELSE File("a", "wav")]
OneWord == [w \in {1} |-> File("a", "ogg")]

Bar(t, objects) == [time |-> t, objects |-> objects]

(* What a bar may hold: two notes, a long note's end with an object of a   *)
(* channel that plays nothing, and the word 0 with a word struck twice.    *)
Contents ==
  {<<Note(2), Note(1)>>, <<Release(1), Silent(2)>>, <<Note(0), Note(1), Note(1)>>}

(* Two bars: one after the other, in the same frame, and far apart; no     *)
(* bar; a bar with a word that is not registered; and three bars, the last *)
(* one cutting the sound of the first.                                     *)
MCCharts ==
  {[wav |-> AllWords, bars |-> <<Bar(t[1], c), Bar(t[2], e)>>] :
      t \in {<<0, 2>>, <<3, 4>>, <<2, 8>>}, c, e \in Contents}
    \cup {[wav |-> OneWord, bars |-> <<>>], [wav |-> OneWord, bars |-> <<Bar(1, <<Note(2), Note(1)>>)>>],
          [wav |-> AllWords, bars |-> <<Bar(1, <<Note(1)>>), Bar(2, <<Note(2)>>), Bar(4, <<Note(1)>>)>>]}

MCBmsPath == <<"d", "/", "s", ".", "bms">>
InD(name, ext) == <<"d", "/">> \o File(name, ext)

(* The second disk already holds, beside the sounds, what the chart with   *)
(* one word becomes where that word is struck alone.                       *)
MCDisks == {
  InD("a", "wav") :> Long @@ InD("b", "wav") :> Odd,
  InD("a", "wav") :> Click @@ InD("a", "ogg") :> Long @@ InD("b", "wav") :> Long,
  InD("a", "wav") :> Broken @@ InD("b", "ogg") :> Click,
  InD("a", "ogg") :> Broken @@ InD("a", "wav") :> Click}

Output(p, t) == [path |-> p, type |-> t]
MCOutputs == {Output(<<"o", ".", "flac">>, "flac"), Output(InD("b", "wav"), "wav")}
MCOggOutputs == {Output(InD("a", "ogg"), "ogg")}

(* Unchanged, faster, and half the speed, which reads behind the music.    *)
MCRates == {<<1, 1>>, <<3, 2>>, <<1, 2>>}
MCLeftover == {-3, 2}

(* Something that depends on every position, and is no mirror of the rate. *)
MCPitchedSample(s, k) == s[Len(s) + 1 - k]
=============================================================================
