------------------------------ MODULE MCOptions ------------------------------
(* An instance of Options for TLC: every command line of up to two         *)
(* options, and every one cut off behind an option that takes an argument. *)
EXTENDS Options

MCCharacter == STRING

MCPrograms == {<<"b">>, <<"/", "p", "/", "b">>, <<".", "/", "wav">>}
MCBms == {<<"s", ".", "bms">>, <<"d", "/", "s", ".", "bms">>, <<"d", ".", "e", "/", "s">>, <<"-h">>}

(* Files and folders, with and without dots.                               *)
MCPaths ==
  {<<"x">>, <<"x", ".", "wav">>, <<"f", "/">>, <<".", "/">>,
   <<".", "/", "x", ".", "ogg">>, <<"f", "/", "x", ".", "y", ".", "ogg">>, <<".", "/", "x">>,
   <<"f", "/", "x">>, <<"f", ".", "d", "/">>, <<"f", "\\", "x">>}

MCGroups ==
  {<<o>> : o \in {<<"-oc">>, <<"-ob">>, <<"-wav">>, <<"-ogg">>, <<"-flac">>,
                  <<"-noautofn">>, <<"-autofn">>}}
    \cup {<<<<"-o">>, p>> : p \in MCPaths} \cup {<<<<"-q">>, <<"1">>>>}

MCTails ==
  {<<>>} \cup MCGroups
    \cup {g \o h : g, h \in MCGroups}
    \cup {g \o <<o>> : g \in MCGroups, o \in {<<"-o">>, <<"-rate">>}}

MCCommandLines ==
  {<<p>> : p \in MCPrograms} \cup {<<p, b>> \o t : p \in MCPrograms, b \in MCBms, t \in MCTails}

(* A plain name, one with a dot, and one whose tags hold separators.       *)
MCNames == {<<"a", "t">>, <<"a", ".", "t">>, <<"a", "/", "t", "\\", "u">>}
=============================================================================
