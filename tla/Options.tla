------------------------------- MODULE Options -------------------------------
(***************************************************************************)
(* How the command line becomes the name and the format of the output:     *)
(* BMX2WAVParameter::parse, one argument per step, and main's automatic    *)
(* file name (bmx2ogg/bmx2wav_main.cpp:23-138 and 182-196).  An argument   *)
(* is a sequence of characters as in Paths, an option a single one.        *)
(*                                                                         *)
(* argv[k] of the code is argv[k + 1] here, and its i is next - 1.  -q,    *)
(* -pitch and -rate keep the argument they are given; -ow and -norm set    *)
(* what is set already.                                                    *)
(***************************************************************************)
EXTENDS Paths

CONSTANTS
  Character,       \* what paths and other arguments are made of
  CommandLines,    \* the argument vectors, each with the program's name;
                   \*   no argument is empty
  Names            \* the "[artist] title" of the charts

ASSUME CharacterAssumption == {"/", ".", "_", "ogg", "wav", "flac"} \subseteq Character
ASSUME CommandLineAssumption ==
  \A a \in CommandLines :
    /\ a \in Seq(Seq(Character))
    /\ Len(a) >= 1
    /\ \A k \in DOMAIN a : Len(a[k]) >= 1
ASSUME NamesAssumption == Names \subseteq Seq(Character)

VARIABLES
  argv,
  next,            \* the argument that is looked at next
  output_type,
  output_path,
  autofilename,
  numbers,         \* the arguments of -q, -pitch and -rate, <<>> if not given
  given,           \* history: the path the output was given last, by default,
                   \*   by -ob or by -o, before anything rewrites it
  typed,           \* history: is output_path spelled by the user to its end?
  stage            \* "start", "parse", "name", "ready", "usage"

parseVars ==
  <<argv, next, output_type, output_path, autofilename, numbers, given, typed, stage>>

bms_path == argv[2]
Numeric == {<<"-q">>, <<"-pitch">>, <<"-rate">>}

-----------------------------------------------------------------------------

Occurs(word, path) == \E k \in DOMAIN path : path[k] = word

TypeOfProgram ==
  IF Occurs("wav", argv[1]) THEN "wav"
  ELSE IF Occurs("flac", argv[1]) THEN "flac" ELSE "ogg"

substitute_output_extension(path, type) == substitute_extension(path, <<".", type>>)

ParseInit ==
  /\ argv \in CommandLines
  /\ next = 3
  /\ output_type = "ogg"
  /\ output_path = <<>>
  /\ autofilename = FALSE
  /\ numbers = [o \in Numeric |-> <<>>]
  /\ given = <<>>
  /\ typed = FALSE
  /\ stage = "start"

HasChart == Len(argv) > 1 /\ argv[2] \notin {<<"-?">>, <<"-h">>}

Help ==
  /\ stage = "start"
  /\ ~HasChart
  /\ stage' = "usage"
  /\ output_type' = TypeOfProgram
  /\ UNCHANGED <<argv, next, output_path, autofilename, numbers, given, typed>>

Defaults ==
  /\ stage = "start"
  /\ HasChart
  /\ stage' = "parse"
  /\ output_type' = TypeOfProgram
  /\ given' = get_filedir(argv[1]) \o <<"/">> \o get_filename(bms_path)
  /\ output_path' = substitute_output_extension(given', output_type')
  /\ autofilename' = TRUE
  /\ UNCHANGED <<argv, next, numbers, typed>>

At(option) == stage = "parse" /\ next <= Len(argv) /\ argv[next] = option

(* `if (++i == argc) return -1': the option's own argument is missing.     *)
MissingArgument ==
  /\ \E o \in Numeric \cup {<<"-o">>} : At(o)
  /\ next = Len(argv)
  /\ stage' = "usage"
  /\ next' = next + 1
  /\ UNCHANGED <<argv, output_type, output_path, autofilename, numbers, given, typed>>

(* -ob                                                                     *)
ToBmsDirectory ==
  /\ At(<<"-ob">>)
  /\ output_path' = substitute_output_extension(bms_path, output_type)
  /\ given' = bms_path
  /\ typed' = FALSE
  /\ next' = next + 1
  /\ UNCHANGED <<argv, output_type, autofilename, numbers, stage>>

(* -o, with a folder or with a file                                        *)
ToCustomPath ==
  /\ At(<<"-o">>)
  /\ next < Len(argv)
  /\ LET path == argv[next + 1]
         folder == Last(path) \in Separator
     IN  IF folder
         THEN /\ output_path' = path \o substitute_output_extension(
                                          get_filename(bms_path), output_type)
              /\ typed' = FALSE
         ELSE /\ output_path' = path
              /\ typed' = TRUE
  /\ given' = output_path'
  /\ next' = next + 2
  /\ UNCHANGED <<argv, output_type, autofilename, numbers, stage>>

OptionOf(type) ==
  CASE type = "ogg" -> <<"-ogg">> [] type = "wav" -> <<"-wav">> [] OTHER -> <<"-flac">>

(* Mutant: the path keeps the extension it has.                            *)
SetTypeOnly(type) ==
  /\ At(OptionOf(type))
  /\ output_type' = type
  /\ typed' = FALSE
  /\ next' = next + 1
  /\ UNCHANGED <<argv, output_path, autofilename, numbers, given, stage>>

(* -wav and -flac                                                          *)
SetType(type) ==
  /\ At(OptionOf(type))
  /\ output_type' = type
  /\ output_path' = substitute_output_extension(output_path, type)
  /\ typed' = FALSE
  /\ next' = next + 1
  /\ UNCHANGED <<argv, autofilename, numbers, given, stage>>

(* Mutant: the argument behind the number is skipped.                      *)
SetNumberSkipping(option) ==
  /\ At(option)
  /\ next < Len(argv)
  /\ numbers' = [numbers EXCEPT ![option] = argv[next + 1]]
  /\ next' = next + 3
  /\ UNCHANGED <<argv, output_type, output_path, autofilename, given, typed, stage>>

(* -q, -pitch and -rate                                                    *)
SetNumber(option) ==
  /\ At(option)
  /\ next < Len(argv)
  /\ numbers' = [numbers EXCEPT ![option] = argv[next + 1]]
  /\ next' = next + 2
  /\ UNCHANGED <<argv, output_type, output_path, autofilename, given, typed, stage>>

(* -noautofn                                                               *)
KeepName ==
  /\ At(<<"-noautofn">>)
  /\ autofilename' = FALSE
  /\ next' = next + 1
  /\ UNCHANGED <<argv, output_type, output_path, numbers, given, typed, stage>>

(* Options that change nothing, and everything that is no option.          *)
Ignore ==
  /\ stage = "parse"
  /\ next <= Len(argv)
  /\ argv[next] \notin Numeric \cup
       {<<"-o">>, <<"-ob">>, <<"-wav">>, <<"-flac">>, <<"-noautofn">>}
  /\ next' = next + 1
  /\ UNCHANGED <<argv, output_type, output_path, autofilename, numbers, given, typed, stage>>

EndOfArguments ==
  /\ stage = "parse"
  /\ next > Len(argv)
  /\ stage' = "name"
  /\ UNCHANGED <<argv, next, output_type, output_path, autofilename, numbers, given, typed>>

(* The file name is reset, or not.                                         *)
ResetName ==
  /\ stage = "name"
  /\ stage' = "ready"
  /\ \/ /\ autofilename
        /\ \E n \in Names :
             output_path' = substitute_filename(output_path, make_filename_safe(n))
     \/ /\ ~autofilename
        /\ UNCHANGED output_path
  /\ UNCHANGED <<argv, next, output_type, autofilename, numbers, given, typed>>

ParseNext ==
  \/ Help
  \/ Defaults
  \/ MissingArgument
  \/ ToBmsDirectory
  \/ ToCustomPath
  \/ \E type \in {"wav", "flac"} : SetType(type)
  \/ \E o \in Numeric : SetNumber(o)
  \/ KeepName
  \/ Ignore
  \/ EndOfArguments
  \/ ResetName

ParseSpec == ParseInit /\ [][ParseNext]_parseVars

-----------------------------------------------------------------------------

(* No argument behind the last one is ever looked at, although three       *)
(* places move on in the vector.                                           *)
StaysInVector ==
  /\ argv \in CommandLines
  /\ next \in 3 .. IF Len(argv) < 2 THEN 3 ELSE Len(argv) + 1
  /\ output_type \in {"ogg", "wav", "flac"}
  /\ DOMAIN numbers = Numeric
  /\ {autofilename, typed} \subseteq BOOLEAN
  /\ stage \in {"start", "parse", "name", "ready", "usage"}

EndsWith(path, type) ==
  Len(path) >= 2 /\ SubSeq(path, Len(path) - 1, Len(path)) = <<".", type>>

(* The file is written in the format its name promises, whatever the       *)
(* order of the options, unless the name's end was typed by the user: the  *)
(* format is kept in two variables, one of them a path that every option   *)
(* edits in its own way and that the automatic name cuts once more.        *)
FormatMatchesName ==
  stage \in {"parse", "name", "ready"} /\ ~typed => EndsWith(output_path, output_type)

(* Up to the last slash.                                                   *)
Directory(path) == SubSeq(path, 1, LastOf(path, {"/"}))

(* A path the functions of Paths can edit: the last separator, if any, is  *)
(* a slash, and the last dot is not in a directory.                        *)
Editable(path) ==
  /\ LastSeparator(path) = 0 \/ path[LastSeparator(path)] = "/"
  /\ LastDot(path) = 0 \/ LastDot(path) > LastSeparator(path)

(* Whichever options rewrite the path, in any order, and whatever is in    *)
(* the chart's tags (bmx2wav_common.cpp:112-127): the output stays in the  *)
(* directory it was given last, unless the path's last dot is in a         *)
(* directory.  The automatic name puts a bare name into the root directory.*)
(* (What it is given by default is the program's directory, not the        *)
(* current one, as bmx2wav_main.cpp:51 has it.)                            *)
KeepsPlace ==
  stage = "ready" /\ Editable(given) =>
    Directory(output_path) = IF autofilename /\ LastSeparator(given) = 0 THEN <<"/">>
                             ELSE Directory(given)
=============================================================================
