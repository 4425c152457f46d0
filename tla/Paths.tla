-------------------------------- MODULE Paths --------------------------------
(***************************************************************************)
(* The path functions of namespace IO (bmx2ogg/bmx2wav_common.cpp:112-227) *)
(* as the program uses them, outside Windows.  A path is a sequence of     *)
(* characters; a run of letters that is never taken apart (the "ogg" behind *)
(* a dot, the "wav" in the program's name) may stand as one character.     *)
(***************************************************************************)
EXTENDS Integers, Sequences, SequencesExt

Separator == {"/", "\\"}

(* find_last_of: the index, or 0 if there is none.                         *)
LastOf(path, words) == SelectLastInSeq(path, LAMBDA w : w \in words)

LastSeparator(path) == LastOf(path, Separator)
LastDot(path) == LastOf(path, {"."})

(* newext begins with its dot.                                             *)
substitute_extension(path, newext) ==
  LET dot == LastDot(path)
  IN  IF dot = 0 THEN path \o newext ELSE SubSeq(path, 1, dot - 1) \o newext

(* Everything between the last separator and the last dot becomes newname. *)
(* Without a separator the result is in the root directory; without a dot  *)
(* the last character is kept.                                             *)
substitute_filename(path, newname) ==
  LET sep == LastSeparator(path)
      dot == LastDot(path)
      end == IF dot = 0 THEN Len(path) ELSE dot
  IN  SubSeq(path, 1, sep - 1) \o <<"/">> \o newname \o SubSeq(path, end, Len(path))

(* The directory; of a bare file name, the file name.                      *)
get_filedir(path) ==
  LET sep == LastSeparator(path)
  IN  IF sep = 0 THEN path ELSE SubSeq(path, 1, sep - 1)

(* The file name; of a bare file name, nothing.                            *)
get_filename(path) ==
  LET sep == LastSeparator(path)
  IN  IF sep = 0 THEN <<>> ELSE SubSeq(path, sep + 1, Len(path))

(* Mutant: a name is not made safe.                                        *)
make_filename_as_is(name) == name

(* Separators of a tag may not become separators of a path.                *)
make_filename_safe(name) ==
  [k \in DOMAIN name |-> IF name[k] \in {"/", "'", "\""} THEN "_" ELSE name[k]]
=============================================================================
