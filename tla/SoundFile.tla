------------------------------ MODULE SoundFile ------------------------------
(***************************************************************************)
(* What a program may rely on that writes a file with libsndfile: a        *)
(* SndfileHandle is opened for writing, given one piece after another, and *)
(* destroyed, the program stopping at the first piece that is not taken as *)
(* a whole.  Module SndFile has the library's code and is shown to         *)
(* implement this; module SaveFile is the program.                         *)
(*                                                                         *)
(* The file is what a reader finds in it: samples on torn pages do not     *)
(* count.                                                                  *)
(***************************************************************************)
EXTENDS SndfileHandle

CONSTANT MaxPiece    \* bound: the longest piece

VARIABLE file        \* the samples in the file

vars == <<format, handle, handed, asked, good, file, disk>>

Init ==
  /\ format \in Formats
  /\ handle = "unopened"
  /\ handed = 0
  /\ asked = 0
  /\ good = TRUE
  /\ file = <<>>
  /\ disk = "fits"

(* The file cannot be opened, or a WAV file's header cannot be written.    *)
Open ==
  /\ handle = "unopened"
  /\ \/ handle' \in {"null", "open"} /\ UNCHANGED disk
     \/ handle' = "null" /\ format = "wav" /\ disk' = "full"
  /\ UNCHANGED <<format, handed, asked, good, file>>

(* A piece of n samples.  One that ends in mid-frame is refused.           *)
Call(n) ==
  /\ handle \in {"null", "open"}
  /\ asked = 0 /\ good
  /\ asked' = n
  /\ handed' = IF handle = "open" /\ n % 2 = 0 THEN handed + n ELSE handed
  /\ UNCHANGED <<format, handle, good, file, disk>>

(* In a call or on closing, as long as the disk takes it.                  *)
Store ==
  /\ handle = "closing" \/ (handle = "open" /\ asked > 0)
  /\ disk = "fits"
  /\ disk' \in {"fits", "full"}
  /\ \E m \in Len(file) .. handed : file' = Positions(0, m)
  /\ UNCHANGED <<format, handle, handed, asked, good>>

(* Another program makes room on a disk that was full.                     *)
Relieve ==
  /\ disk = "full"
  /\ disk' = "relieved"
  /\ UNCHANGED <<format, handle, handed, asked, good, file>>

(* A piece that was lost leaves a gap, or takes the beginning with it.     *)
StoreAnyhow ==
  /\ handle = "closing" \/ (handle = "open" /\ asked > 0)
  /\ disk = "relieved" /\ format # "flac"
  /\ \E kept \in {<<>>, file}, m \in 0 .. handed : \E k \in m .. handed :
       /\ \A p \in DOMAIN kept : kept[p] < m
       /\ file' = kept \o Positions(m, k)
  /\ UNCHANGED <<format, handle, handed, asked, good, disk>>

(* A call returns r.  An Ogg file counts what it was given; the others     *)
(* count less if something was refused, unless that was the header of a    *)
(* WAV file and there is room again for the samples.  A WAV file keeps     *)
(* nothing back.                                                           *)
Takes(r) ==
  \/ format = "ogg" /\ r = asked
  \/ format # "ogg" /\ disk = "fits" /\ r = asked
     /\ (format = "wav" => Len(file) = handed)
  \/ format # "ogg" /\ disk # "fits" /\ r \in 0 .. asked - 1
  \/ format = "wav" /\ disk = "relieved" /\ r = asked

Return(r) ==
  /\ handle \in {"null", "open"} /\ asked > 0
  /\ \/ (handle = "null" \/ asked % 2 # 0) /\ r = 0
     \/ handle = "open" /\ asked % 2 = 0 /\ Takes(r)
  /\ asked' = 0
  /\ good' = (r = asked)
  /\ UNCHANGED <<format, handle, handed, file, disk>>

(* A FLAC encoder that could not write its header has no buffer.           *)
Crash ==
  /\ handle = "open" /\ asked > 0 /\ format = "flac" /\ disk # "fits"
  /\ handle' = "crashed"
  /\ UNCHANGED <<format, handed, asked, good, file, disk>>

(* The handle's destructor.                                                *)
Close ==
  /\ handle \in {"null", "open"}
  /\ asked = 0
  /\ handle' = IF handle = "open" THEN "closing" ELSE "closed"
  /\ UNCHANGED <<format, handed, asked, good, file, disk>>

(* It has no result: what the disk refuses now is lost.                    *)
Closed ==
  /\ handle = "closing"
  /\ disk = "fits" => Len(file) = handed
  /\ handle' = "closed"
  /\ UNCHANGED <<format, handed, asked, good, file, disk>>

(* What the library does in a call, and the rest of the world.             *)
Inside == Store \/ StoreAnyhow \/ Crash \/ Closed \/ Relieve

Next ==
  \/ Open \/ Close \/ Inside
  \/ \E n \in 1 .. MaxPiece : Call(n)
  \/ \E r \in 0 .. asked : Return(r)

Spec == Init /\ [][Next]_vars
=============================================================================
