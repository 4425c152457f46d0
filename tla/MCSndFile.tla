----------------------------- MODULE MCSndFile -----------------------------
(* Instances of SndFile for TLC.                                           *)
EXTENDS SndFile

(* No room at all up to room for everything.                               *)
MCRooms == 0 .. 16
MCReliefs == {1, 9}
=============================================================================
