----------------------------- MODULE MCSaveFile -----------------------------
(* An instance of SaveFile for TLC: pieces of 4 samples.                   *)
EXTENDS SaveFile
=============================================================================
