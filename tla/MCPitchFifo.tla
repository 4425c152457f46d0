----------------------------- MODULE MCPitchFifo -----------------------------
(* An instance of PitchFifo for TLC.                                       *)
EXTENDS PitchFifo
=============================================================================
