----------------------------- MODULE MCResample -----------------------------
(* Instances of Resample for TLC.                                          *)
EXTENDS Resample

(* No number, below the clamp, and on both sides of 1/2 and of 1, with     *)
(* denominators that do and do not divide the positions.                   *)
MCRates ==
  {<<0, 1>>, <<1, 20>>, <<1, 4>>, <<1, 2>>, <<2, 3>>, <<5, 7>>, <<1, 1>>,
   <<9, 8>>, <<4, 3>>, <<2, 1>>, <<7, 2>>}
=============================================================================
