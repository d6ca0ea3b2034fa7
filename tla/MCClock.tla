------------------------------ MODULE MCClock ------------------------------
(***************************************************************************)
(* Instances of CircleClock for TLC.                                       *)
(***************************************************************************)
EXTENDS CircleClock
============================================================================
