---------------------------- MODULE MCTwoCircles ----------------------------
(***************************************************************************)
(* An instance of TwoCircles for TLC.  It checks liveness, so there is no  *)
(* symmetry set here.                                                      *)
(***************************************************************************)
EXTENDS TwoCircles
=============================================================================
