------------------------------ MODULE MCCoop ------------------------------
(***************************************************************************)
(* Instances of CircleCoop for TLC.  They check liveness, so there is no   *)
(* symmetry set here.                                                      *)
(***************************************************************************)
EXTENDS CircleCoop
===========================================================================
