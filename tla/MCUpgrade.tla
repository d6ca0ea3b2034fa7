----------------------------- MODULE MCUpgrade -----------------------------
(***************************************************************************)
(* Instances of CircleUpgrade for TLC.                                     *)
(***************************************************************************)
EXTENDS CircleUpgrade

\* A payout order chosen at creation.
PredefinedOrder == SetToSeq(Addr)
===========================================================================
