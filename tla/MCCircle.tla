----------------------------- MODULE MCCircle -----------------------------
(***************************************************************************)
(* Instances of Circle for TLC: the .cfg files choose a size, the circle's *)
(* options and the bounds.                                                 *)
(***************************************************************************)
EXTENDS CircleQueries

\* The members other than the creator are interchangeable, except where the
\* instance invites, adds or blocks only some of them.
Symmetry == Permutations(Addr \ {creator})

\* A payout order chosen at creation.
PredefinedOrder == SetToSeq(Addr)
===========================================================================
