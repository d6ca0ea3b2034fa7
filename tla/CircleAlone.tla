---------------------------- MODULE CircleAlone ----------------------------
(***************************************************************************)
(* A circle on a balance that it shares: others is what the contract owes  *)
(* the other circles of the denomination.  Alone is the circle that keeps  *)
(* its rules on a balance of its own, which is what the others are not     *)
(* owed: the abstract circle that a circle on a shared balance implements. *)
(***************************************************************************)
EXTENDS CircleCoop

VARIABLE others

\* What the circle stores: everything but the balance.
own == <<circle_status, roster, terms, schedule, deposits, misses, locks, claims, pools>>

Alone == INSTANCE CircleCoop WITH bank <- bank - others
=============================================================================
