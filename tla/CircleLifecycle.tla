-------------------------- MODULE CircleLifecycle --------------------------
(***************************************************************************)
(* What a circle promises about its life, without members or money: it     *)
(* forms, runs through its rounds in order, pays each of them at most once *)
(* and is over for good.  It can be called off only before the first       *)
(* payout.  Circle implements this as long as the creator neither adds     *)
(* members directly nor uses the emergency stop.                           *)
(***************************************************************************)
EXTENDS Naturals

VARIABLES phase,    \* "forming", "running" or "over"
          round,    \* the round in progress
          payouts   \* the rounds paid

Init == phase = "forming" /\ round = 0 /\ payouts = {}

Start ==
    /\ phase = "forming"
    /\ phase' = "running" /\ round' = 1
    /\ UNCHANGED payouts

\* A round ends without a payout, or with its only one.
SkipPayout ==
    /\ phase = "running"
    /\ round' = round + 1
    /\ UNCHANGED <<phase, payouts>>

PayOut ==
    /\ phase = "running"
    /\ round \notin payouts
    /\ payouts' = payouts \cup {round}
    /\ \/ phase' = "running" /\ round' = round + 1
       \/ phase' = "over"    /\ round' = round

CallOff ==
    /\ phase \in {"forming", "running"}
    /\ payouts = {}
    /\ phase' = "over"
    /\ UNCHANGED <<round, payouts>>

Next == Start \/ SkipPayout \/ PayOut \/ CallOff

Spec == Init /\ [][Next]_<<phase, round, payouts>>
=============================================================================
