--------------------------- MODULE CircleUpgrade ---------------------------
(***************************************************************************)
(* The code is upgraded while circles are alive: migrate runs between any  *)
(* two messages, any number of times, and rewrites the stored circle.  The *)
(* backfills of distribution_threshold (Total stands for None) and of      *)
(* denomination change nothing the model tells apart.                      *)
(***************************************************************************)
EXTENDS CircleQueries

\* members_at_start, once backfilled.
BackfilledStart ==
    IF circle_status = "Running" /\ members_at_start = None
    THEN Len(members_list) ELSE members_at_start

\* The circle counts as past "its last calendar round": the round in
\* progress may be the last one, and cycles_completed counts payouts.
Overshoot(basis) ==
    \/ current_cycle_index >= basis * total_cycles
    \/ cycles_completed >= total_cycles

\* Mutant: healed before the backfill, from the configured size.
MigrateHealsFirst ==
    /\ members_at_start' = BackfilledStart
    /\ circle_status' =
           IF circle_status = "Running"
              /\ Overshoot(IF members_at_start = None THEN max_members ELSE members_at_start)
           THEN "Finalizing" ELSE circle_status
    /\ UNCHANGED <<roster, max_missed_payments_allowed, schedule, deposits, misses, locks,
                   claims, pools, bank>>

\* Backfill, then heal: a status and nothing else, no distribution.
Migrate ==
    /\ members_at_start' = BackfilledStart
    /\ circle_status' = IF circle_status = "Running" /\ Overshoot(BackfilledStart)
                        THEN "Finalizing" ELSE circle_status
    /\ UNCHANGED <<roster, max_missed_payments_allowed, schedule, deposits, misses, locks,
                   claims, pools, bank>>

UpgradeSpec == Init /\ [][Next \/ Migrate]_vars

---------------------------------------------------------------------------
\* migrate: "re-running migrate is a no-op", also for what its own backfill
\* made of the circle.
MigrateIsIdempotent ==
    [][Migrate => /\ BackfilledStart' = members_at_start'
                  /\ circle_status' = "Running" => ~Overshoot(members_at_start)']_vars
=============================================================================
