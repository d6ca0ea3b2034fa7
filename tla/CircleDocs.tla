----------------------------- MODULE CircleDocs -----------------------------
(***************************************************************************)
(* What the comments and documents of the repository say of the circle and *)
(* the code does not keep.  Each property is refuted by a run of its own;  *)
(* PROJECT.json quotes the line it restates and says what the run shows.   *)
(***************************************************************************)
EXTENDS CircleCoop, CircleUpgrade

InPlay  == circle_status \in {"Running", "Paused"}

\* execute_process_payout: pending payouts "must remain backed by bank
\* balance".
PendingIsBacked == total_pending_payouts <= bank

\* execute_cancel_circle: members "should be made whole"; the call "balances
\* out to bank balance == sum(pending) on success", at least while nobody has
\* missed a deposit.
CancelBalances ==
    [][InPlay /\ circle_status' = "Cancelled" /\ missed_count = Nothing =>
           bank' = total_pending_payouts']_vars

\* state.rs on Finalizing: "All cycles done, final distribution to
\* PENDING_PAYOUTS done; awaiting withdrawals", also when migrate set it.
FinalizingIsDistributed ==
    circle_status = "Finalizing" =>
        SumOf(MEMBER_LOCKED_AMOUNTS) = 0 /\ creator_lock_amount = 0

---------------------------------------------------------------------------
(* A keeper that never stops calling, whatever the members do. *)

KeeperSpec ==
    /\ Spec
    /\ SF_vars(ProcessPayout(creator)) /\ SF_vars(AdvanceRound(creator)) /\ WF_vars(Tick)

\* The missing-member loops: a defaulter is ejected because "the circle MUST
\* keep running for the remaining members" and "rounds must always progress".
RoundsProgress ==
    \A r \in Rounds :
        (circle_status = "Running" /\ current_cycle_index = r) ~>
            (circle_status # "Running" \/ current_cycle_index # r \/ Active = {})
=============================================================================
