----------------------------- MODULE CircleCoop -----------------------------
(***************************************************************************)
(* A circle whose people keep to its rules: once it runs, every member     *)
(* deposits before the round ends, nobody leaves or is blocked, and the    *)
(* keeper calls once a round is over.  Before the start members may come   *)
(* and go, and the creator, who stays, may cancel; it may pause the circle *)
(* as long as it always unpauses it.  The keeper reads the calendar and    *)
(* makes the call it announces.  Every step is a step of Circle.           *)
(***************************************************************************)
EXTENDS CircleQueries

\* The clock does not end a round that still waits for a deposit.
TimelyTick == Tick /\ (elapsed + 1 >= CycleDuration => Missing = {})

\* The keeper makes the call the calendar asks for, in the rounds it lists.
DistributionAnnounced ==
    /\ current_cycle_index \in DOMAIN query_distribution_calendar
    /\ query_distribution_calendar[current_cycle_index].distribution_occurs

KeeperPays     == DistributionAnnounced /\ ProcessPayout(creator)
KeeperAdvances ==
    /\ current_cycle_index \in DOMAIN query_distribution_calendar
    /\ ~DistributionAnnounced
    /\ AdvanceRound(creator)

LeaveBeforeStart(m) == circle_status \in {"Draft", "Open", "Full"} /\ ExitCircle(m)

\* Everything but the sweep, which takes whatever is on the balance.
CoopCalls ==
    \/ \E m \in Addr :
           \/ JoinCircle(m)
           \/ DepositContribution(m)
           \/ Withdraw(m)
    \/ \E m \in Addr \ {creator} : LeaveBeforeStart(m)
    \/ \E m \in Invited : InviteMember(m)
    \/ StartCircle
    \/ CancelBeforeStart
    \/ KeeperPays
    \/ KeeperAdvances
    \/ PauseCircle
    \/ UnpauseCircle
    \/ \E reward \in Rewards : DepositCreatorReward(reward)
    \/ TimelyTick

CoopNext == CoopCalls \/ SweepDust

CoopSafety == Init /\ [][CoopNext]_vars

\* Strong fairness where a pause can disable the call again and again: the
\* members and the keeper retry, the creator always unpauses.
CoopSpec ==
    /\ CoopSafety
    /\ \A m \in Addr : SF_vars(DepositContribution(m)) /\ WF_vars(Withdraw(m))
    /\ SF_vars(KeeperPays) /\ SF_vars(KeeperAdvances)
    /\ WF_vars(UnpauseCircle) /\ WF_vars(SweepDust) /\ WF_vars(TimelyTick)

---------------------------------------------------------------------------
(* The accounts *)

\* A Total cycle is paid by its last round, any other round by its own payout.
PaidOut(r) == IF distribution_threshold = Total THEN \E p \in PAYOUTS : r <= p
              ELSE r \in PAYOUTS

\* (member, round) pairs whose deposit no payout has paid out.
DepositsHeld == {d \in Addr \X Rounds : d[2] \in DEPOSITS[d[1]] /\ ~PaidOut(d[2])}

\* What the circle owes.  Once it is over that is claims and fees: a lock
\* returned by a cancellation stays in creator_lock_amount.
Owed ==
    total_pending_payouts + total_platform_fees_collected
    + (IF circle_status \in Closed THEN 0
       ELSE SumOf(MEMBER_LOCKED_AMOUNTS) + creator_lock_amount + total_penalties_collected
            + contribution_amount * Cardinality(DepositsHeld))

\* Whatever the balance holds, some ledger accounts for, to the last coin:
\* claims, fees, locks, penalties and the deposits not paid out.  A settled
\* Total circle holds exactly what it owes.
AccountsBalance ==
    /\ circle_status \notin Closed => bank = Owed
    /\ circle_status \in {"Finalizing", "Completed"} /\ distribution_threshold = Total =>
           bank = total_pending_payouts

\* Every member gets from a Total payout what it put into the cycle, less its
\* part of the platform fee, and loses less than one unit to rounding.
SharesAreFair ==
    [][distribution_threshold = Total /\ PAYOUTS' # PAYOUTS =>
           LET n   == Len(members_list)
               net == contribution_amount * n * n
           IN  \A m \in Members :
                   n * (PENDING_PAYOUTS'[m] - PENDING_PAYOUTS[m] + 1)
                       > net - (net * platform_fee_percent) \div BasisPoints]_vars

\* "cycles_completed == total_cycles" in a completed Total circle, although
\* the field counts payouts.
CompletedRanEveryCycle ==
    circle_status = "Completed" /\ distribution_threshold = Total =>
        cycles_completed = total_cycles

---------------------------------------------------------------------------
(* Liveness *)

\* A circle that runs is settled, withdrawn from and completed.
RunningCompletes == circle_status = "Running" ~> circle_status = "Completed"

\* What is credited is eventually paid: the balance never falls short of it.
CreditsArePaid == \A m \in Addr : PENDING_PAYOUTS[m] > 0 ~> PENDING_PAYOUTS[m] = 0
=============================================================================
