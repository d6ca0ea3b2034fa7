-------------------------- MODULE CircleTreasury --------------------------
(***************************************************************************)
(* Money leaving the circle outside the rounds, and the creator's switches *)
(* over its status.                                                        *)
(***************************************************************************)
EXTENDS CircleState

\* Mutant: before it may be Completed.
ClosedWithoutFinalizing == {"Completed", "Cancelled"}

Closed == {"Finalizing", "Completed", "Cancelled"}

\* Mutant: the balance is not looked at.
SettledWithoutFunds(m) == Saturating(total_pending_payouts, PENDING_PAYOUTS[m]) = 0

\* The withdrawal of m leaves nothing owed and nothing on the balance.
SettledBy(m) ==
    /\ Saturating(total_pending_payouts, PENDING_PAYOUTS[m]) = 0
    /\ Saturating(bank, PENDING_PAYOUTS[m]) = 0
    /\ total_platform_fees_collected = 0

(***************************************************************************)
(* Withdraw, in any status.  The last withdrawal of a finalizing circle    *)
(* completes it, provided nothing is left on the balance.                  *)
(***************************************************************************)
Withdraw(m) ==
    /\ PENDING_PAYOUTS[m] > 0
    /\ DebitPending(m)
    /\ Send(PENDING_PAYOUTS[m])
    /\ circle_status' = IF circle_status = "Finalizing" /\ SettledBy(m)
                        THEN "Completed" ELSE circle_status
    /\ UNCHANGED <<roster, terms, schedule, deposits, misses, locks, pools>>

WithdrawPlatformFees ==
    /\ circle_status \in Closed
    /\ total_platform_fees_collected > 0
    /\ Send(total_platform_fees_collected)
    /\ total_platform_fees_collected' = 0
    /\ UNCHANGED <<circle_status, roster, terms, schedule, deposits, misses, locks, claims,
                   total_penalties_collected, CREATOR_REWARDS_CREDITED>>

(***************************************************************************)
(* SweepDust: once nobody is owed anything, what is left on the balance    *)
(* becomes the creator's, and a completed circle is finalizing again.      *)
(***************************************************************************)
Dust == Saturating(bank, total_platform_fees_collected)

SweepDust ==
    /\ circle_status \in Closed
    /\ total_pending_payouts = 0
    /\ Dust > 0
    /\ CreditPending([m \in Addr |-> IF m = creator THEN Dust ELSE 0])
    /\ circle_status' = IF circle_status = "Completed" THEN "Finalizing" ELSE circle_status
    /\ UNCHANGED <<roster, terms, schedule, deposits, misses, locks, pools, bank>>

\* DepositCreatorReward: from anybody, at most once in the circle's life.
DepositCreatorReward(reward) ==
    /\ circle_status = "Finalizing"
    /\ ~CREATOR_REWARDS_CREDITED
    /\ reward > 0
    /\ Receive(reward, 0)
    /\ CreditPending([m \in Addr |-> IF m = creator THEN reward ELSE 0])
    /\ CREATOR_REWARDS_CREDITED' = TRUE
    /\ UNCHANGED <<circle_status, roster, terms, schedule, deposits, misses, locks,
                   total_penalties_collected, total_platform_fees_collected>>

(***************************************************************************)
(* DistributeBlockedFunds(round): the locks of the listed members blocked  *)
(* by that round are sent to the listed members that deposited in it.  The *)
(* locks are not debited, so the call can be repeated.                     *)
(***************************************************************************)
BlockedLocks(round) ==
    [m \in Addr |-> IF m \in Members /\ ~Unblocked(m, round) THEN MEMBER_LOCKED_AMOUNTS[m] ELSE 0]

DistributeBlockedFunds(round) ==
    /\ SumOf(BlockedLocks(round)) > 0
    /\ \E m \in Members : Unblocked(m, round) /\ round \in DEPOSITS[m]
    /\ Send(SumOf(BlockedLocks(round)))
    /\ UNCHANGED <<circle_status, roster, terms, schedule, deposits, misses, locks, claims, pools>>

---------------------------------------------------------------------------
(* The creator's switches.  EmergencyStop looks at no status, and Unpause  *)
(* does not tell an emergency stop from a pause.  MaxPending bounds the    *)
(* loop of cancelling, stopping and cancelling again.                      *)

SwitchStatus(to) ==
    /\ circle_status' = to
    /\ UNCHANGED <<roster, terms, schedule, deposits, misses, locks, claims, pools, bank>>

PauseCircle   == circle_status = "Running" /\ SwitchStatus("Paused")
UnpauseCircle == circle_status = "Paused"  /\ SwitchStatus("Running")
EmergencyStop ==
    /\ emergency_stop_enabled
    /\ circle_status \in Closed => total_pending_payouts <= MaxPending
    /\ SwitchStatus("Paused")

---------------------------------------------------------------------------
(***************************************************************************)
(* The block clock.  Only Running circles read it, and a start resets it,  *)
(* so it need not run in other states.                                     *)
(***************************************************************************)
Tick ==
    /\ circle_status \in {"Running", "Paused"}
    /\ elapsed # None /\ elapsed < MaxElapsed
    /\ elapsed' = elapsed + 1
    /\ UNCHANGED <<circle_status, roster, terms, current_cycle_index, cycles_completed,
                   PAYOUTS, deposits, misses, locks, claims, pools, bank>>
===========================================================================
