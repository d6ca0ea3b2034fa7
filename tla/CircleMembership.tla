------------------------- MODULE CircleMembership -------------------------
(***************************************************************************)
(* Who is in the circle: joining, inviting, adding, blocking and leaving,  *)
(* and the two ends of the roster's life, the start and the cancellation.  *)
(***************************************************************************)
EXTENDS CircleState

(***************************************************************************)
(* generate_payout_order and apply_running_state for the roster list.      *)
(***************************************************************************)
GeneratePayoutOrder(list) ==
    IF payout_order_list # None THEN UNCHANGED payout_order_list
    ELSE IF ~random_order       THEN payout_order_list' = list
    ELSE \E seed \in 0..(Len(list) - 1) : payout_order_list' = Shuffled(list, seed)

\* Mutant: a circle that is started again keeps its date.
StartRunningKeepsDate(list) ==
    /\ GeneratePayoutOrder(list)
    /\ circle_status' = "Running"
    /\ current_cycle_index' = 1
    /\ elapsed' = IF elapsed = None THEN 0 ELSE elapsed
    /\ members_at_start' = Len(list)
    /\ max_missed_payments_allowed' =
           cap_max_missed_by_rounds(
               compute_max_missed_scaled(exit_penalty_percent, late_fee_percent,
                                         Len(list), Len(list)),
               Len(list) * total_cycles)
    /\ UNCHANGED <<cycles_completed, PAYOUTS>>

StartRunning(list) ==
    /\ GeneratePayoutOrder(list)
    /\ circle_status' = "Running"
    /\ current_cycle_index' = 1
    /\ elapsed' = 0
    /\ members_at_start' = Len(list)
    /\ max_missed_payments_allowed' =
           cap_max_missed_by_rounds(
               compute_max_missed_scaled(exit_penalty_percent, late_fee_percent,
                                         Len(list), Len(list)),
               Len(list) * total_cycles)
    /\ UNCHANGED <<cycles_completed, PAYOUTS>>

(***************************************************************************)
(* JoinCircle and AcceptInvite.  Every circle created today is Private, so *)
(* joining needs an invitation.                                            *)
(***************************************************************************)
JoinCircle(m) ==
    /\ circle_status \in {"Draft", "Open"}
    /\ Len(members_list) < max_members
    /\ m \notin Members
    /\ m \in pending_members
    /\ MEMBER_LOCKED_AMOUNTS[m] = 0
    /\ \E surplus \in Surplus : Receive(contribution_amount, surplus)
    /\ pending_members' = pending_members \ {m}
    /\ MEMBER_LOCKED_AMOUNTS' = [MEMBER_LOCKED_AMOUNTS EXCEPT ![m] = contribution_amount]
    /\ total_amount_locked' = total_amount_locked + contribution_amount
    /\ members_list' = Append(members_list, m)
    /\ IF Len(members_list) + 1 = max_members /\ auto_start_by_members
       THEN StartRunning(Append(members_list, m))
       ELSE /\ circle_status' = IF Len(members_list) + 1 = max_members THEN "Full" ELSE "Open"
            /\ UNCHANGED <<payout_order_list, terms, schedule>>
    /\ UNCHANGED <<BLOCKED_MEMBERS, deposits, misses, creator_lock_amount, claims, pools>>

\* InviteMember: no condition on the status.
InviteMember(m) ==
    /\ invite_only
    /\ m \notin Members
    /\ m \notin pending_members
    /\ pending_members' = pending_members \cup {m}
    /\ UNCHANGED <<circle_status, members_list, payout_order_list, BLOCKED_MEMBERS,
                   terms, schedule, deposits, misses, locks, claims, pools, bank>>

(***************************************************************************)
(* AddPrivateMember: no condition on the status and no lock.  The caps     *)
(* bound the loops of ejecting, or cancelling, and adding again.           *)
(***************************************************************************)
AddPrivateMember(m) ==
    /\ total_penalties_collected <= MaxPenalties /\ missed_count[m] <= MaxMisses
    /\ total_pending_payouts <= MaxPending
    /\ Len(members_list) < max_members
    /\ m \notin Members
    /\ members_list' = Append(members_list, m)
    /\ circle_status' = IF Len(members_list) + 1 >= max_members THEN "Full"
                        ELSE IF circle_status = "Draft"         THEN "Open"
                        ELSE circle_status
    /\ UNCHANGED <<pending_members, payout_order_list, BLOCKED_MEMBERS,
                   terms, schedule, deposits, misses, locks, claims, pools, bank>>

\* BlockMember: the member keeps its seat.
BlockMember(m) ==
    /\ m \in Members
    /\ BLOCKED_MEMBERS' = [BLOCKED_MEMBERS EXCEPT ![m] = current_cycle_index + 1]
    /\ UNCHANGED <<circle_status, members_list, pending_members, payout_order_list,
                   terms, schedule, deposits, misses, locks, claims, pools, bank>>

StartCircle ==
    /\ circle_status \in {"Open", "Full"}
    /\ Len(members_list) >= min_members_required
    /\ StartRunning(members_list)
    /\ UNCHANGED <<members_list, pending_members, BLOCKED_MEMBERS,
                   deposits, misses, locks, claims, pools, bank>>

---------------------------------------------------------------------------
\* Before-start refunds of every lock left but those of S, sent directly.
RefundedLocks(S) == [m \in Addr |-> IF m \in S THEN MEMBER_LOCKED_AMOUNTS[m] ELSE 0]

(***************************************************************************)
(* ExitCircle when the circle is neither Running nor Paused (Finalizing    *)
(* and Completed included).  Falling below the minimum with automatic      *)
(* refund cancels the circle; creator_lock_amount is refunded then, not    *)
(* zeroed.                                                                 *)
(***************************************************************************)
ExitBeforeStart(m) ==
    LET left     == Without(members_list, {m})
        reopened == IF Len(left) < max_members /\ circle_status = "Full"
                    THEN "Open" ELSE circle_status
        cancels  == Len(left) < min_members_required /\ auto_refund_if_min_not_met
        refunds  == RefundedLocks(IF cancels THEN Addr ELSE {m})
    IN  /\ circle_status \notin {"Cancelled", "Running", "Paused"}
        /\ m \in Members
        /\ Send(SumOf(refunds) + (IF cancels THEN creator_lock_amount ELSE 0))
        /\ MEMBER_LOCKED_AMOUNTS' = [x \in Addr |-> MEMBER_LOCKED_AMOUNTS[x] - refunds[x]]
        /\ total_amount_locked' = Saturating(total_amount_locked, SumOf(refunds))
        /\ members_list' = left
        /\ circle_status' = IF cancels THEN "Cancelled"
                            ELSE IF Len(left) = 1 /\ reopened = "Open" THEN "Draft"
                            ELSE reopened
        /\ UNCHANGED <<pending_members, payout_order_list, BLOCKED_MEMBERS, terms,
                       schedule, deposits, misses, creator_lock_amount, claims, pools>>

(***************************************************************************)
(* ExitCircle of a running circle: late fees and the exit penalty are kept *)
(* as penalties, the rest of the lock is sent; a leaving creator forfeits  *)
(* its lock to the members that are not blocked.                           *)
(***************************************************************************)
ExitAfterStart(m) ==
    LET locked    == MEMBER_LOCKED_AMOUNTS[m]
        kept      == AtMost(MEMBER_ACCUMULATED_LATE_FEES[m] + ExitPenalty(locked), locked)
        heirs     == Active \ {m}
        forfeits  == m = creator /\ creator_lock_amount > 0
    IN  /\ circle_status \in {"Running", "Paused"}
        /\ m \in Members
        /\ ~strict_mode
        /\ Send(locked - kept)
        /\ total_penalties_collected' = total_penalties_collected + kept
        /\ MEMBER_LOCKED_AMOUNTS' = [MEMBER_LOCKED_AMOUNTS EXCEPT ![m] = 0]
        /\ total_amount_locked' = Saturating(total_amount_locked, locked)
        /\ MEMBER_ACCUMULATED_LATE_FEES' = [MEMBER_ACCUMULATED_LATE_FEES EXCEPT ![m] = 0]
        /\ members_list' = Without(members_list, {m})
        /\ payout_order_list' = IF payout_order_list = None THEN None
                                ELSE Without(payout_order_list, {m})
        /\ max_missed_payments_allowed' =
               MaxMissed(Len(members_list) - 1, max_members * total_cycles)
        /\ creator_lock_amount' = IF forfeits THEN 0 ELSE creator_lock_amount
        /\ CreditPending(IF forfeits THEN EqualSplit(creator_lock_amount, heirs) ELSE Nothing)
        /\ UNCHANGED <<circle_status, pending_members, BLOCKED_MEMBERS, members_at_start,
                       schedule, deposits, missed_count, last_missed_cycle,
                       total_platform_fees_collected, CREATOR_REWARDS_CREDITED>>

ExitCircle(m) == ExitBeforeStart(m) \/ ExitAfterStart(m)

---------------------------------------------------------------------------
(***************************************************************************)
(* CancelCircle of a circle that has not started: every lock and the       *)
(* creator's lock are sent back; creator_lock_amount is not zeroed.        *)
(***************************************************************************)
CancelBeforeStart ==
    /\ circle_status \in {"Draft", "Open", "Full"}
    /\ Send(SumOf(MEMBER_LOCKED_AMOUNTS) + creator_lock_amount)
    /\ circle_status' = "Cancelled"
    /\ MEMBER_LOCKED_AMOUNTS' = Nothing
    /\ total_amount_locked' = Saturating(total_amount_locked, SumOf(MEMBER_LOCKED_AMOUNTS))
    /\ UNCHANGED <<roster, terms, schedule, deposits, misses, creator_lock_amount,
                   claims, pools>>

(***************************************************************************)
(* CancelCircle of a running circle with no payout yet: the creator's lock *)
(* is split among the members never blocked, and every listed member gets  *)
(* its lock and its deposit of the current round, all through Withdraw.    *)
(***************************************************************************)
\* Mutant: as many rounds as there were payouts.
RoundsSearchedByCount == 1..cycles_completed

RoundsSearchedForPayout == 1..AtLeast(AtLeast(current_cycle_index, cycles_completed), 1)

CancelCredits ==
    LET heirs   == {m \in Members \ {creator} : BLOCKED_MEMBERS[m] = None}
        forfeit == EqualSplit(creator_lock_amount, heirs)
        deposit(m) == IF current_cycle_index > 0 /\ current_cycle_index \in DEPOSITS[m]
                      THEN contribution_amount ELSE 0
    IN  [m \in Addr |-> forfeit[m]
            + (IF m \in Members THEN MEMBER_LOCKED_AMOUNTS[m] + deposit(m) ELSE 0)]

CancelRunning ==
    /\ circle_status \in {"Running", "Paused"}
    /\ PAYOUTS \cap RoundsSearchedForPayout = {}
    /\ circle_status' = "Cancelled"
    /\ CreditPending(CancelCredits)
    /\ creator_lock_amount' = 0
    /\ MEMBER_LOCKED_AMOUNTS' =
           [m \in Addr |-> IF m \in Members THEN 0 ELSE MEMBER_LOCKED_AMOUNTS[m]]
    /\ total_amount_locked' = Saturating(total_amount_locked, SumOf(RefundedLocks(Members)))
    /\ MEMBER_ACCUMULATED_LATE_FEES' =
           [m \in Addr |-> IF m \in Members THEN 0 ELSE MEMBER_ACCUMULATED_LATE_FEES[m]]
    /\ UNCHANGED <<roster, terms, schedule, deposits, missed_count, last_missed_cycle,
                   pools, bank>>

CancelCircle == CancelBeforeStart \/ CancelRunning
===========================================================================
