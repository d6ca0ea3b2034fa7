---------------------------- MODULE CircleState ---------------------------
(***************************************************************************)
(* One savings circle of the contract: its configuration (the arguments    *)
(* create_circle has accepted), its stored state and the helpers that read *)
(* or write a single ledger.  The contract runs one message at a time and  *)
(* an Err reverts everything a handler wrote, so each handler is a single  *)
(* action of the modules that extend this one, enabled exactly when the    *)
(* handler returns Ok.                                                     *)
(***************************************************************************)
EXTENDS CircleMath, SequencesExt

CONSTANTS
    Addr,                        \* the addresses that can be members
    creator,                     \* Circle.creator_address
    max_members, min_members_required, total_cycles,
    contribution_amount,
    exit_penalty_percent, late_fee_percent, platform_fee_percent, \* basis points
    distribution_threshold,      \* Total, or the count of MinMembers
    random_order,                \* payout_order_type: RandomOrder or PredefinedOrder
    create_order,                \* payout_order_list given at creation, or None
    invite_only, strict_mode, auto_refund_if_min_not_met,
    auto_start_by_members,       \* auto_start_when_full /\ type "by_members"
    manual_trigger_enabled, emergency_stop_enabled,
    CycleDuration, GracePeriod,  \* in ticks of the block clock
    None                         \* Rust's None

\* Bounds of the model; none of them is in the code.
CONSTANTS
    Invited, Added, Blocked,     \* whom the creator invites, adds, blocks
    MaxElapsed,                  \* how far the clock runs into a round
    MaxBank,                     \* cap on the money ever paid in
    MaxPenalties, MaxMisses,     \* a circle with penalties, misses or claims above
    MaxPending,                  \*   these is not brought back to life
    Surplus,                     \* what a payer may send above the price
    Rewards                      \* amounts of the platform's creator reward

(***************************************************************************)
(* What execute_create_circle accepts.                                     *)
(***************************************************************************)
ASSUME CreateCircleAccepts ==
    /\ creator \in Addr
    /\ max_members \in Nat \ {0} /\ min_members_required \in 1..max_members
    /\ total_cycles \in Nat \ {0}
    /\ contribution_amount \in Nat \ {0}
    /\ exit_penalty_percent \in 0..9000
    /\ late_fee_percent \in 1..5000
    /\ exit_penalty_percent + late_fee_percent <= BasisPoints
    /\ distribution_threshold \in 0..min_members_required
    /\ create_order # None =>
           ~random_order /\ create_order \in Seq(Addr) /\ Len(create_order) = max_members
    /\ CycleDuration \in Nat /\ GracePeriod \in Nat /\ GracePeriod < CycleDuration

\* The contract's platform configuration: instantiate does not check the fee;
\* with 100% every payout would be zero and leave no record.
ASSUME PlatformFeeBelowWhole == platform_fee_percent \in 0..(BasisPoints - 1)

ASSUME FlagsAreBoolean ==
    {random_order, invite_only, strict_mode, auto_refund_if_min_not_met, auto_start_by_members,
     manual_trigger_enabled, emergency_stop_enabled}  \subseteq BOOLEAN

ASSUME BoundsAreNatural ==
    /\ IsFiniteSet(Addr) /\ None \notin Nat
    /\ Invited \cup Added \cup Blocked \subseteq Addr
    /\ MaxElapsed \in Nat /\ MaxBank \in Nat /\ MaxPenalties \in Nat /\ MaxMisses \in Nat /\ MaxPending \in Nat
    /\ Surplus \subseteq Nat /\ Rewards \subseteq Nat

VARIABLES
    circle_status, members_list, pending_members, payout_order_list,
    BLOCKED_MEMBERS,             \* round from which a member is blocked, or None
    members_at_start, max_missed_payments_allowed,
    current_cycle_index,         \* the round, counted from 1; 0 before the start
    cycles_completed,            \* payouts made, despite its name
    elapsed,                     \* block time - next_payout_date (None before the start)
    PAYOUTS,                     \* the rounds that have a payout record
    DEPOSITS,                    \* per member, the rounds with a deposit record
    MEMBER_LAST_DEPOSITED_CYCLE,
    missed_count, last_missed_cycle, \* the two fields of MEMBER_MISSED_PAYMENTS
    MEMBER_ACCUMULATED_LATE_FEES,
    MEMBER_LOCKED_AMOUNTS,       \* 0 = no entry
    creator_lock_amount, total_amount_locked,
    PENDING_PAYOUTS, total_pending_payouts,
    total_penalties_collected, total_platform_fees_collected,
    CREATOR_REWARDS_CREDITED,
    bank                         \* the contract's balance in the circle's denom

roster   == <<members_list, pending_members, payout_order_list, BLOCKED_MEMBERS>>
terms    == <<members_at_start, max_missed_payments_allowed>>
schedule == <<current_cycle_index, cycles_completed, elapsed, PAYOUTS>>
deposits == <<DEPOSITS, MEMBER_LAST_DEPOSITED_CYCLE>>
misses   == <<missed_count, last_missed_cycle, MEMBER_ACCUMULATED_LATE_FEES>>
locks    == <<MEMBER_LOCKED_AMOUNTS, creator_lock_amount, total_amount_locked>>
claims   == <<PENDING_PAYOUTS, total_pending_payouts>>
pools    == <<total_penalties_collected, total_platform_fees_collected,
              CREATOR_REWARDS_CREDITED>>
vars     == <<circle_status, roster, terms, schedule, deposits, misses, locks,
              claims, pools, bank>>

Status == {"Draft", "Open", "Full", "Running", "Paused",
           "Finalizing", "Completed", "Cancelled"}

---------------------------------------------------------------------------
(* Readers *)

Members == {m \in Addr : \E i \in DOMAIN members_list : members_list[i] = m}
Nothing == [m \in Addr |-> 0]

LateFee == compute_late_fee_per_round(contribution_amount, late_fee_percent)
ExitPenalty(locked) == compute_exit_penalty(locked, exit_penalty_percent)

Unblocked(m, round) == BLOCKED_MEMBERS[m] # None => BLOCKED_MEMBERS[m] > round
Active == {m \in Members : Unblocked(m, current_cycle_index)}

\* Vec order: the seat of a member, and the first of a set of members.
Seat(m)        == CHOOSE i \in DOMAIN members_list : members_list[i] = m
FirstListed(S) == CHOOSE m \in S : \A x \in S : Seat(m) <= Seat(x)

original_lock_for_member(m) ==
    IF m = creator THEN creator_lock_amount ELSE contribution_amount

\* Mutant: the rounds of one cycle.
TotalRoundsOfOneCycle == IF members_at_start = None THEN max_members ELSE members_at_start

\* members_at_start.unwrap_or(max_members) * total_cycles
TotalRounds ==
    (IF members_at_start = None THEN max_members ELSE members_at_start) * total_cycles

MaxMissed(remaining, rounds) ==
    cap_max_missed_by_rounds(
        compute_max_missed_scaled(exit_penalty_percent, late_fee_percent,
            IF members_at_start = None THEN 0 ELSE members_at_start, remaining),
        rounds)

\* Mutant: nobody takes the remainder.
EqualSplitDropsRemainder(amount, S) ==
    [m \in Addr |-> IF m \in S THEN amount \div Cardinality(S) ELSE 0]

\* Equal shares rounded down; the first in list order takes the remainder.
EqualSplit(amount, S) ==
    [m \in Addr |->
        IF m \notin S THEN 0
        ELSE (amount \div Cardinality(S))
             + (IF m = FirstListed(S) THEN amount % Cardinality(S) ELSE 0)]

---------------------------------------------------------------------------
(* Writers of one ledger *)

\* Mutant: the new credit replaces the old one.
CreditPendingOverwrites(credits) ==
    /\ PENDING_PAYOUTS' = [m \in Addr |-> IF credits[m] > 0 THEN credits[m] ELSE PENDING_PAYOUTS[m]]
    /\ total_pending_payouts' = total_pending_payouts + SumOf(credits)

\* credit_pending_payout, for every member at once
CreditPending(credits) ==
    /\ PENDING_PAYOUTS' = [m \in Addr |-> PENDING_PAYOUTS[m] + credits[m]]
    /\ total_pending_payouts' = total_pending_payouts + SumOf(credits)

\* Mutant: the total is not debited.
DebitPendingKeepsTotal(m) ==
    /\ PENDING_PAYOUTS' = [PENDING_PAYOUTS EXCEPT ![m] = 0]
    /\ UNCHANGED total_pending_payouts

\* debit_pending_payout
DebitPending(m) ==
    /\ PENDING_PAYOUTS' = [PENDING_PAYOUTS EXCEPT ![m] = 0]
    /\ total_pending_payouts' = Saturating(total_pending_payouts, PENDING_PAYOUTS[m])

\* must_pay: the funds are on the balance before the handler runs, and what
\* exceeds the price stays there.
Receive(price, surplus) ==
    /\ bank + price + surplus <= MaxBank
    /\ bank' = bank + price + surplus

\* safe_refund_or_queue and BankMsg::Send: a send the balance cannot cover
\* reverts the whole message.
Send(amount) ==
    /\ amount <= bank
    /\ bank' = bank - amount

---------------------------------------------------------------------------
\* execute_create_circle leaves the circle in Draft with its creator's lock.
CreatedCircle ==
    /\ circle_status = "Draft"
    /\ members_list = <<creator>> /\ pending_members = {}
    /\ payout_order_list = create_order
    /\ BLOCKED_MEMBERS = [m \in Addr |-> None]
    /\ members_at_start = None
    /\ max_missed_payments_allowed =
           cap_max_missed_by_rounds(
               compute_max_missed_base(exit_penalty_percent, late_fee_percent),
               max_members * total_cycles)
    /\ current_cycle_index = 0 /\ cycles_completed = 0 /\ elapsed = None
    /\ PAYOUTS = {} /\ DEPOSITS = [m \in Addr |-> {}]
    /\ MEMBER_LAST_DEPOSITED_CYCLE = [m \in Addr |-> None]
    /\ missed_count = Nothing /\ last_missed_cycle = [m \in Addr |-> None]
    /\ MEMBER_ACCUMULATED_LATE_FEES = Nothing
    /\ MEMBER_LOCKED_AMOUNTS = Nothing
    /\ creator_lock_amount = compute_creator_lock(contribution_amount)
    /\ total_amount_locked = compute_creator_lock(contribution_amount)
    /\ PENDING_PAYOUTS = Nothing /\ total_pending_payouts = 0
    /\ total_penalties_collected = 0 /\ total_platform_fees_collected = 0
    /\ CREATOR_REWARDS_CREDITED = FALSE

\* The lock came with the message; no other circle has money on the balance.
Init ==
    /\ CreatedCircle
    /\ \E surplus \in Surplus : bank = compute_creator_lock(contribution_amount) + surplus
===========================================================================
