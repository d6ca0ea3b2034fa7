--------------------------- MODULE CircleRounds ---------------------------
(***************************************************************************)
(* The savings rounds: deposits, and the two round-closing calls of the    *)
(* keeper.  ProcessPayout closes a round that distributes, AdvanceRound    *)
(* one that does not; both charge the members that missed it, eject the    *)
(* defaulters and cover the rest from their locks.                         *)
(***************************************************************************)
EXTENDS CircleState

(***************************************************************************)
(* DepositContribution.  A member that missed rounds since its last        *)
(* deposit pays a late fee for each and refills its lock.  At the limit of *)
(* missed rounds the call fails, and what it wrote is reverted with it.    *)
(***************************************************************************)
\* A synthetic deposit counts as the last one only until m has made its first.
LastDeposited(m) ==
    IF MEMBER_LAST_DEPOSITED_CYCLE[m] # None
    THEN MEMBER_LAST_DEPOSITED_CYCLE[m]
    ELSE Max(DEPOSITS[m] \cup {0})

RoundsMissed(m) == Saturating(Saturating(current_cycle_index, LastDeposited(m)), 1)

\* Mutant: a whole lock, whatever is left of it.
LockRefillInFull(m) == IF m = creator THEN 0 ELSE contribution_amount

LockRefill(m) ==
    IF m = creator THEN 0 ELSE Saturating(contribution_amount, MEMBER_LOCKED_AMOUNTS[m])

\* Mutant: the fees stay on record.
ForgiveMissesKeepingFees(m) ==
    /\ missed_count' = [missed_count EXCEPT ![m] = 0]
    /\ last_missed_cycle' = [last_missed_cycle EXCEPT ![m] = None]
    /\ UNCHANGED MEMBER_ACCUMULATED_LATE_FEES

ForgiveMisses(m) ==
    /\ MEMBER_ACCUMULATED_LATE_FEES' = [MEMBER_ACCUMULATED_LATE_FEES EXCEPT ![m] = 0]
    /\ missed_count' = [missed_count EXCEPT ![m] = 0]
    /\ last_missed_cycle' = [last_missed_cycle EXCEPT ![m] = None]

\* What the handler checks before it looks at the money.
AcceptsDeposit(m) ==
    /\ circle_status = "Running"
    /\ m \in Members
    /\ Unblocked(m, current_cycle_index)
    /\ current_cycle_index \notin DEPOSITS[m]
    /\ RoundsMissed(m) < max_missed_payments_allowed

LateFeesDue(m)  == LateFee * RoundsMissed(m)
DepositPrice(m) == contribution_amount + LockRefill(m) + LateFeesDue(m)

DepositContribution(m) ==
    /\ AcceptsDeposit(m)
    /\ \E surplus \in Surplus : Receive(DepositPrice(m), surplus)
    /\ total_penalties_collected' = total_penalties_collected + LateFeesDue(m)
    /\ MEMBER_LOCKED_AMOUNTS' = [MEMBER_LOCKED_AMOUNTS EXCEPT ![m] = @ + LockRefill(m)]
    /\ total_amount_locked' = total_amount_locked + LockRefill(m) + contribution_amount
    /\ IF RoundsMissed(m) > 0 THEN ForgiveMisses(m) ELSE UNCHANGED misses
    /\ DEPOSITS' = [DEPOSITS EXCEPT ![m] = @ \cup {current_cycle_index}]
    /\ MEMBER_LAST_DEPOSITED_CYCLE' =
           [MEMBER_LAST_DEPOSITED_CYCLE EXCEPT ![m] = current_cycle_index]
    /\ UNCHANGED <<circle_status, roster, terms, schedule, creator_lock_amount, claims,
                   total_platform_fees_collected, CREATOR_REWARDS_CREDITED>>

---------------------------------------------------------------------------
(* Ejection *)

\* should_eject_member, given the member's counters and the limit in force
should_eject_member(m, count, fees, limit) ==
    LET lock == original_lock_for_member(m)
    IN  /\ lock > 0
        /\ \/ limit > 0 /\ count >= limit
           \/ fees + ExitPenalty(lock) >= lock

\* max_missed_payments_allowed once k members were ejected by this call
LimitAfter(k) == IF k = 0 THEN max_missed_payments_allowed
                 ELSE MaxMissed(Len(members_list) - k, TotalRounds)

\* The loops over the members run in list order and every ejection tightens
\* the limit for those that come later: failing[k] are the members that fail
\* once k were ejected.
EjectedFrom(S, failing) ==
    CHOOSE E \in SUBSET S :
        \A m \in S : m \in E <=> m \in failing[Cardinality({x \in E : Seat(x) < Seat(m)})]

\* What an ejection adds to the penalties; the lock itself stays in place.
Forfeits(E, fees) ==
    [m \in Addr |->
        IF m \in E
        THEN AtMost(fees[m] + ExitPenalty(MEMBER_LOCKED_AMOUNTS[m]), MEMBER_LOCKED_AMOUNTS[m])
        ELSE 0]

\* eject_member_from_circle, for the members of E
EjectMembers(E) ==
    /\ members_list' = Without(members_list, E)
    /\ payout_order_list' = IF payout_order_list = None THEN None
                            ELSE Without(payout_order_list, E)
    /\ BLOCKED_MEMBERS' = [m \in Addr |-> IF m \in E THEN current_cycle_index
                                          ELSE BLOCKED_MEMBERS[m]]
    /\ max_missed_payments_allowed' = LimitAfter(Cardinality(E))
    /\ UNCHANGED <<pending_members, members_at_start>>

\* Those that CheckAndEject finds in default.
InDefault ==
    EjectedFrom(Members, [k \in 0..Cardinality(Members) |->
        {m \in Members :
            should_eject_member(m, missed_count[m], MEMBER_ACCUMULATED_LATE_FEES[m], LimitAfter(k))}])

\* CheckAndEject; when nobody qualifies it succeeds and changes nothing.
CheckAndEject ==
    /\ circle_status \in {"Running", "Paused"}
    /\ InDefault # {}
    /\ EjectMembers(InDefault)
    /\ total_penalties_collected' =
           total_penalties_collected + SumOf(Forfeits(InDefault, MEMBER_ACCUMULATED_LATE_FEES))
    /\ MEMBER_ACCUMULATED_LATE_FEES' =
           [m \in Addr |-> IF m \in InDefault THEN 0 ELSE MEMBER_ACCUMULATED_LATE_FEES[m]]
    /\ last_missed_cycle' =
           [m \in Addr |-> IF m \in InDefault THEN current_cycle_index ELSE last_missed_cycle[m]]
    /\ UNCHANGED <<circle_status, schedule, deposits, missed_count, locks, claims,
                   total_platform_fees_collected, CREATOR_REWARDS_CREDITED, bank>>

---------------------------------------------------------------------------
(* Closing a round: what ProcessPayout and AdvanceRound do alike *)

\* Mutant: the round is closed from its first tick on.
RoundBegun == elapsed # None => elapsed >= 0

RoundOver   == elapsed # None => elapsed >= CycleDuration
MayTrigger(sender) == manual_trigger_enabled => sender = creator

Missing     == {m \in Active : current_cycle_index \notin DEPOSITS[m]}
GraceIsOver == Missing # {} /\ elapsed # None => elapsed > GracePeriod

\* Mutant: not again while it is behind.
ChargedIfUpToDate == {m \in Missing : last_missed_cycle[m] = None}

\* A member is charged at most once for a round.
Charged == {m \in Missing : last_missed_cycle[m] # current_cycle_index}
MissedAfter == [m \in Addr |-> missed_count[m] + (IF m \in Charged THEN 1 ELSE 0)]
FeesAfter   == [m \in Addr |-> MEMBER_ACCUMULATED_LATE_FEES[m]
                               + (IF m \in Charged THEN LateFee ELSE 0)]

Defaulters ==
    EjectedFrom(Missing, [k \in 0..Cardinality(Missing) |->
        {m \in Missing :
            \/ should_eject_member(m, MissedAfter[m], FeesAfter[m], LimitAfter(k))
            \/ m # creator /\ MEMBER_LOCKED_AMOUNTS[m] < contribution_amount}])

\* The locks that pay for this round: those of the missing members that stay,
\* never the creator's, and those of the members blocked by an earlier call.
PaysFromLock(m) ==
    IF m \in Missing THEN m # creator /\ m \notin Defaulters
    ELSE ~Unblocked(m, current_cycle_index)

LockUse == [m \in Addr |-> IF PaysFromLock(m)
                           THEN AtMost(MEMBER_LOCKED_AMOUNTS[m], contribution_amount) ELSE 0]
LocksAfter == [m \in Addr |-> MEMBER_LOCKED_AMOUNTS[m] - LockUse[m]]

\* Mutant: a record even for a member whose lock is empty.
DepositsAfterEvenIfEmpty ==
    [m \in Addr |-> IF PaysFromLock(m) THEN DEPOSITS[m] \cup {current_cycle_index} ELSE DEPOSITS[m]]

DepositsAfter ==
    [m \in Addr |-> IF LockUse[m] > 0 THEN DEPOSITS[m] \cup {current_cycle_index} ELSE DEPOSITS[m]]
PenaltiesAfter == total_penalties_collected + SumOf(Forfeits(Defaulters, FeesAfter))

ChargeMissing ==
    /\ EjectMembers(Defaulters)
    /\ missed_count' = MissedAfter
    /\ last_missed_cycle' =
           [m \in Addr |-> IF m \in Missing THEN current_cycle_index ELSE last_missed_cycle[m]]
    /\ MEMBER_ACCUMULATED_LATE_FEES' =
           [m \in Addr |-> IF m \in Defaulters THEN 0 ELSE FeesAfter[m]]
    /\ DEPOSITS' = DepositsAfter
    /\ UNCHANGED MEMBER_LAST_DEPOSITED_CYCLE

NextRound ==
    /\ current_cycle_index' = current_cycle_index + 1
    /\ elapsed' = IF elapsed = None THEN None ELSE elapsed - CycleDuration

---------------------------------------------------------------------------
\* Mutant: no last round.
RoundsNeverEnd == TRUE

\* The guard counts max_members, not the members at the start.
RoundsLeft == current_cycle_index < max_members * total_cycles

AdvanceRound(sender) ==
    LET n == Cardinality(Active)
    IN  /\ circle_status = "Running"
        /\ MayTrigger(sender)
        /\ RoundOver
        /\ n > 0
        /\ round_in_cycle(current_cycle_index, n)
               < distribution_min_round_for_active(distribution_threshold, n)
        /\ GraceIsOver
        /\ RoundsLeft
        /\ ChargeMissing
        /\ total_penalties_collected' = PenaltiesAfter
        /\ MEMBER_LOCKED_AMOUNTS' = LocksAfter
        /\ total_amount_locked' = Saturating(total_amount_locked, SumOf(LockUse))
        /\ NextRound
        /\ UNCHANGED <<circle_status, cycles_completed, PAYOUTS, creator_lock_amount, claims,
                       total_platform_fees_collected, CREATOR_REWARDS_CREDITED, bank>>

---------------------------------------------------------------------------
(* ProcessPayout: who is paid, and how much *)

Payees == Active \ Defaulters
PayoutRound == round_in_cycle(current_cycle_index, Cardinality(Payees))
FirstPayoutRound ==
    distribution_min_round_for_active(distribution_threshold, Cardinality(Payees))

\* Mutant: the pool of one round for a whole cycle.
BasePayoutOfOneRound == contribution_amount * Cardinality(Payees)

\* The last round of a Total cycle pays the pool of the whole cycle to everyone.
SplitsPool == distribution_threshold = Total /\ PayoutRound = FirstPayoutRound

BasePayout ==
    LET n        == Cardinality(Payees)
        deposits_count == Cardinality({m \in Payees : current_cycle_index \in DepositsAfter[m]})
    IN  IF SplitsPool THEN contribution_amount * n * n
        ELSE contribution_amount * deposits_count

Pool           == BasePayout + SumOf(LockUse)
PlatformFee    == (Pool * platform_fee_percent) \div BasisPoints

\* Mutant: the fee is booked and not deducted.
PayoutBeforeFee == Pool

Payout         == Pool - PlatformFee

ActiveOrder    == Without(payout_order_list, Addr \ Payees)
Recipient      == ActiveOrder[((PayoutRound - 1) % Len(ActiveOrder)) + 1]

RoundCredits ==
    IF SplitsPool THEN EqualSplit(Payout, Payees)
    ELSE [m \in Addr |-> IF m = Recipient THEN Payout ELSE 0]

(***************************************************************************)
(* The last round also returns the locks, splits the penalties and gives   *)
(* the creator what is left of the balance, up to its own lock.            *)
(***************************************************************************)
\* Mutant: one round too late.
IsLastRoundPassed == current_cycle_index > TotalRounds

IsLastRound == current_cycle_index >= TotalRounds
Spendable   == Saturating(bank, total_pending_payouts)
OwedNow     == Payout + (IF IsLastRound THEN SumOf(LocksAfter) + PenaltiesAfter ELSE 0)

\* Mutant: all of the balance, whoever it belongs to.
CreatorRefundUncapped ==
    IF IsLastRound /\ LocksAfter[creator] = 0 THEN Saturating(Spendable, OwedNow) ELSE 0

CreatorRefund ==
    IF IsLastRound /\ LocksAfter[creator] = 0
    THEN AtMost(Saturating(Spendable, OwedNow), creator_lock_amount)
    ELSE 0

FinalCredits ==
    LET penaltyShare == EqualSplit(PenaltiesAfter, Payees)
    IN  [m \in Addr |-> RoundCredits[m] + LocksAfter[m] + penaltyShare[m]
            + (IF m = creator /\ m \in Payees THEN CreatorRefund ELSE 0)]

\* "Finalizing": the circle owes nothing but pending payouts, and the
\* platform fees leave at once.
FinalizeCircle ==
    /\ circle_status' = "Finalizing"
    /\ CreditPending(FinalCredits)
    /\ MEMBER_LOCKED_AMOUNTS' = Nothing
    /\ creator_lock_amount' = 0
    /\ total_amount_locked' = 0
    /\ total_penalties_collected' = 0
    /\ Send(total_platform_fees_collected + PlatformFee)
    /\ total_platform_fees_collected' = 0
    /\ UNCHANGED <<current_cycle_index, elapsed>>

PayRound ==
    /\ CreditPending(RoundCredits)
    /\ MEMBER_LOCKED_AMOUNTS' = LocksAfter
    /\ total_amount_locked' = Saturating(total_amount_locked, BasePayout + SumOf(LockUse))
    /\ total_penalties_collected' = PenaltiesAfter
    /\ total_platform_fees_collected' = total_platform_fees_collected + PlatformFee
    /\ NextRound
    /\ UNCHANGED <<circle_status, creator_lock_amount, bank>>

\* Mutant: who has missed the round counts as covered.
AllHaveDepositedOrMissed == \A m \in Payees \ Missing : current_cycle_index \in DepositsAfter[m]

AllHaveDeposited == \A m \in Payees : current_cycle_index \in DepositsAfter[m]

ProcessPayout(sender) ==
    /\ circle_status = "Running"
    /\ current_cycle_index \notin PAYOUTS
    /\ MayTrigger(sender)
    /\ RoundOver
    /\ GraceIsOver
    /\ Payees # {}
    /\ PayoutRound >= FirstPayoutRound
    /\ AllHaveDeposited
    /\ Spendable >= OwedNow + CreatorRefund
    /\ ~SplitsPool => payout_order_list # None /\ ActiveOrder # <<>>
    /\ ChargeMissing
    /\ PAYOUTS' = PAYOUTS \cup {current_cycle_index}
    /\ cycles_completed' = cycles_completed + 1
    /\ IF IsLastRound THEN FinalizeCircle ELSE PayRound
    /\ UNCHANGED CREATOR_REWARDS_CREDITED
===========================================================================
