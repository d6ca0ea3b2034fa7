----------------------------- MODULE TwoCircles -----------------------------
(***************************************************************************)
(* Two circles of one contract.  Each has its own storage; both keep their *)
(* money on the one balance of their denomination, and every handler that  *)
(* asks the bank sees the sum.  Each step is a call to one of them.  The   *)
(* second circle has the variables and the threshold with the suffix _2.   *)
(* Both are a CircleAlone: others is what the contract owes the second one *)
(* (an auxiliary variable, which no guard reads), and Owed what it owes    *)
(* the first.  The second one comes with the lemmas about such a circle.   *)
(***************************************************************************)
EXTENDS CircleAlone

CONSTANT distribution_threshold_2

\* What CreateCircle accepts for the second circle.
ASSUME SecondCircleAccepted == distribution_threshold_2 \in 0..min_members_required

VARIABLES
    circle_status_2, members_list_2, pending_members_2, payout_order_list_2,
    BLOCKED_MEMBERS_2, members_at_start_2, max_missed_payments_allowed_2,
    current_cycle_index_2, cycles_completed_2, elapsed_2, PAYOUTS_2,
    DEPOSITS_2, MEMBER_LAST_DEPOSITED_CYCLE_2, missed_count_2,
    last_missed_cycle_2, MEMBER_ACCUMULATED_LATE_FEES_2,
    MEMBER_LOCKED_AMOUNTS_2, creator_lock_amount_2, total_amount_locked_2,
    PENDING_PAYOUTS_2, total_pending_payouts_2, total_penalties_collected_2,
    total_platform_fees_collected_2, CREATOR_REWARDS_CREDITED_2

Second == INSTANCE CircleAloneProofs WITH
    distribution_threshold <- distribution_threshold_2,
    circle_status <- circle_status_2, members_list <- members_list_2,
    pending_members <- pending_members_2,
    payout_order_list <- payout_order_list_2,
    BLOCKED_MEMBERS <- BLOCKED_MEMBERS_2,
    members_at_start <- members_at_start_2,
    max_missed_payments_allowed <- max_missed_payments_allowed_2,
    current_cycle_index <- current_cycle_index_2,
    cycles_completed <- cycles_completed_2, elapsed <- elapsed_2,
    PAYOUTS <- PAYOUTS_2, DEPOSITS <- DEPOSITS_2,
    MEMBER_LAST_DEPOSITED_CYCLE <- MEMBER_LAST_DEPOSITED_CYCLE_2,
    missed_count <- missed_count_2, last_missed_cycle <- last_missed_cycle_2,
    MEMBER_ACCUMULATED_LATE_FEES <- MEMBER_ACCUMULATED_LATE_FEES_2,
    MEMBER_LOCKED_AMOUNTS <- MEMBER_LOCKED_AMOUNTS_2,
    creator_lock_amount <- creator_lock_amount_2,
    total_amount_locked <- total_amount_locked_2,
    PENDING_PAYOUTS <- PENDING_PAYOUTS_2,
    total_pending_payouts <- total_pending_payouts_2,
    total_penalties_collected <- total_penalties_collected_2,
    total_platform_fees_collected <- total_platform_fees_collected_2,
    CREATOR_REWARDS_CREDITED <- CREATOR_REWARDS_CREDITED_2,
    others <- Owed

second == <<circle_status_2, members_list_2, pending_members_2,
            payout_order_list_2, BLOCKED_MEMBERS_2, members_at_start_2,
            max_missed_payments_allowed_2, current_cycle_index_2,
            cycles_completed_2, elapsed_2, PAYOUTS_2, DEPOSITS_2,
            MEMBER_LAST_DEPOSITED_CYCLE_2, missed_count_2,
            last_missed_cycle_2, MEMBER_ACCUMULATED_LATE_FEES_2,
            MEMBER_LOCKED_AMOUNTS_2, creator_lock_amount_2,
            total_amount_locked_2, PENDING_PAYOUTS_2, total_pending_payouts_2,
            total_penalties_collected_2, total_platform_fees_collected_2,
            CREATOR_REWARDS_CREDITED_2>>

both == <<own, second, bank, others>>

---------------------------------------------------------------------------
InitBoth ==
    /\ CreatedCircle /\ Second!CreatedCircle
    /\ others = Second!Owed
    /\ bank = creator_lock_amount + creator_lock_amount_2

(***************************************************************************)
(* The people of CircleCoop in both circles, pauses included, and anybody  *)
(* may sweep: SweepDust takes all of the balance and does not look at what *)
(* other circles own of it.                                                *)
(***************************************************************************)
NextOfFirst ==
    /\ CoopCalls \/ SweepDust
    /\ UNCHANGED <<second, others>>

NextOfSecond ==
    /\ Second!CoopCalls \/ Second!SweepDust
    /\ UNCHANGED own
    /\ others' = Second!Owed'

SafetyOfBoth == InitBoth /\ [][NextOfFirst \/ NextOfSecond]_both

(***************************************************************************)
(* What the code does not see to and the accounts depend on: nobody sweeps *)
(* one circle while the contract owes anything to the other.               *)
(***************************************************************************)
SweepsWait ==
    /\ SweepDust => Second!Owed = 0
    /\ Second!SweepDust => Owed = 0

\* A bound of the model: the pauses of CircleCoop are left to its own runs.
NobodyPauses == circle_status' # "Paused" /\ circle_status_2' # "Paused"

\* While it runs or owes, somebody of each circle eventually does something:
\* a member deposits or withdraws, the keeper calls or the clock moves.
FirstMoves ==
    /\ \/ \E m \in Addr : DepositContribution(m) \/ Withdraw(m)
       \/ KeeperPays \/ KeeperAdvances \/ TimelyTick
    /\ UNCHANGED <<second, others>>

SecondMoves ==
    /\ \/ \E m \in Addr : Second!DepositContribution(m) \/ Second!Withdraw(m)
       \/ Second!KeeperPays \/ Second!KeeperAdvances \/ Second!TimelyTick
    /\ UNCHANGED own
    /\ others' = Second!Owed'

\* SafetyOfBoth, of those that wait with a sweep, and what they always do.
TwoSpec ==
    /\ InitBoth
    /\ [][(NextOfFirst \/ NextOfSecond) /\ SweepsWait /\ NobodyPauses]_both
    /\ WF_both(FirstMoves) /\ WF_both(SecondMoves)

---------------------------------------------------------------------------
(* Properties *)

\* The balance covers what both circles owe, claims included, and holds
\* nothing else until one of them is over: no payout of one circle was made
\* from the other's money, although the solvency check of ProcessPayout and
\* the creator's refund are measured against the sum.  Holds as long as
\* SweepsWait: a sweep is no better than the moment at which it is made.
JointAccounts ==
    /\ bank >= Owed + Second!Owed
    /\ circle_status \notin Closed /\ circle_status_2 \notin Second!Closed =>
           bank = Owed + Second!Owed

\* Each circle runs as if it were the only one of the contract, on a balance
\* of its own that is what the other does not owe: every step of it up to and
\* including its settlement, where the creator's refund is measured against the
\* balance, is a step of such a circle.  Afterwards Completed waits for the
\* other's money too.  Holds as long as SweepsWait.
EachStandsAlone ==
    /\ [][circle_status \notin Closed => Alone!CoopNext]_own
    /\ [][circle_status_2 \notin Second!Closed => Second!Alone!CoopNext]_second

\* Neither circle stops the other, nor leaves it without the money for its
\* claims: again and again both are through with their rounds and every claim
\* is paid.
BothSettle ==
    []<>(/\ circle_status # "Running" /\ total_pending_payouts = 0
         /\ circle_status_2 # "Running" /\ total_pending_payouts_2 = 0)
=============================================================================
