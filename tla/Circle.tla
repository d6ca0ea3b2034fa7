------------------------------ MODULE Circle ------------------------------
(***************************************************************************)
(* A savings circle under every message its members, its creator, the      *)
(* keeper and strangers can send, in any order, with the block clock.      *)
(***************************************************************************)
EXTENDS CircleMembership, CircleRounds, CircleTreasury

Rounds == 0..(max_members * total_cycles)

Next ==
    \/ \E m \in Addr :
           \/ JoinCircle(m)
           \/ ExitCircle(m)
           \/ DepositContribution(m)
           \/ ProcessPayout(m)
           \/ AdvanceRound(m)
           \/ Withdraw(m)
    \/ \E m \in Invited : InviteMember(m)
    \/ \E m \in Added   : AddPrivateMember(m)
    \/ \E m \in Blocked : BlockMember(m)
    \/ StartCircle
    \/ CancelCircle
    \/ CheckAndEject
    \/ WithdrawPlatformFees
    \/ SweepDust
    \/ \E reward \in Rewards : DepositCreatorReward(reward)
    \/ \E round \in Rounds : DistributeBlockedFunds(round)
    \/ PauseCircle
    \/ UnpauseCircle
    \/ EmergencyStop
    \/ Tick

Spec == Init /\ [][Next]_vars

---------------------------------------------------------------------------
(* Types *)

\* The money and the counters: natural numbers in their ledgers.
LedgerTypeOK ==
    /\ PENDING_PAYOUTS \in [Addr -> Nat] /\ total_pending_payouts \in Nat
    /\ MEMBER_LOCKED_AMOUNTS \in [Addr -> Nat]
    /\ creator_lock_amount \in Nat /\ total_amount_locked \in Nat
    /\ MEMBER_ACCUMULATED_LATE_FEES \in [Addr -> Nat]
    /\ missed_count \in [Addr -> Nat]
    /\ total_penalties_collected \in Nat /\ total_platform_fees_collected \in Nat
    /\ bank \in Nat
    /\ CREATOR_REWARDS_CREDITED \in BOOLEAN

\* The type invariant.  The round never passes max_members * total_cycles,
\* the roster has no duplicates and never exceeds max_members: no code
\* checks any of these, they follow from how the handlers combine.
TypeOK ==
    /\ LedgerTypeOK
    /\ circle_status \in Status
    /\ members_list \in Seq(Addr) /\ Cardinality(Members) = Len(members_list)
    /\ Len(members_list) <= max_members
    /\ pending_members \subseteq Addr
    /\ payout_order_list # None => payout_order_list \in Seq(Addr)
    /\ BLOCKED_MEMBERS \in [Addr -> Nat \cup {None}]
    /\ members_at_start \in (0..max_members) \cup {None}
    /\ max_missed_payments_allowed \in Nat \ {0}
    /\ current_cycle_index \in Rounds
    /\ cycles_completed \in Nat
    /\ elapsed \in (0..MaxElapsed) \cup {None}
    /\ PAYOUTS \subseteq Rounds
    /\ DEPOSITS \in [Addr -> SUBSET Rounds]
    /\ MEMBER_LAST_DEPOSITED_CYCLE \in [Addr -> Rounds \cup {None}]
    /\ last_missed_cycle \in [Addr -> Rounds \cup {None}]

---------------------------------------------------------------------------
(* Safety *)

\* state.rs: "total_pending_payouts == sum(PENDING_PAYOUTS ...)", although
\* the total is kept by separate additions, some of them saturating.
PendingTotalMatches == total_pending_payouts = SumOf(PENDING_PAYOUTS)

\* A join lock is whole or gone: the synthetic deposits record the amount
\* taken, and no round is ever covered by a part of a contribution.
LocksAreWhole ==
    /\ \A m \in Addr : MEMBER_LOCKED_AMOUNTS[m] \in {0, contribution_amount}
    /\ creator_lock_amount \in {0, compute_creator_lock(contribution_amount)}

\* Late fees are charged once per missed round, and forgiven with the misses:
\* never more fees on record than misses on record.
FeesWithinMisses ==
    \A m \in Addr : MEMBER_ACCUMULATED_LATE_FEES[m] <= LateFee * missed_count[m]

\* Two counts of the rounds a member missed, kept by different handlers: the
\* deposit counts from the deposit records, the round-closing calls add up on
\* record.  Whatever a member did and whatever covered for it, it never pays
\* for a round it was not charged for, and was never charged twice for one.
\* The two counts need not agree: a round its lock has covered leaves a
\* deposit record and stays on the record of late fees.
\* Holds when Added = {} and ~emergency_stop_enabled, for members never
\* blocked: a second BlockMember lets a blocked member deposit again, and
\* counts the rounds in which it could not.
MissesAreChargedOnce ==
    circle_status \in {"Running", "Paused"} =>
        \A m \in Members : BLOCKED_MEMBERS[m] = None =>
            /\ LateFeesDue(m) <= MEMBER_ACCUMULATED_LATE_FEES[m]
            /\ MEMBER_ACCUMULATED_LATE_FEES[m] <= LateFee * (current_cycle_index - 1)

\* The settlement leaves nothing behind: a finalizing circle owes nothing but
\* pending payouts, and a completed one (state.rs: "Becomes Completed when
\* contract balance = 0") neither owes nor holds anything, even if the circle
\* came back to life in between.
SettledIsEmpty ==
    /\ circle_status \in {"Finalizing", "Completed"} =>
           /\ SumOf(MEMBER_LOCKED_AMOUNTS) = 0 /\ creator_lock_amount = 0
           /\ total_penalties_collected = 0 /\ total_platform_fees_collected = 0
    /\ circle_status = "Completed" => bank = 0 /\ total_pending_payouts = 0

\* While the circle runs, the payout order names its members and each once:
\* nobody is skipped in favour of someone who left, nobody is paid twice.
\* Holds for an order generated at the start, when Added = {} and
\* ~emergency_stop_enabled.
OrderMatchesRoster ==
    circle_status \in {"Running", "Paused"} /\ payout_order_list # None =>
        /\ ToSet(payout_order_list) = Members
        /\ Len(payout_order_list) = Len(members_list)

---------------------------------------------------------------------------
(* Action properties *)

\* A credited payout is the member's: whatever else happens to the circle, it
\* only shrinks by being sent, whole, to that member and to nobody else.
ClaimsOnlyWithdrawn ==
    [][\A m \in Addr : PENDING_PAYOUTS'[m] < PENDING_PAYOUTS[m] =>
           /\ PENDING_PAYOUTS'[m] = 0
           /\ bank' = bank - PENDING_PAYOUTS[m]
           /\ \A x \in Addr \ {m} : PENDING_PAYOUTS'[x] = PENDING_PAYOUTS[x]]_vars

\* "All active members must have a real-or-synthetic deposit for this round":
\* a payout never counts a contribution that was not made, also in the call
\* that ejects defaulters and draws the others' locks.
PayoutsAreFullyFunded ==
    [][\A r \in PAYOUTS' \ PAYOUTS :
           \A m \in ToSet(members_list') :
               (BLOCKED_MEMBERS'[m] # None => BLOCKED_MEMBERS'[m] > r) => r \in DEPOSITS'[m]]_vars

\* A deposit record, real or synthetic, stands for a contribution: it came in
\* with the message or was taken from that member's lock.
DepositsArePaidFor ==
    [][\A m \in Addr : DEPOSITS'[m] # DEPOSITS[m] =>
           \/ bank' >= bank + contribution_amount
           \/ MEMBER_LOCKED_AMOUNTS'[m] + contribution_amount <= MEMBER_LOCKED_AMOUNTS[m]]_vars

---------------------------------------------------------------------------
(* Refinement *)

Phase == CASE circle_status \in {"Draft", "Open", "Full"} -> "forming"
           [] circle_status \in {"Running", "Paused"}     -> "running"
           [] OTHER                                       -> "over"

Lifecycle == INSTANCE CircleLifecycle
             WITH phase <- Phase, round <- current_cycle_index, payouts <- PAYOUTS

\* Members that come and go, defaults, ejections, pauses and cancellations
\* leave the circle's life in order: rounds one by one, each paid at most
\* once, no payout taken back by a cancellation, no return from the end.
\* Holds when Added = {} and ~emergency_stop_enabled.
LifeIsLinear == Lifecycle!Spec
===========================================================================
