--------------------------- MODULE CircleProofs ---------------------------
(***************************************************************************)
(* Theorems about Circle, for every set of members, every configuration    *)
(* create_circle accepts and every sequence of messages.                   *)
(***************************************************************************)
EXTENDS Circle, CircleMathProofs

\* The rounds on record for a member are numbers, and there is a last one.
DepositsInv ==
    /\ DEPOSITS \in [Addr -> SUBSET Nat]
    /\ \A m \in Addr : \E bound \in Nat : \A r \in DEPOSITS[m] : r <= bound
    /\ MEMBER_LAST_DEPOSITED_CYCLE \in [Addr -> Nat \cup {None}]

\* The inductive invariant of the ledgers: the amounts are natural numbers,
\* the total of the claims is their sum, and the round and the deposits are
\* such that the rounds a member missed can be counted.
LedgerInv ==
    LedgerTypeOK /\ current_cycle_index \in Nat /\ PendingTotalMatches /\ DepositsInv

---------------------------------------------------------------------------
(* The readers return amounts *)

LEMMA ConfigurationType ==
    /\ contribution_amount \in Nat \ {0} /\ platform_fee_percent \in 0..(BasisPoints - 1)
    /\ exit_penalty_percent \in Nat /\ late_fee_percent \in Nat
    /\ IsFiniteSet(Addr) /\ creator \in Addr
    /\ Surplus \subseteq Nat /\ Rewards \subseteq Nat
BY CreateCircleAccepts, PlatformFeeBelowWhole, BoundsAreNatural

LEMMA FeesType ==
    /\ LateFee \in Nat
    /\ \A locked \in Nat : ExitPenalty(locked) \in Nat
BY ConfigurationType, RateType DEF LateFee, ExitPenalty

LEMMA SumType ==
    ASSUME NEW f \in [Addr -> Nat]
    PROVE  SumOf(f) \in Nat
BY ConfigurationType, SumOfType

LEMMA CountType ==
    ASSUME NEW S \in SUBSET Addr
    PROVE  /\ IsFiniteSet(S) /\ Cardinality(S) \in Nat
           /\ \A m \in S : Cardinality(S) \in Nat \ {0}
<1>1. IsFiniteSet(S)
  BY ConfigurationType, FS_Subset
<1>2. Cardinality(S) \in Nat /\ (Cardinality(S) = 0 <=> S = {})
  BY <1>1, FS_CardinalityType, FS_EmptySet
<1> QED
  BY <1>1, <1>2

\* An equal split gives everybody a natural number of coins.
LEMMA EqualSplitType ==
    ASSUME NEW amount \in Nat, NEW S \in SUBSET Addr
    PROVE  EqualSplit(amount, S) \in [Addr -> Nat]
<1>1. ASSUME NEW m \in S
      PROVE  amount \div Cardinality(S) \in Nat /\ amount % Cardinality(S) \in Nat
  <2>1. Cardinality(S) \in Nat \ {0}
    BY CountType
  <2> QED BY <2>1, DivType
<1> QED
  BY <1>1 DEF EqualSplit

---------------------------------------------------------------------------
(* The writers of the claims keep them and their total together *)

LEMMA CreditKeeps ==
    ASSUME LedgerInv, NEW credits \in [Addr -> Nat], CreditPending(credits)
    PROVE  /\ PENDING_PAYOUTS' \in [Addr -> Nat] /\ total_pending_payouts' \in Nat
           /\ PendingTotalMatches'
<1>1. PENDING_PAYOUTS' = [m \in Addr |-> PENDING_PAYOUTS[m] + credits[m]]
  BY DEF CreditPending
<1>2. PENDING_PAYOUTS \in [Addr -> Nat]
  BY DEF LedgerInv, LedgerTypeOK
<1>3. SumOf(PENDING_PAYOUTS') = SumOf(PENDING_PAYOUTS) + SumOf(credits)
  BY <1>1, <1>2, ConfigurationType, SumOfPlus
<1>4. SumOf(credits) \in Nat
  BY SumType
<1>5. total_pending_payouts' = SumOf(PENDING_PAYOUTS')
  BY <1>3 DEF CreditPending, LedgerInv, PendingTotalMatches
<1>6. PENDING_PAYOUTS' \in [Addr -> Nat]
  BY <1>1, <1>2
<1> QED
  BY <1>4, <1>5, <1>6 DEF CreditPending, LedgerInv, LedgerTypeOK, PendingTotalMatches

\* The saturating subtraction of the debit never saturates.
LEMMA DebitKeeps ==
    ASSUME LedgerInv, NEW m \in Addr, DebitPending(m)
    PROVE  /\ PENDING_PAYOUTS' \in [Addr -> Nat] /\ total_pending_payouts' \in Nat
           /\ PendingTotalMatches'
<1>1. PENDING_PAYOUTS \in [Addr -> Nat] /\ total_pending_payouts \in Nat
  BY DEF LedgerInv, LedgerTypeOK
<1>2. /\ SumOf(PENDING_PAYOUTS') = SumOf(PENDING_PAYOUTS) - PENDING_PAYOUTS[m]
      /\ PENDING_PAYOUTS[m] <= SumOf(PENDING_PAYOUTS)
  BY <1>1, ConfigurationType, SumOfWithout DEF DebitPending
<1>3. PENDING_PAYOUTS[m] \in Nat
  BY <1>1
<1>4. total_pending_payouts = SumOf(PENDING_PAYOUTS)
  BY DEF LedgerInv, PendingTotalMatches
<1>5. total_pending_payouts' = total_pending_payouts - PENDING_PAYOUTS[m]
  BY <1>1, <1>2, <1>3, <1>4, SaturatingType DEF DebitPending
<1> QED
  BY <1>1, <1>2, <1>3, <1>4, <1>5 DEF DebitPending, PendingTotalMatches

---------------------------------------------------------------------------
(* The amounts of a round *)

LEMMA RosterType ==
    /\ Members \subseteq Addr /\ Active \subseteq Addr
    /\ Missing \subseteq Addr /\ Payees \subseteq Addr
BY DEF Members, Active, Missing, Payees

LEMMA ChargesType ==
    ASSUME LedgerInv
    PROVE  /\ MissedAfter \in [Addr -> Nat] /\ FeesAfter \in [Addr -> Nat]
           /\ LockUse \in [Addr -> Nat] /\ LocksAfter \in [Addr -> Nat]
<1>1. missed_count \in [Addr -> Nat] /\ MEMBER_ACCUMULATED_LATE_FEES \in [Addr -> Nat]
      /\ MEMBER_LOCKED_AMOUNTS \in [Addr -> Nat]
  BY DEF LedgerInv, LedgerTypeOK
<1>2. MissedAfter \in [Addr -> Nat] /\ FeesAfter \in [Addr -> Nat]
  BY <1>1, FeesType DEF MissedAfter, FeesAfter
<1>3. ASSUME NEW m \in Addr
      PROVE  /\ AtMost(MEMBER_LOCKED_AMOUNTS[m], contribution_amount) \in Nat
             /\ AtMost(MEMBER_LOCKED_AMOUNTS[m], contribution_amount) <= MEMBER_LOCKED_AMOUNTS[m]
  BY <1>1, AtMostType, ConfigurationType
<1>4. LockUse \in [Addr -> Nat]
  BY <1>3 DEF LockUse
<1>5. ASSUME NEW m \in Addr  PROVE MEMBER_LOCKED_AMOUNTS[m] - LockUse[m] \in Nat
  BY <1>1, <1>3 DEF LockUse
<1> QED
  BY <1>2, <1>4, <1>5 DEF LocksAfter

LEMMA ForfeitsType ==
    ASSUME LedgerInv, NEW E, NEW fees \in [Addr -> Nat]
    PROVE  Forfeits(E, fees) \in [Addr -> Nat] /\ SumOf(Forfeits(E, fees)) \in Nat
<1>1. MEMBER_LOCKED_AMOUNTS \in [Addr -> Nat]
  BY DEF LedgerInv, LedgerTypeOK
<1>2. ASSUME NEW m \in Addr
      PROVE  AtMost(fees[m] + ExitPenalty(MEMBER_LOCKED_AMOUNTS[m]), MEMBER_LOCKED_AMOUNTS[m]) \in Nat
  <2>1. ExitPenalty(MEMBER_LOCKED_AMOUNTS[m]) \in Nat
    BY <1>1, FeesType
  <2>2. fees[m] + ExitPenalty(MEMBER_LOCKED_AMOUNTS[m]) \in Nat
    BY <2>1
  <2> QED BY <1>1, <2>2, AtMostType
<1>3. Forfeits(E, fees) \in [Addr -> Nat]
  BY <1>2 DEF Forfeits
<1> QED
  BY <1>3, SumType

LEMMA PenaltiesType ==
    ASSUME LedgerInv
    PROVE  PenaltiesAfter \in Nat
<1>1. SumOf(Forfeits(Defaulters, FeesAfter)) \in Nat
  BY ForfeitsType, ChargesType
<1> QED
  BY <1>1 DEF PenaltiesAfter, LedgerInv, LedgerTypeOK

\* The pool, the fee and what is left of it, whatever was deposited.
LEMMA PayoutType ==
    ASSUME LedgerInv
    PROVE  /\ BasePayout \in Nat /\ PlatformFee \in Nat /\ Payout \in Nat
           /\ SumOf(LockUse) \in Nat /\ SumOf(LocksAfter) \in Nat
<1>1. SumOf(LockUse) \in Nat /\ SumOf(LocksAfter) \in Nat
  BY ChargesType, SumType
<1>2. BasePayout \in Nat
  <2>1. Cardinality(Payees) \in Nat
    BY RosterType, CountType
  <2>2. {m \in Payees : current_cycle_index \in DepositsAfter[m]} \subseteq Addr
    BY RosterType
  <2>3. Cardinality({m \in Payees : current_cycle_index \in DepositsAfter[m]}) \in Nat
    BY <2>2, CountType
  <2>4. contribution_amount * Cardinality(Payees) * Cardinality(Payees) \in Nat
    BY <2>1, ConfigurationType, TimesType
  <2>5. contribution_amount
            * Cardinality({m \in Payees : current_cycle_index \in DepositsAfter[m]}) \in Nat
    BY <2>3, ConfigurationType, TimesType
  <2> QED BY <2>4, <2>5 DEF BasePayout
<1>3. Pool \in Nat
  BY <1>1, <1>2 DEF Pool
<1> QED
  BY <1>1, <1>2, <1>3, ConfigurationType, RateIsAPart DEF PlatformFee, Payout

LEMMA CreditsType ==
    ASSUME LedgerInv
    PROVE  RoundCredits \in [Addr -> Nat] /\ FinalCredits \in [Addr -> Nat]
<1>1. RoundCredits \in [Addr -> Nat]
  <2>1. EqualSplit(Payout, Payees) \in [Addr -> Nat]
    BY PayoutType, RosterType, EqualSplitType
  <2> QED BY <2>1, PayoutType DEF RoundCredits
<1>2. EqualSplit(PenaltiesAfter, Payees) \in [Addr -> Nat]
  BY PenaltiesType, RosterType, EqualSplitType
<1>3. CreatorRefund \in Nat
  <2>1. Spendable \in Nat
    BY SaturatingType DEF Spendable, LedgerInv, LedgerTypeOK
  <2>2. OwedNow \in Nat
    BY PayoutType, PenaltiesType DEF OwedNow
  <2>3. Saturating(Spendable, OwedNow) \in Nat
    BY <2>1, <2>2, SaturatingType
  <2>4. creator_lock_amount \in Nat
    BY DEF LedgerInv, LedgerTypeOK
  <2> QED BY <2>3, <2>4, AtMostType DEF CreatorRefund
<1> QED
  BY <1>1, <1>2, <1>3, ChargesType DEF FinalCredits

---------------------------------------------------------------------------
(* Every action keeps the invariant of the ledgers *)

LEMMA DepositsStay ==
    ASSUME LedgerInv, UNCHANGED deposits
    PROVE  DepositsInv'
BY DEF LedgerInv, DepositsInv, deposits

\* Actions that touch no ledger, no round and no deposit.
LEMMA KeepsUnchanged ==
    ASSUME LedgerInv,
           UNCHANGED <<current_cycle_index, deposits, misses, locks, claims, pools, bank>>
    PROVE  LedgerInv'
BY DepositsStay DEF LedgerInv, LedgerTypeOK, PendingTotalMatches, misses, locks, claims, pools

LEMMA KeepsJoin ==
    ASSUME LedgerInv, NEW m \in Addr, JoinCircle(m)
    PROVE  LedgerInv'
<1>1. current_cycle_index' \in Nat
  BY DEF JoinCircle, StartRunning, schedule, LedgerInv
<1>2. bank' \in Nat
  BY ConfigurationType DEF JoinCircle, Receive, LedgerInv, LedgerTypeOK
<1>3. MEMBER_LOCKED_AMOUNTS' \in [Addr -> Nat] /\ total_amount_locked' \in Nat
  BY ConfigurationType DEF JoinCircle, LedgerInv, LedgerTypeOK
<1> QED
  BY <1>1, <1>2, <1>3, DepositsStay DEF JoinCircle, LedgerInv, LedgerTypeOK, PendingTotalMatches,
                          misses, claims, pools

LEMMA KeepsExitBeforeStart ==
    ASSUME LedgerInv, NEW m \in Addr, ExitBeforeStart(m)
    PROVE  LedgerInv'
<1>1. PICK S : /\ \E e \in Nat : Send(SumOf(RefundedLocks(S)) + e)
               /\ MEMBER_LOCKED_AMOUNTS' =
                      [x \in Addr |-> MEMBER_LOCKED_AMOUNTS[x] - RefundedLocks(S)[x]]
               /\ total_amount_locked' = Saturating(total_amount_locked, SumOf(RefundedLocks(S)))
  BY DEF ExitBeforeStart, LedgerInv, LedgerTypeOK
<1>2. RefundedLocks(S) \in [Addr -> Nat]
  BY DEF RefundedLocks, LedgerInv, LedgerTypeOK
<1>3. SumOf(RefundedLocks(S)) \in Nat
  BY <1>2, SumType
<1>4. MEMBER_LOCKED_AMOUNTS' \in [Addr -> Nat]
  BY <1>1 DEF RefundedLocks, LedgerInv, LedgerTypeOK
<1>5. total_amount_locked' \in Nat /\ bank' \in Nat
  BY <1>1, <1>3, SaturatingType DEF Send, LedgerInv, LedgerTypeOK
<1> QED
  BY <1>4, <1>5, DepositsStay DEF ExitBeforeStart, LedgerInv, LedgerTypeOK, PendingTotalMatches,
                    schedule, misses, claims, pools

LEMMA KeepsExitAfterStart ==
    ASSUME LedgerInv, NEW m \in Addr, ExitAfterStart(m)
    PROVE  LedgerInv'
<1> DEFINE locked  == MEMBER_LOCKED_AMOUNTS[m]
           kept    == AtMost(MEMBER_ACCUMULATED_LATE_FEES[m] + ExitPenalty(locked), locked)
           credits == IF m = creator /\ creator_lock_amount > 0
                      THEN EqualSplit(creator_lock_amount, Active \ {m}) ELSE Nothing
<1>1. locked \in Nat /\ MEMBER_ACCUMULATED_LATE_FEES[m] \in Nat
  BY DEF LedgerInv, LedgerTypeOK
<1>2. kept \in Nat /\ kept <= locked
  <2>1. MEMBER_ACCUMULATED_LATE_FEES[m] + ExitPenalty(locked) \in Nat
    BY <1>1, FeesType
  <2> QED BY <1>1, <2>1, AtMostType
<1>3. credits \in [Addr -> Nat]
  <2>1. creator_lock_amount \in Nat
    BY DEF LedgerInv, LedgerTypeOK
  <2>2. EqualSplit(creator_lock_amount, Active \ {m}) \in [Addr -> Nat]
    BY <2>1, RosterType, EqualSplitType
  <2> QED BY <2>2 DEF Nothing
<1>4. CreditPending(credits)
  BY DEF ExitAfterStart
<1> HIDE DEF credits, kept
<1>5. /\ PENDING_PAYOUTS' \in [Addr -> Nat] /\ total_pending_payouts' \in Nat
      /\ PendingTotalMatches'
  BY <1>3, <1>4, CreditKeeps
<1>6. bank' \in Nat /\ total_penalties_collected' \in Nat /\ total_amount_locked' \in Nat
  <2>1. /\ locked - kept <= bank /\ bank' = bank - (locked - kept)
        /\ total_penalties_collected' = total_penalties_collected + kept
        /\ total_amount_locked' = Saturating(total_amount_locked, locked)
    BY DEF ExitAfterStart, Send, kept
  <2>2. bank \in Nat /\ total_penalties_collected \in Nat /\ total_amount_locked \in Nat
    BY DEF LedgerInv, LedgerTypeOK
  <2>3. Saturating(total_amount_locked, locked) \in Nat
    BY <1>1, <2>2, SaturatingType
  <2> QED BY <1>1, <1>2, <2>1, <2>2, <2>3
<1>7. /\ MEMBER_LOCKED_AMOUNTS' \in [Addr -> Nat]
      /\ MEMBER_ACCUMULATED_LATE_FEES' \in [Addr -> Nat]
      /\ creator_lock_amount' \in Nat
  BY DEF ExitAfterStart, LedgerInv, LedgerTypeOK
<1> QED
  BY <1>5, <1>6, <1>7, DepositsStay DEF ExitAfterStart, LedgerInv, LedgerTypeOK, schedule

LEMMA KeepsCancelBeforeStart ==
    ASSUME LedgerInv, CancelBeforeStart
    PROVE  LedgerInv'
<1>1. SumOf(MEMBER_LOCKED_AMOUNTS) \in Nat
  BY SumType DEF LedgerInv, LedgerTypeOK
<1>2. bank' \in Nat /\ total_amount_locked' \in Nat
  BY <1>1, SaturatingType DEF CancelBeforeStart, Send, LedgerInv, LedgerTypeOK
<1> QED
  BY <1>2, DepositsStay DEF CancelBeforeStart, Nothing, LedgerInv, LedgerTypeOK, PendingTotalMatches,
              schedule, misses, claims, pools

LEMMA CancelCreditsType ==
    ASSUME LedgerInv
    PROVE  CancelCredits \in [Addr -> Nat]
<1> DEFINE heirs == {m \in Members \ {creator} : BLOCKED_MEMBERS[m] = None}
           split == EqualSplit(creator_lock_amount, heirs)
<1>1. creator_lock_amount \in Nat /\ MEMBER_LOCKED_AMOUNTS \in [Addr -> Nat]
  BY DEF LedgerInv, LedgerTypeOK
<1>2. split \in [Addr -> Nat]
  BY <1>1, RosterType, EqualSplitType
<1>3. CancelCredits = [m \in Addr |-> split[m]
          + (IF m \in Members
             THEN MEMBER_LOCKED_AMOUNTS[m]
                  + (IF current_cycle_index > 0 /\ current_cycle_index \in DEPOSITS[m]
                     THEN contribution_amount ELSE 0)
             ELSE 0)]
  BY DEF CancelCredits
<1> HIDE DEF split
<1> QED
  BY <1>1, <1>2, <1>3, ConfigurationType

LEMMA KeepsCancelRunning ==
    ASSUME LedgerInv, CancelRunning
    PROVE  LedgerInv'
<1>1. /\ PENDING_PAYOUTS' \in [Addr -> Nat] /\ total_pending_payouts' \in Nat
      /\ PendingTotalMatches'
  BY CancelCreditsType, CreditKeeps DEF CancelRunning
<1>2. RefundedLocks(Members) \in [Addr -> Nat]
  BY DEF RefundedLocks, LedgerInv, LedgerTypeOK
<1>3. SumOf(RefundedLocks(Members)) \in Nat
  BY <1>2, SumType
<1>4. total_amount_locked' \in Nat
  BY <1>3, SaturatingType DEF CancelRunning, LedgerInv, LedgerTypeOK
<1>5. /\ MEMBER_LOCKED_AMOUNTS' \in [Addr -> Nat]
      /\ MEMBER_ACCUMULATED_LATE_FEES' \in [Addr -> Nat]
      /\ creator_lock_amount' \in Nat
  BY DEF CancelRunning, LedgerInv, LedgerTypeOK
<1> QED
  BY <1>1, <1>4, <1>5, DepositsStay DEF CancelRunning, LedgerInv, LedgerTypeOK, schedule, pools

\* The last deposit on record is a number, and so are the rounds since then.
LEMMA LastDepositedType ==
    ASSUME DepositsInv, NEW m \in Addr
    PROVE  /\ LastDeposited(m) \in Nat
           /\ MEMBER_LAST_DEPOSITED_CYCLE[m] = None => \A r \in DEPOSITS[m] : r <= LastDeposited(m)
<1> DEFINE S == DEPOSITS[m] \cup {0}
<1>1. CASE MEMBER_LAST_DEPOSITED_CYCLE[m] # None
  BY <1>1 DEF LastDeposited, DepositsInv
<1>2. CASE MEMBER_LAST_DEPOSITED_CYCLE[m] = None
  <2>1. PICK bound \in Nat : \A r \in DEPOSITS[m] : r <= bound
    BY DEF DepositsInv
  <2>2. S \subseteq Nat /\ S # {} /\ \A r \in S : r <= bound
    BY <2>1 DEF DepositsInv
  <2>3. Max(S) \in S /\ \A r \in S : r <= Max(S)
    BY <2>2, GreatestNatural
  <2>4. LastDeposited(m) = Max(S)
    BY <1>2 DEF LastDeposited
  <2>5. DEPOSITS[m] \subseteq S
    OBVIOUS
  <2> HIDE DEF S
  <2> QED BY <2>2, <2>3, <2>4, <2>5
<1> QED
  BY <1>1, <1>2

LEMMA RoundsMissedType ==
    ASSUME LedgerInv, NEW m \in Addr
    PROVE  RoundsMissed(m) \in Nat
<1>1. LastDeposited(m) \in Nat /\ current_cycle_index \in Nat
  BY LastDepositedType DEF LedgerInv
<1> QED
  BY <1>1, SaturatingType DEF RoundsMissed

\* One more round on record.
LEMMA RecordKeeps ==
    ASSUME DepositsInv, current_cycle_index \in Nat,
           DEPOSITS' \in [Addr -> SUBSET Nat],
           \A m \in Addr : DEPOSITS'[m] \in {DEPOSITS[m], DEPOSITS[m] \cup {current_cycle_index}},
           MEMBER_LAST_DEPOSITED_CYCLE' \in [Addr -> Nat \cup {None}]
    PROVE  DepositsInv'
<1>1. ASSUME NEW m \in Addr  PROVE \E bound \in Nat : \A r \in DEPOSITS'[m] : r <= bound
  <2>0. DEPOSITS'[m] \in {DEPOSITS[m], DEPOSITS[m] \cup {current_cycle_index}}
    OBVIOUS
  <2>1. PICK bound \in Nat : \A r \in DEPOSITS[m] : r <= bound
    BY DEF DepositsInv
  <2>2. \A r \in DEPOSITS'[m] : r <= bound + current_cycle_index
    <3>1. ASSUME NEW r \in DEPOSITS'[m]  PROVE r <= bound + current_cycle_index
      <4>1. r \in DEPOSITS[m] \/ r = current_cycle_index
        BY <2>0
      <4>2. CASE r \in DEPOSITS[m]
        <5>1. r \in Nat /\ r <= bound
          BY <2>1, <4>2 DEF DepositsInv
        <5> QED BY <5>1
      <4> QED BY <4>1, <4>2
    <3> QED BY <3>1
  <2>3. bound + current_cycle_index \in Nat
    OBVIOUS
  <2> QED BY <2>2, <2>3, Zenon
<1> QED
  BY <1>1 DEF DepositsInv

LEMMA KeepsDeposit ==
    ASSUME LedgerInv, NEW m \in Addr, DepositContribution(m)
    PROVE  LedgerInv'
<1>1. LateFeesDue(m) \in Nat
  BY FeesType, RoundsMissedType, TimesType DEF LateFeesDue
<1>2. LockRefill(m) \in Nat
  <2>1. MEMBER_LOCKED_AMOUNTS[m] \in Nat
    BY DEF LedgerInv, LedgerTypeOK
  <2> QED BY <2>1, ConfigurationType, SaturatingType DEF LockRefill
<1>3. bank' \in Nat
  <2>1. PICK surplus \in Surplus : Receive(DepositPrice(m), surplus)
    BY DEF DepositContribution
  <2> QED BY <1>1, <1>2, <2>1, ConfigurationType DEF DepositPrice, Receive, LedgerInv, LedgerTypeOK
<1>4. total_penalties_collected' \in Nat
  BY <1>1 DEF DepositContribution, LedgerInv, LedgerTypeOK
<1>5. MEMBER_LOCKED_AMOUNTS' \in [Addr -> Nat] /\ total_amount_locked' \in Nat
  BY <1>2, ConfigurationType DEF DepositContribution, LedgerInv, LedgerTypeOK
<1>6. MEMBER_ACCUMULATED_LATE_FEES' \in [Addr -> Nat] /\ missed_count' \in [Addr -> Nat]
  BY DEF DepositContribution, ForgiveMisses, misses, LedgerInv, LedgerTypeOK
<1>7. DepositsInv'
  <2>1. current_cycle_index \in Nat /\ DepositsInv
    BY DEF LedgerInv
  <2>2. /\ DEPOSITS' = [DEPOSITS EXCEPT ![m] = @ \cup {current_cycle_index}]
        /\ MEMBER_LAST_DEPOSITED_CYCLE' =
               [MEMBER_LAST_DEPOSITED_CYCLE EXCEPT ![m] = current_cycle_index]
    BY DEF DepositContribution
  <2>3. /\ DEPOSITS' \in [Addr -> SUBSET Nat]
        /\ \A x \in Addr : DEPOSITS'[x] \in {DEPOSITS[x], DEPOSITS[x] \cup {current_cycle_index}}
        /\ MEMBER_LAST_DEPOSITED_CYCLE' \in [Addr -> Nat \cup {None}]
    BY <2>1, <2>2 DEF DepositsInv
  <2> QED BY <2>1, <2>3, RecordKeeps
<1> QED
  BY <1>3, <1>4, <1>5, <1>6, <1>7 DEF DepositContribution, LedgerInv, LedgerTypeOK,
     PendingTotalMatches, schedule, claims

LEMMA KeepsCheckAndEject ==
    ASSUME LedgerInv, CheckAndEject
    PROVE  LedgerInv'
<1>1. MEMBER_ACCUMULATED_LATE_FEES \in [Addr -> Nat]
  BY DEF LedgerInv, LedgerTypeOK
<1>2. SumOf(Forfeits(InDefault, MEMBER_ACCUMULATED_LATE_FEES)) \in Nat
  BY <1>1, ForfeitsType
<1>3. total_penalties_collected' \in Nat
  BY <1>2 DEF CheckAndEject, LedgerInv, LedgerTypeOK
<1>4. MEMBER_ACCUMULATED_LATE_FEES' \in [Addr -> Nat]
  BY <1>1 DEF CheckAndEject
<1> QED
  BY <1>3, <1>4, DepositsStay DEF CheckAndEject, LedgerInv, LedgerTypeOK, PendingTotalMatches,
                    schedule, locks, claims

LEMMA ChargeMissingKeeps ==
    ASSUME LedgerInv, ChargeMissing
    PROVE  /\ missed_count' \in [Addr -> Nat] /\ MEMBER_ACCUMULATED_LATE_FEES' \in [Addr -> Nat]
           /\ DepositsInv'
<1>1. missed_count' \in [Addr -> Nat] /\ MEMBER_ACCUMULATED_LATE_FEES' \in [Addr -> Nat]
  BY ChargesType DEF ChargeMissing
<1>2. DepositsInv'
  <2>1. current_cycle_index \in Nat /\ DepositsInv
    BY DEF LedgerInv
  <2>2. /\ DEPOSITS' \in [Addr -> SUBSET Nat]
        /\ \A x \in Addr : DEPOSITS'[x] \in {DEPOSITS[x], DEPOSITS[x] \cup {current_cycle_index}}
    BY <2>1 DEF ChargeMissing, DepositsAfter, DepositsInv
  <2>3. MEMBER_LAST_DEPOSITED_CYCLE' \in [Addr -> Nat \cup {None}]
    BY <2>1 DEF ChargeMissing, DepositsInv
  <2> QED BY <2>1, <2>2, <2>3, RecordKeeps
<1> QED
  BY <1>1, <1>2

LEMMA KeepsAdvanceRound ==
    ASSUME LedgerInv, NEW sender \in Addr, AdvanceRound(sender)
    PROVE  LedgerInv'
<1>1. missed_count' \in [Addr -> Nat] /\ MEMBER_ACCUMULATED_LATE_FEES' \in [Addr -> Nat]
      /\ DepositsInv'
  BY ChargeMissingKeeps DEF AdvanceRound
<1>2. MEMBER_LOCKED_AMOUNTS' \in [Addr -> Nat] /\ total_penalties_collected' \in Nat
  BY ChargesType, PenaltiesType DEF AdvanceRound
<1>3. total_amount_locked' \in Nat
  BY PayoutType, SaturatingType DEF AdvanceRound, LedgerInv, LedgerTypeOK
<1>4. current_cycle_index' \in Nat
  BY DEF AdvanceRound, NextRound, LedgerInv
<1> QED
  BY <1>1, <1>2, <1>3, <1>4 DEF AdvanceRound, LedgerInv, LedgerTypeOK, PendingTotalMatches,
                                claims

LEMMA KeepsProcessPayout ==
    ASSUME LedgerInv, NEW sender \in Addr, ProcessPayout(sender)
    PROVE  LedgerInv'
<1>1. missed_count' \in [Addr -> Nat] /\ MEMBER_ACCUMULATED_LATE_FEES' \in [Addr -> Nat]
      /\ CREATOR_REWARDS_CREDITED' \in BOOLEAN /\ DepositsInv'
  BY ChargeMissingKeeps DEF ProcessPayout, LedgerInv, LedgerTypeOK
<1>2. CASE FinalizeCircle
  <2>1. /\ PENDING_PAYOUTS' \in [Addr -> Nat] /\ total_pending_payouts' \in Nat
        /\ PendingTotalMatches'
    BY <1>2, CreditsType, CreditKeeps DEF FinalizeCircle
  <2>2. bank' \in Nat
    BY <1>2, PayoutType DEF FinalizeCircle, Send, LedgerInv, LedgerTypeOK
  <2> QED
    BY <1>1, <1>2, <2>1, <2>2 DEF FinalizeCircle, Nothing, LedgerInv, LedgerTypeOK
<1>3. CASE PayRound
  <2>1. /\ PENDING_PAYOUTS' \in [Addr -> Nat] /\ total_pending_payouts' \in Nat
        /\ PendingTotalMatches'
    BY <1>3, CreditsType, CreditKeeps DEF PayRound
  <2>2. MEMBER_LOCKED_AMOUNTS' \in [Addr -> Nat] /\ total_penalties_collected' \in Nat
    BY <1>3, ChargesType, PenaltiesType DEF PayRound
  <2>3. total_amount_locked' \in Nat
    <3>1. BasePayout + SumOf(LockUse) \in Nat
      BY PayoutType
    <3> QED BY <1>3, <3>1, SaturatingType DEF PayRound, LedgerInv, LedgerTypeOK
  <2>4. total_platform_fees_collected' \in Nat
    BY <1>3, PayoutType DEF PayRound, LedgerInv, LedgerTypeOK
  <2>5. current_cycle_index' \in Nat
    BY <1>3 DEF PayRound, NextRound, LedgerInv
  <2> QED
    BY <1>1, <1>3, <2>1, <2>2, <2>3, <2>4, <2>5 DEF PayRound, LedgerInv, LedgerTypeOK
<1> QED
  BY <1>2, <1>3 DEF ProcessPayout

LEMMA KeepsWithdraw ==
    ASSUME LedgerInv, NEW m \in Addr, Withdraw(m)
    PROVE  LedgerInv'
<1>1. /\ PENDING_PAYOUTS' \in [Addr -> Nat] /\ total_pending_payouts' \in Nat
      /\ PendingTotalMatches'
  BY DebitKeeps DEF Withdraw
<1>2. bank' \in Nat
  BY DEF Withdraw, Send, LedgerInv, LedgerTypeOK
<1> QED
  BY <1>1, <1>2, DepositsStay DEF Withdraw, LedgerInv, LedgerTypeOK, schedule, misses, locks, pools

LEMMA KeepsWithdrawPlatformFees ==
    ASSUME LedgerInv, WithdrawPlatformFees
    PROVE  LedgerInv'
<1>1. bank' \in Nat
  BY DEF WithdrawPlatformFees, Send, LedgerInv, LedgerTypeOK
<1> QED
  BY <1>1, DepositsStay DEF WithdrawPlatformFees, LedgerInv, LedgerTypeOK, PendingTotalMatches,
              schedule, misses, locks, claims

\* A credit to the creator alone.
LEMMA CreatorCreditKeeps ==
    ASSUME LedgerInv, NEW amount \in Nat,
           CreditPending([m \in Addr |-> IF m = creator THEN amount ELSE 0])
    PROVE  /\ PENDING_PAYOUTS' \in [Addr -> Nat] /\ total_pending_payouts' \in Nat
           /\ PendingTotalMatches'
<1> DEFINE credits == [m \in Addr |-> IF m = creator THEN amount ELSE 0]
<1>1. credits \in [Addr -> Nat]
  OBVIOUS
<1>2. CreditPending(credits)
  OBVIOUS
<1> HIDE DEF credits
<1> QED
  BY <1>1, <1>2, CreditKeeps

LEMMA KeepsSweepDust ==
    ASSUME LedgerInv, SweepDust
    PROVE  LedgerInv'
<1>1. Dust \in Nat
  BY SaturatingType DEF Dust, LedgerInv, LedgerTypeOK
<1>2. /\ PENDING_PAYOUTS' \in [Addr -> Nat] /\ total_pending_payouts' \in Nat
      /\ PendingTotalMatches'
  BY <1>1, CreatorCreditKeeps DEF SweepDust
<1> QED
  BY <1>2, DepositsStay DEF SweepDust, LedgerInv, LedgerTypeOK, schedule, misses, locks, pools

LEMMA KeepsDepositCreatorReward ==
    ASSUME LedgerInv, NEW reward \in Rewards, DepositCreatorReward(reward)
    PROVE  LedgerInv'
<1>1. reward \in Nat
  BY ConfigurationType
<1>2. /\ PENDING_PAYOUTS' \in [Addr -> Nat] /\ total_pending_payouts' \in Nat
      /\ PendingTotalMatches'
  BY <1>1, CreatorCreditKeeps DEF DepositCreatorReward
<1>3. bank' \in Nat
  BY <1>1 DEF DepositCreatorReward, Receive, LedgerInv, LedgerTypeOK
<1> QED
  BY <1>2, <1>3, DepositsStay DEF DepositCreatorReward, LedgerInv, LedgerTypeOK, schedule, misses, locks

LEMMA KeepsDistributeBlockedFunds ==
    ASSUME LedgerInv, NEW round \in Rounds, DistributeBlockedFunds(round)
    PROVE  LedgerInv'
<1>1. BlockedLocks(round) \in [Addr -> Nat]
  BY DEF BlockedLocks, LedgerInv, LedgerTypeOK
<1>2. SumOf(BlockedLocks(round)) \in Nat
  BY <1>1, SumType
<1>3. bank' \in Nat
  BY <1>2 DEF DistributeBlockedFunds, Send, LedgerInv, LedgerTypeOK
<1> QED
  BY <1>3, DepositsStay DEF DistributeBlockedFunds, LedgerInv, LedgerTypeOK, PendingTotalMatches,
              schedule, misses, locks, claims, pools

---------------------------------------------------------------------------
LEMMA InitIsCreated == Init => CreatedCircle /\ bank \in Nat
BY ConfigurationType DEF Init, compute_creator_lock

LEMMA LedgerInvCreated == CreatedCircle /\ bank \in Nat => LedgerInv
<1> SUFFICES ASSUME CreatedCircle, bank \in Nat  PROVE LedgerInv
  OBVIOUS
<1>1. compute_creator_lock(contribution_amount) \in Nat
  BY ConfigurationType DEF compute_creator_lock
<1>2. Nothing \in [Addr -> Nat]
  BY DEF Nothing
<1>3. SumOf(Nothing) = 0
  BY SumOfNothing DEF Nothing
<1>4. DepositsInv
  BY DEF CreatedCircle, DepositsInv
<1> QED
  BY <1>1, <1>2, <1>3, <1>4 DEF CreatedCircle, LedgerInv, LedgerTypeOK, PendingTotalMatches

LEMMA LedgerInvInit == Init => LedgerInv
BY InitIsCreated, LedgerInvCreated

LEMMA LedgerInvNext == LedgerInv /\ [Next]_vars => LedgerInv'
<1> SUFFICES ASSUME LedgerInv, [Next]_vars  PROVE LedgerInv'
  OBVIOUS
<1>1. ASSUME NEW m \in Addr, JoinCircle(m)  PROVE LedgerInv'
  BY <1>1, KeepsJoin
<1>2. ASSUME NEW m \in Addr, ExitCircle(m)  PROVE LedgerInv'
  BY <1>2, KeepsExitBeforeStart, KeepsExitAfterStart DEF ExitCircle
<1>3. ASSUME NEW m \in Addr, DepositContribution(m)  PROVE LedgerInv'
  BY <1>3, KeepsDeposit
<1>4. ASSUME NEW m \in Addr, ProcessPayout(m)  PROVE LedgerInv'
  BY <1>4, KeepsProcessPayout
<1>5. ASSUME NEW m \in Addr, AdvanceRound(m)  PROVE LedgerInv'
  BY <1>5, KeepsAdvanceRound
<1>6. ASSUME NEW m \in Addr, Withdraw(m)  PROVE LedgerInv'
  BY <1>6, KeepsWithdraw
<1>7. ASSUME NEW m \in Invited, InviteMember(m)  PROVE LedgerInv'
  BY <1>7, KeepsUnchanged DEF InviteMember, schedule
<1>8. ASSUME NEW m \in Added, AddPrivateMember(m)  PROVE LedgerInv'
  BY <1>8, KeepsUnchanged DEF AddPrivateMember, schedule
<1>9. ASSUME NEW m \in Blocked, BlockMember(m)  PROVE LedgerInv'
  BY <1>9, KeepsUnchanged DEF BlockMember, schedule
<1>10. CASE StartCircle
  <2>1. current_cycle_index' \in Nat
    BY <1>10 DEF StartCircle, StartRunning
  <2> QED
    BY <1>10, <2>1, DepositsStay DEF StartCircle, LedgerInv, LedgerTypeOK, PendingTotalMatches,
                       misses, locks, claims, pools
<1>11. CASE CancelCircle
  BY <1>11, KeepsCancelBeforeStart, KeepsCancelRunning DEF CancelCircle
<1>12. CASE CheckAndEject
  BY <1>12, KeepsCheckAndEject
<1>13. CASE WithdrawPlatformFees
  BY <1>13, KeepsWithdrawPlatformFees
<1>14. CASE SweepDust
  BY <1>14, KeepsSweepDust
<1>15. ASSUME NEW reward \in Rewards, DepositCreatorReward(reward)  PROVE LedgerInv'
  BY <1>15, KeepsDepositCreatorReward
<1>16. ASSUME NEW round \in Rounds, DistributeBlockedFunds(round)  PROVE LedgerInv'
  BY <1>16, KeepsDistributeBlockedFunds
<1>17. CASE PauseCircle \/ UnpauseCircle \/ EmergencyStop
  BY <1>17, KeepsUnchanged DEF PauseCircle, UnpauseCircle, EmergencyStop, SwitchStatus, schedule
<1>18. CASE Tick
  BY <1>18, KeepsUnchanged DEF Tick
<1>19. CASE UNCHANGED vars
  BY <1>19, KeepsUnchanged DEF vars, schedule
<1> QED
  BY <1>1, <1>2, <1>3, <1>4, <1>5, <1>6, <1>7, <1>8, <1>9, <1>10, <1>11, <1>12, <1>13,
     <1>14, <1>15, <1>16, <1>17, <1>18, <1>19 DEF Next

\* The type invariant of the ledgers: no amount ever goes negative, in any
\* handler, although several subtract without a check.
THEOREM LedgersAreNatural == Spec => []LedgerTypeOK
<1>1. LedgerInv => LedgerTypeOK
  BY DEF LedgerInv
<1> QED
  BY <1>1, LedgerInvInit, LedgerInvNext, PTL DEF Spec

\* total_pending_payouts is the sum of PENDING_PAYOUTS after every message, so
\* that the subtractions of debit_pending_payout never saturate.
THEOREM PendingTotalIsTheSum == Spec => []PendingTotalMatches
<1>1. LedgerInv => PendingTotalMatches
  BY DEF LedgerInv
<1> QED
  BY <1>1, LedgerInvInit, LedgerInvNext, PTL DEF Spec
===========================================================================
