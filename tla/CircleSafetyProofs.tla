------------------------- MODULE CircleSafetyProofs -------------------------
(***************************************************************************)
(* What no message does to one circle.  The locks stay whole, every        *)
(* deposit record is paid for, a missed round is charged once, claims only *)
(* leave with their withdrawal, rounds keep to the calendar; Circle        *)
(* implements CircleLifecycle; the queries announce what the handlers do;  *)
(* and migrate, between any two messages, keeps the ledgers and changes    *)
(* nothing when it is repeated.                                            *)
(***************************************************************************)
EXTENDS CircleUpgrade, CircleClock, CircleTypeProofs

---------------------------------------------------------------------------
(* Locks *)

\* Whole is also what a lock is taken, refilled and refunded by.
LockInv == LedgerInv /\ LocksAreWhole

LEMMA WholeRefill ==
    ASSUME LockInv, NEW m \in Addr
    PROVE  MEMBER_LOCKED_AMOUNTS[m] + LockRefill(m) \in {0, contribution_amount}
<1>1. MEMBER_LOCKED_AMOUNTS[m] \in {0, contribution_amount} /\ contribution_amount \in Nat \ {0}
  BY ConfigurationType DEF LockInv, LocksAreWhole
<1> QED
  BY <1>1 DEF LockRefill, Saturating

LEMMA WholeUse ==
    ASSUME LockInv, NEW m \in Addr
    PROVE  /\ LocksAfter[m] \in {0, contribution_amount}
           /\ LockUse[m] > 0 =>
                  /\ MEMBER_LOCKED_AMOUNTS[m] = contribution_amount
                  /\ LocksAfter[m] = 0
<1>1. MEMBER_LOCKED_AMOUNTS[m] \in {0, contribution_amount} /\ contribution_amount \in Nat \ {0}
  BY ConfigurationType DEF LockInv, LocksAreWhole
<1>2. LockUse[m] \in {0, MEMBER_LOCKED_AMOUNTS[m]}
  BY <1>1 DEF LockUse, AtMost
<1>3. LocksAfter[m] = MEMBER_LOCKED_AMOUNTS[m] - LockUse[m]
  BY DEF LocksAfter
<1> QED
  BY <1>1, <1>2, <1>3

LEMMA LocksAreWholeInit == Init => LocksAreWhole
BY ConfigurationType DEF Init, CreatedCircle, LocksAreWhole, Nothing

LEMMA LocksAreWholeNext == LockInv /\ [Next]_vars => LocksAreWhole'
<1> SUFFICES ASSUME LockInv, [Next]_vars  PROVE LocksAreWhole'
  OBVIOUS
<1>1. /\ contribution_amount \in Nat \ {0} /\ MEMBER_LOCKED_AMOUNTS \in [Addr -> Nat]
      /\ \A m \in Addr : MEMBER_LOCKED_AMOUNTS[m] \in {0, contribution_amount}
      /\ creator_lock_amount \in {0, compute_creator_lock(contribution_amount)}
  BY ConfigurationType DEF LockInv, LocksAreWhole, LedgerInv, LedgerTypeOK
<1>same. ASSUME UNCHANGED locks  PROVE LocksAreWhole'
  BY <1>1, <1>same DEF locks, LocksAreWhole
<1>2. ASSUME NEW m \in Addr, JoinCircle(m)  PROVE LocksAreWhole'
  BY <1>1, <1>2 DEF JoinCircle, LocksAreWhole
<1>3. ASSUME NEW m \in Addr, ExitBeforeStart(m)  PROVE LocksAreWhole'
  <2>1. PICK S : MEMBER_LOCKED_AMOUNTS' =
                     [x \in Addr |-> MEMBER_LOCKED_AMOUNTS[x] - RefundedLocks(S)[x]]
    BY <1>3 DEF ExitBeforeStart
  <2>2. ASSUME NEW x \in Addr  PROVE MEMBER_LOCKED_AMOUNTS'[x] \in {0, contribution_amount}
    BY <1>1, <2>1 DEF RefundedLocks
  <2> QED BY <1>1, <1>3, <2>2 DEF ExitBeforeStart, LocksAreWhole
<1>4. ASSUME NEW m \in Addr, ExitAfterStart(m)  PROVE LocksAreWhole'
  BY <1>1, <1>4 DEF ExitAfterStart, LocksAreWhole
<1>5. ASSUME NEW m \in Addr, DepositContribution(m)  PROVE LocksAreWhole'
  <2>1. MEMBER_LOCKED_AMOUNTS' =
            [MEMBER_LOCKED_AMOUNTS EXCEPT ![m] = MEMBER_LOCKED_AMOUNTS[m] + LockRefill(m)]
        /\ UNCHANGED creator_lock_amount
    BY <1>5 DEF DepositContribution
  <2> QED BY <1>1, <2>1, WholeRefill DEF LocksAreWhole
<1>6. ASSUME NEW m \in Addr, ProcessPayout(m)  PROVE LocksAreWhole'
  <2>1. CASE FinalizeCircle
    BY <2>1 DEF FinalizeCircle, Nothing, LocksAreWhole
  <2>2. CASE PayRound
    BY <1>1, <2>2, WholeUse DEF PayRound, LocksAreWhole
  <2> QED BY <1>6, <2>1, <2>2 DEF ProcessPayout
<1>7. ASSUME NEW m \in Addr, AdvanceRound(m)  PROVE LocksAreWhole'
  BY <1>1, <1>7, WholeUse DEF AdvanceRound, LocksAreWhole
<1>8. CASE CancelCircle
  BY <1>1, <1>8 DEF CancelCircle, CancelBeforeStart, CancelRunning, Nothing, LocksAreWhole
<1>9. ASSUME NEW m \in Addr, Withdraw(m)  PROVE LocksAreWhole'
  BY <1>9, <1>same DEF Withdraw
<1>10. ASSUME NEW m \in Addr, InviteMember(m) \/ AddPrivateMember(m) \/ BlockMember(m)
       PROVE LocksAreWhole'
  BY <1>10, <1>same DEF InviteMember, AddPrivateMember, BlockMember
<1>11. CASE StartCircle \/ CheckAndEject \/ WithdrawPlatformFees \/ SweepDust
  BY <1>11, <1>same DEF StartCircle, CheckAndEject, WithdrawPlatformFees, SweepDust
<1>12. ASSUME NEW reward \in Rewards, DepositCreatorReward(reward)  PROVE LocksAreWhole'
  BY <1>12, <1>same DEF DepositCreatorReward
<1>13. ASSUME NEW round \in Rounds, DistributeBlockedFunds(round)  PROVE LocksAreWhole'
  BY <1>13, <1>same DEF DistributeBlockedFunds
<1>14. CASE PauseCircle \/ UnpauseCircle \/ EmergencyStop \/ Tick \/ UNCHANGED vars
  BY <1>14, <1>same DEF PauseCircle, UnpauseCircle, EmergencyStop, SwitchStatus, Tick, vars
<1>15. Invited \subseteq Addr /\ Added \subseteq Addr /\ Blocked \subseteq Addr
  BY BoundsAreNatural
<1> QED
  BY <1>2, <1>3, <1>4, <1>5, <1>6, <1>7, <1>8, <1>9, <1>10, <1>11, <1>12, <1>13, <1>14,
     <1>15 DEF Next, ExitCircle

\* A lock is never drained in part: no order of refills, uses, refunds and
\* ejections leaves a fraction of a contribution.
THEOREM LocksStayWhole == Spec => []LocksAreWhole
<1>1. Init => LockInv
  BY LedgerInvInit, LocksAreWholeInit DEF LockInv
<1>2. LockInv /\ [Next]_vars => LockInv'
  BY LedgerInvNext, LocksAreWholeNext DEF LockInv
<1>3. LockInv => LocksAreWhole
  BY DEF LockInv
<1> QED
  BY <1>1, <1>2, <1>3, PTL DEF Spec

\* A deposit record, real or synthetic, stands for a contribution that came in
\* with the message or left the lock of that member: because locks are whole,
\* what AtMost takes for a synthetic deposit is never less.
LEMMA DepositsPaidNext ==
    ASSUME LockInv, [Next]_vars, NEW m \in Addr, DEPOSITS'[m] # DEPOSITS[m]
    PROVE  \/ bank' >= bank + contribution_amount
           \/ MEMBER_LOCKED_AMOUNTS'[m] + contribution_amount <= MEMBER_LOCKED_AMOUNTS[m]
<1>1. /\ contribution_amount \in Nat \ {0} /\ MEMBER_LOCKED_AMOUNTS \in [Addr -> Nat]
      /\ bank \in Nat
  BY ConfigurationType DEF LockInv, LedgerInv, LedgerTypeOK
<1>2. ASSUME NEW x \in Addr, DepositContribution(x)
      PROVE  bank' >= bank + contribution_amount
  <2>1. PICK surplus \in Surplus : Receive(DepositPrice(x), surplus)
    BY <1>2 DEF DepositContribution
  <2>2. LockRefill(x) \in Nat
    BY <1>1, SaturatingType DEF LockRefill
  <2>3. LateFeesDue(x) \in Nat
    BY FeesType, RoundsMissedType, TimesType DEF LateFeesDue, LockInv
  <2> QED BY <1>1, <2>1, <2>2, <2>3, ConfigurationType DEF DepositPrice, Receive
<1>3. ASSUME ChargeMissing, MEMBER_LOCKED_AMOUNTS' = LocksAfter \/ MEMBER_LOCKED_AMOUNTS' = Nothing
      PROVE  MEMBER_LOCKED_AMOUNTS'[m] + contribution_amount <= MEMBER_LOCKED_AMOUNTS[m]
  <2>1. LockUse[m] > 0
    BY <1>3 DEF ChargeMissing, DepositsAfter
  <2>2. MEMBER_LOCKED_AMOUNTS[m] = contribution_amount /\ LocksAfter[m] = 0
    BY <2>1, WholeUse
  <2> QED BY <1>1, <1>3, <2>2 DEF Nothing
<1>4. ASSUME NEW x \in Addr, ProcessPayout(x)
      PROVE  MEMBER_LOCKED_AMOUNTS'[m] + contribution_amount <= MEMBER_LOCKED_AMOUNTS[m]
  BY <1>3, <1>4 DEF ProcessPayout, FinalizeCircle, PayRound
<1>5. ASSUME NEW x \in Addr, AdvanceRound(x)
      PROVE  MEMBER_LOCKED_AMOUNTS'[m] + contribution_amount <= MEMBER_LOCKED_AMOUNTS[m]
  BY <1>3, <1>5 DEF AdvanceRound
<1>6. ASSUME UNCHANGED DEPOSITS  PROVE FALSE
  BY <1>6
<1>7. ASSUME NEW x \in Addr, JoinCircle(x) \/ ExitCircle(x) \/ Withdraw(x)  PROVE FALSE
  BY <1>6, <1>7 DEF JoinCircle, ExitCircle, ExitBeforeStart, ExitAfterStart, Withdraw, deposits
<1>8. ASSUME NEW x, InviteMember(x) \/ AddPrivateMember(x) \/ BlockMember(x)  PROVE FALSE
  BY <1>6, <1>8 DEF InviteMember, AddPrivateMember, BlockMember, deposits
<1>9. ASSUME StartCircle \/ CancelCircle \/ CheckAndEject \/ WithdrawPlatformFees \/ SweepDust
      PROVE FALSE
  BY <1>6, <1>9 DEF StartCircle, CancelCircle, CancelBeforeStart, CancelRunning, CheckAndEject,
                    WithdrawPlatformFees, SweepDust, deposits
<1>10. ASSUME NEW x, DepositCreatorReward(x) \/ DistributeBlockedFunds(x)  PROVE FALSE
  BY <1>6, <1>10 DEF DepositCreatorReward, DistributeBlockedFunds, deposits
<1>11. ASSUME PauseCircle \/ UnpauseCircle \/ EmergencyStop \/ Tick \/ UNCHANGED vars  PROVE FALSE
  BY <1>6, <1>11 DEF PauseCircle, UnpauseCircle, EmergencyStop, SwitchStatus, Tick, vars, deposits
<1> QED
  BY <1>2, <1>4, <1>5, <1>7, <1>8, <1>9, <1>10, <1>11 DEF Next

THEOREM EveryDepositIsPaidFor == Spec => DepositsArePaidFor
<1>1. Init => LockInv
  BY LedgerInvInit, LocksAreWholeInit DEF LockInv
<1>2. LockInv /\ [Next]_vars => LockInv'
  BY LedgerInvNext, LocksAreWholeNext DEF LockInv
<1> DEFINE Paid == \A m \in Addr : DEPOSITS'[m] # DEPOSITS[m] =>
                       \/ bank' >= bank + contribution_amount
                       \/ MEMBER_LOCKED_AMOUNTS'[m] + contribution_amount
                              <= MEMBER_LOCKED_AMOUNTS[m]
<1>3. LockInv /\ [Next]_vars => Paid
  BY DepositsPaidNext
<1>4. DepositsArePaidFor <=> [][Paid]_vars
  BY DEF DepositsArePaidFor
<1> HIDE DEF Paid
<1> QED
  BY <1>1, <1>2, <1>3, <1>4, PTL DEF Spec

---------------------------------------------------------------------------
(* Late fees *)

FeesInv == LedgerInv /\ FeesWithinMisses

LEMMA FeesWithinMissesInit == Init => FeesWithinMisses
<1>1. LateFee * 0 = 0
  BY FeesType
<1> QED
  BY <1>1 DEF Init, CreatedCircle, FeesWithinMisses, Nothing

LEMMA FeesWithinMissesNext == FeesInv /\ [Next]_vars => FeesWithinMisses'
<1> SUFFICES ASSUME FeesInv, [Next]_vars  PROVE FeesWithinMisses'
  OBVIOUS
<1>1. /\ LateFee \in Nat
      /\ missed_count \in [Addr -> Nat] /\ MEMBER_ACCUMULATED_LATE_FEES \in [Addr -> Nat]
      /\ \A m \in Addr : MEMBER_ACCUMULATED_LATE_FEES[m] <= LateFee * missed_count[m]
  BY FeesType DEF FeesInv, FeesWithinMisses, LedgerInv, LedgerTypeOK
<1>2. ASSUME NEW n \in Nat  PROVE LateFee * n \in Nat /\ LateFee * (n + 1) = LateFee * n + LateFee
  BY <1>1, TimesType
<1>3. LateFee * 0 = 0
  BY <1>1
<1>same. ASSUME UNCHANGED misses  PROVE FeesWithinMisses'
  BY <1>1, <1>same DEF misses, FeesWithinMisses, LateFee
\* Fees that are dropped while the misses stay.
<1>drop. ASSUME UNCHANGED missed_count,
                \A m \in Addr : MEMBER_ACCUMULATED_LATE_FEES'[m] \in {0, MEMBER_ACCUMULATED_LATE_FEES[m]}
         PROVE  FeesWithinMisses'
  <2>1. ASSUME NEW m \in Addr
        PROVE  MEMBER_ACCUMULATED_LATE_FEES'[m] <= LateFee * missed_count[m]
    BY <1>1, <1>2, <1>drop
  <2> QED BY <1>drop, <2>1 DEF FeesWithinMisses, LateFee
\* One more miss, at most one more fee.
<1>charge. ASSUME ChargeMissing  PROVE FeesWithinMisses'
  <2>1. ASSUME NEW m \in Addr
        PROVE  MEMBER_ACCUMULATED_LATE_FEES'[m] <= LateFee * missed_count'[m]
    <3>1. missed_count'[m] = MissedAfter[m]
          /\ MEMBER_ACCUMULATED_LATE_FEES'[m] \in {0, FeesAfter[m]}
      BY <1>charge DEF ChargeMissing
    <3>2. CASE m \in Charged
      <4>1. MissedAfter[m] = missed_count[m] + 1
            /\ FeesAfter[m] = MEMBER_ACCUMULATED_LATE_FEES[m] + LateFee
        BY <3>2 DEF MissedAfter, FeesAfter
      <4>2. LateFee * (missed_count[m] + 1) = LateFee * missed_count[m] + LateFee
            /\ LateFee * missed_count[m] \in Nat
        BY <1>1, <1>2
      <4> QED BY <1>1, <3>1, <4>1, <4>2
    <3>3. CASE m \notin Charged
      <4>1. MissedAfter[m] = missed_count[m] /\ FeesAfter[m] = MEMBER_ACCUMULATED_LATE_FEES[m]
        BY <1>1, <3>3 DEF MissedAfter, FeesAfter
      <4>2. LateFee * missed_count[m] \in Nat
        BY <1>1, <1>2
      <4> QED BY <1>1, <3>1, <4>1, <4>2
    <3> QED BY <3>2, <3>3
  <2> QED BY <2>1 DEF FeesWithinMisses, LateFee
<1>4. ASSUME NEW m \in Addr, DepositContribution(m)  PROVE FeesWithinMisses'
  <2>1. CASE UNCHANGED misses
    BY <1>same, <2>1
  <2>2. CASE ForgiveMisses(m)
    <3>1. ASSUME NEW x \in Addr
          PROVE  MEMBER_ACCUMULATED_LATE_FEES'[x] <= LateFee * missed_count'[x]
      BY <1>1, <1>3, <2>2 DEF ForgiveMisses
    <3> QED BY <3>1 DEF FeesWithinMisses, LateFee
  <2> QED BY <1>4, <2>1, <2>2 DEF DepositContribution
<1>5. ASSUME NEW m \in Addr, ProcessPayout(m) \/ AdvanceRound(m)  PROVE FeesWithinMisses'
  BY <1>5, <1>charge DEF ProcessPayout, AdvanceRound
<1>6. ASSUME NEW m \in Addr, ExitCircle(m)  PROVE FeesWithinMisses'
  <2>1. CASE ExitBeforeStart(m)
    BY <1>same, <2>1 DEF ExitBeforeStart
  <2>2. CASE ExitAfterStart(m)
    BY <1>1, <1>drop, <2>2 DEF ExitAfterStart
  <2> QED BY <1>6, <2>1, <2>2 DEF ExitCircle
<1>7. CASE CancelCircle
  <2>1. CASE CancelBeforeStart
    BY <1>same, <2>1 DEF CancelBeforeStart
  <2>2. CASE CancelRunning
    BY <1>1, <1>drop, <2>2 DEF CancelRunning
  <2> QED BY <1>7, <2>1, <2>2 DEF CancelCircle
<1>8. CASE CheckAndEject
  BY <1>1, <1>8, <1>drop DEF CheckAndEject
<1>9. ASSUME NEW m \in Addr, JoinCircle(m) \/ Withdraw(m)  PROVE FeesWithinMisses'
  BY <1>9, <1>same DEF JoinCircle, Withdraw
<1>10. ASSUME NEW m, InviteMember(m) \/ AddPrivateMember(m) \/ BlockMember(m)
       PROVE  FeesWithinMisses'
  BY <1>10, <1>same DEF InviteMember, AddPrivateMember, BlockMember
<1>11. CASE StartCircle \/ WithdrawPlatformFees \/ SweepDust
  BY <1>11, <1>same DEF StartCircle, WithdrawPlatformFees, SweepDust
<1>12. ASSUME NEW x, DepositCreatorReward(x) \/ DistributeBlockedFunds(x)  PROVE FeesWithinMisses'
  BY <1>12, <1>same DEF DepositCreatorReward, DistributeBlockedFunds
<1>13. CASE PauseCircle \/ UnpauseCircle \/ EmergencyStop \/ Tick \/ UNCHANGED vars
  BY <1>13, <1>same DEF PauseCircle, UnpauseCircle, EmergencyStop, SwitchStatus, Tick, vars
<1> QED
  BY <1>4, <1>5, <1>6, <1>7, <1>8, <1>9, <1>10, <1>11, <1>12, <1>13 DEF Next

\* Nobody owes more late fees than one for each miss on record, through any
\* order of charges, catch-up deposits, ejections, exits and re-admissions.
THEOREM FeesMatchMisses == Spec => []FeesWithinMisses
<1>1. Init => FeesInv
  BY LedgerInvInit, FeesWithinMissesInit DEF FeesInv
<1>2. FeesInv /\ [Next]_vars => FeesInv'
  BY LedgerInvNext, FeesWithinMissesNext DEF FeesInv
<1>3. FeesInv => FeesWithinMisses
  BY DEF FeesInv
<1> QED
  BY <1>1, <1>2, <1>3, PTL DEF Spec

---------------------------------------------------------------------------
(* Claims *)

\* What is credited is never negative, so a credit lowers nobody's claim.
LEMMA CreditLowersNone ==
    ASSUME LedgerInv, NEW credits \in [Addr -> Nat], CreditPending(credits), NEW m \in Addr
    PROVE  PENDING_PAYOUTS'[m] >= PENDING_PAYOUTS[m]
BY DEF CreditPending, LedgerInv, LedgerTypeOK

LEMMA CreatorCreditLowersNone ==
    ASSUME LedgerInv, NEW amount \in Nat, NEW m \in Addr,
           CreditPending([x \in Addr |-> IF x = creator THEN amount ELSE 0])
    PROVE  PENDING_PAYOUTS'[m] >= PENDING_PAYOUTS[m]
<1> DEFINE credits == [x \in Addr |-> IF x = creator THEN amount ELSE 0]
<1>1. credits \in [Addr -> Nat] /\ CreditPending(credits)
  OBVIOUS
<1> HIDE DEF credits
<1> QED
  BY <1>1, CreditLowersNone

LEMMA ExitCreditLowersNone ==
    ASSUME LedgerInv, NEW x \in Addr, ExitAfterStart(x), NEW m \in Addr
    PROVE  PENDING_PAYOUTS'[m] >= PENDING_PAYOUTS[m]
<1> DEFINE credits == IF x = creator /\ creator_lock_amount > 0
                      THEN EqualSplit(creator_lock_amount, Active \ {x}) ELSE Nothing
<1>1. creator_lock_amount \in Nat
  BY DEF LedgerInv, LedgerTypeOK
<1>2. credits \in [Addr -> Nat]
  BY <1>1, RosterType, EqualSplitType DEF Nothing
<1>3. CreditPending(credits)
  BY DEF ExitAfterStart
<1> HIDE DEF credits
<1> QED
  BY <1>2, <1>3, CreditLowersNone

LEMMA ClaimsNext ==
    ASSUME LedgerInv, [Next]_vars, NEW m \in Addr, PENDING_PAYOUTS'[m] < PENDING_PAYOUTS[m]
    PROVE  Withdraw(m)
<1>0. PENDING_PAYOUTS \in [Addr -> Nat] /\ PENDING_PAYOUTS' \in [Addr -> Nat]
  BY LedgerInvNext DEF LedgerInv, LedgerTypeOK
<1>up. ASSUME PENDING_PAYOUTS'[m] >= PENDING_PAYOUTS[m]  PROVE FALSE
  BY <1>0, <1>up
<1>same. ASSUME UNCHANGED claims  PROVE FALSE
  BY <1>0, <1>same DEF claims
<1>1. ASSUME NEW x \in Addr, Withdraw(x)  PROVE Withdraw(m)
  <2>1. PENDING_PAYOUTS' = [PENDING_PAYOUTS EXCEPT ![x] = 0]
    BY <1>1 DEF Withdraw, DebitPending
  <2>2. x = m
    BY <1>0, <2>1
  <2> QED BY <1>1, <2>2
<1>2. ASSUME NEW x \in Addr, ExitCircle(x)  PROVE FALSE
  <2>1. CASE ExitBeforeStart(x)
    BY <1>same, <2>1 DEF ExitBeforeStart
  <2>2. CASE ExitAfterStart(x)
    BY <1>up, <2>2, ExitCreditLowersNone
  <2> QED BY <1>2, <2>1, <2>2 DEF ExitCircle
<1>3. ASSUME NEW x \in Addr, ProcessPayout(x)  PROVE FALSE
  BY <1>3, <1>up, CreditsType, CreditLowersNone DEF ProcessPayout, FinalizeCircle, PayRound
<1>4. CASE CancelCircle
  <2>1. CASE CancelBeforeStart
    BY <1>same, <2>1 DEF CancelBeforeStart
  <2>2. CASE CancelRunning
    BY <1>up, <2>2, CancelCreditsType, CreditLowersNone DEF CancelRunning
  <2> QED BY <1>4, <2>1, <2>2 DEF CancelCircle
<1>5. CASE SweepDust
  <2>1. Dust \in Nat
    BY SaturatingType DEF Dust, LedgerInv, LedgerTypeOK
  <2> QED BY <1>5, <1>up, <2>1, CreatorCreditLowersNone DEF SweepDust
<1>6. ASSUME NEW reward \in Rewards, DepositCreatorReward(reward)  PROVE FALSE
  <2>1. reward \in Nat
    BY ConfigurationType
  <2> QED BY <1>6, <1>up, <2>1, CreatorCreditLowersNone DEF DepositCreatorReward
<1>7. ASSUME NEW x \in Addr, JoinCircle(x) \/ DepositContribution(x) \/ AdvanceRound(x)  PROVE FALSE
  BY <1>7, <1>same DEF JoinCircle, DepositContribution, AdvanceRound
<1>8. ASSUME NEW x, InviteMember(x) \/ AddPrivateMember(x) \/ BlockMember(x)  PROVE FALSE
  BY <1>8, <1>same DEF InviteMember, AddPrivateMember, BlockMember
<1>9. ASSUME StartCircle \/ CheckAndEject \/ WithdrawPlatformFees  PROVE FALSE
  BY <1>9, <1>same DEF StartCircle, CheckAndEject, WithdrawPlatformFees
<1>10. ASSUME NEW x, DistributeBlockedFunds(x)  PROVE FALSE
  BY <1>10, <1>same DEF DistributeBlockedFunds
<1>11. ASSUME PauseCircle \/ UnpauseCircle \/ EmergencyStop \/ Tick \/ UNCHANGED vars  PROVE FALSE
  BY <1>11, <1>same DEF PauseCircle, UnpauseCircle, EmergencyStop, SwitchStatus, Tick, vars
<1> QED
  BY <1>1, <1>2, <1>3, <1>4, <1>5, <1>6, <1>7, <1>8, <1>9, <1>10, <1>11 DEF Next

\* No message but its owner's Withdraw ever lowers a claim, and that one pays
\* it in full and touches no other.
THEOREM ClaimsAreOnlyWithdrawn == Spec => ClaimsOnlyWithdrawn
<1> DEFINE Paid == \A m \in Addr : PENDING_PAYOUTS'[m] < PENDING_PAYOUTS[m] =>
                       /\ PENDING_PAYOUTS'[m] = 0
                       /\ bank' = bank - PENDING_PAYOUTS[m]
                       /\ \A x \in Addr \ {m} : PENDING_PAYOUTS'[x] = PENDING_PAYOUTS[x]
<1>1. LedgerInv /\ [Next]_vars => Paid
  <2> SUFFICES ASSUME LedgerInv, [Next]_vars, NEW m \in Addr,
                      PENDING_PAYOUTS'[m] < PENDING_PAYOUTS[m]
               PROVE  /\ PENDING_PAYOUTS'[m] = 0
                      /\ bank' = bank - PENDING_PAYOUTS[m]
                      /\ \A x \in Addr \ {m} : PENDING_PAYOUTS'[x] = PENDING_PAYOUTS[x]
    OBVIOUS
  <2>1. Withdraw(m)
    BY ClaimsNext
  <2> QED BY <2>1 DEF Withdraw, DebitPending, Send, LedgerInv, LedgerTypeOK
<1>2. ClaimsOnlyWithdrawn <=> [][Paid]_vars
  BY DEF ClaimsOnlyWithdrawn
<1> HIDE DEF Paid
<1> QED
  BY <1>1, <1>2, LedgerInvInit, LedgerInvNext, PTL DEF Spec

---------------------------------------------------------------------------
(* Settlement *)

SettledInv == LedgerInv /\ SettledIsEmpty

\* A ledger sums to zero exactly when all its entries are zero.
LEMMA ZeroSum ==
    ASSUME NEW f \in [Addr -> Nat]
    PROVE  SumOf(f) = 0 <=> f = Nothing
<1>1. ASSUME SumOf(f) = 0, NEW m \in Addr  PROVE f[m] = 0
  <2>1. f[m] <= SumOf(f)
    BY ConfigurationType, SumOfWithout
  <2> QED BY <1>1, <2>1
<1>2. SumOf(Nothing) = 0
  BY SumOfNothing DEF Nothing
<1> QED
  BY <1>1, <1>2 DEF Nothing

LEMMA SettledIsEmptyNext == SettledInv /\ [Next]_vars => SettledIsEmpty'
<1> SUFFICES ASSUME SettledInv, [Next]_vars  PROVE SettledIsEmpty'
  OBVIOUS
<1>1. /\ MEMBER_LOCKED_AMOUNTS \in [Addr -> Nat] /\ PENDING_PAYOUTS \in [Addr -> Nat]
      /\ bank \in Nat /\ creator_lock_amount \in Nat /\ total_pending_payouts \in Nat
      /\ total_pending_payouts = SumOf(PENDING_PAYOUTS)
  BY DEF SettledInv, LedgerInv, LedgerTypeOK, PendingTotalMatches
<1>2. /\ circle_status \in {"Finalizing", "Completed"} =>
             /\ MEMBER_LOCKED_AMOUNTS = Nothing /\ creator_lock_amount = 0
             /\ total_penalties_collected = 0 /\ total_platform_fees_collected = 0
      /\ circle_status = "Completed" => bank = 0 /\ total_pending_payouts = 0
  BY <1>1, ZeroSum DEF SettledInv, SettledIsEmpty
<1>3. SumOf(Nothing) = 0
  BY SumOfNothing DEF Nothing
\* Most handlers leave the circle outside, or leave the settled ledgers alone.
<1>out. ASSUME circle_status' \notin {"Finalizing", "Completed"}  PROVE SettledIsEmpty'
  BY <1>out DEF SettledIsEmpty
<1>same. ASSUME UNCHANGED <<locks, claims, pools, bank>>,
                circle_status' \in {"Finalizing", "Completed"} => circle_status' = circle_status
         PROVE  SettledIsEmpty'
  BY <1>2, <1>3, <1>same DEF locks, claims, pools, SettledIsEmpty
<1>4. ASSUME NEW m \in Addr, JoinCircle(m)  PROVE SettledIsEmpty'
  BY <1>4, <1>out DEF JoinCircle, StartRunning
<1>5. ASSUME NEW m \in Addr, ExitBeforeStart(m)  PROVE SettledIsEmpty'
  <2>1. CASE circle_status' \notin {"Finalizing", "Completed"}
    BY <1>out, <2>1
  <2>2. CASE circle_status' \in {"Finalizing", "Completed"}
    <3>1. circle_status' = circle_status /\ creator_lock_amount' = creator_lock_amount
          /\ UNCHANGED <<claims, pools>>
      BY <1>5, <2>2 DEF ExitBeforeStart
    <3>2. PICK S : /\ MEMBER_LOCKED_AMOUNTS' =
                          [x \in Addr |-> MEMBER_LOCKED_AMOUNTS[x] - RefundedLocks(S)[x]]
                   /\ \E e \in Nat : Send(SumOf(RefundedLocks(S)) + e)
      BY <1>1, <1>5 DEF ExitBeforeStart
    <3>3. MEMBER_LOCKED_AMOUNTS = Nothing
      BY <1>2, <2>2, <3>1
    <3>4. RefundedLocks(S) = Nothing /\ MEMBER_LOCKED_AMOUNTS' = Nothing
      BY <3>2, <3>3 DEF RefundedLocks, Nothing
    <3>5. PICK e \in Nat : Send(SumOf(RefundedLocks(S)) + e)
      BY <3>2
    <3>6. circle_status = "Completed" => bank' = 0
      BY <1>1, <1>2, <1>3, <3>4, <3>5 DEF Send
    <3> QED
      BY <1>2, <1>3, <2>2, <3>1, <3>4, <3>6 DEF claims, pools, SettledIsEmpty
  <2> QED BY <2>1, <2>2
<1>6. ASSUME NEW m \in Addr, ExitAfterStart(m)  PROVE SettledIsEmpty'
  BY <1>6, <1>out DEF ExitAfterStart
<1>7. ASSUME NEW m \in Addr, DepositContribution(m)  PROVE SettledIsEmpty'
  BY <1>7, <1>out DEF DepositContribution, AcceptsDeposit
<1>8. ASSUME NEW m \in Addr, ProcessPayout(m)  PROVE SettledIsEmpty'
  <2>1. CASE FinalizeCircle
    BY <1>3, <2>1 DEF FinalizeCircle, SettledIsEmpty
  <2>2. CASE PayRound
    BY <1>8, <1>out, <2>2 DEF ProcessPayout, PayRound
  <2> QED BY <1>8, <2>1, <2>2 DEF ProcessPayout
<1>9. ASSUME NEW m \in Addr, AdvanceRound(m)  PROVE SettledIsEmpty'
  BY <1>9, <1>out DEF AdvanceRound
<1>10. ASSUME NEW m \in Addr, Withdraw(m)  PROVE SettledIsEmpty'
  <2>1. /\ PENDING_PAYOUTS[m] > 0 /\ PENDING_PAYOUTS[m] \in Nat
        /\ PENDING_PAYOUTS[m] <= total_pending_payouts
        /\ PENDING_PAYOUTS[m] <= bank
    BY <1>1, <1>10, ConfigurationType, SumOfWithout DEF Withdraw, Send
  <2>2. circle_status # "Completed"
    BY <1>1, <1>2, <2>1
  <2>3. /\ UNCHANGED <<locks, pools>> /\ bank' = bank - PENDING_PAYOUTS[m]
        /\ total_pending_payouts' = Saturating(total_pending_payouts, PENDING_PAYOUTS[m])
    BY <1>10 DEF Withdraw, Send, DebitPending
  <2>4. CASE circle_status' = "Completed"
    <3>1. circle_status = "Finalizing" /\ SettledBy(m)
      BY <1>10, <2>2, <2>4 DEF Withdraw
    <3>2. bank' = 0
      BY <1>1, <2>1, <2>3, <3>1 DEF SettledBy, Saturating
    <3>3. total_pending_payouts' = 0
      BY <2>3, <3>1 DEF SettledBy
    <3> QED
      BY <1>2, <1>3, <2>3, <3>1, <3>2, <3>3 DEF locks, pools, SettledIsEmpty
  <2>5. CASE circle_status' # "Completed"
    <3>1. circle_status' = circle_status
      BY <1>10, <2>5 DEF Withdraw
    <3> QED
      BY <1>2, <1>3, <2>3, <2>5, <3>1 DEF locks, pools, SettledIsEmpty
  <2> QED BY <2>4, <2>5
<1>11. CASE WithdrawPlatformFees
  \* In a completed circle there are no fees to withdraw.
  BY <1>2, <1>3, <1>11 DEF WithdrawPlatformFees, locks, claims, SettledIsEmpty
<1>12. CASE SweepDust
  <2>1. circle_status' # "Completed"
    BY <1>12 DEF SweepDust
  <2>2. circle_status' = "Finalizing" => circle_status \in {"Finalizing", "Completed"}
    BY <1>12 DEF SweepDust
  <2> QED
    BY <1>2, <1>3, <1>12, <2>1, <2>2 DEF SweepDust, locks, pools, SettledIsEmpty
<1>13. ASSUME NEW reward \in Rewards, DepositCreatorReward(reward)  PROVE SettledIsEmpty'
  BY <1>2, <1>3, <1>13 DEF DepositCreatorReward, locks, SettledIsEmpty
<1>14. ASSUME NEW round \in Rounds, DistributeBlockedFunds(round)  PROVE SettledIsEmpty'
  <2>1. CASE circle_status \notin {"Finalizing", "Completed"}
    BY <1>14, <1>out, <2>1 DEF DistributeBlockedFunds
  <2>2. CASE circle_status \in {"Finalizing", "Completed"}
    <3>1. BlockedLocks(round) = Nothing
      BY <1>2, <2>2 DEF BlockedLocks, Nothing
    <3> QED BY <1>3, <1>14, <3>1 DEF DistributeBlockedFunds
  <2> QED BY <2>1, <2>2
<1>15. CASE CancelCircle
  BY <1>15, <1>out DEF CancelCircle, CancelBeforeStart, CancelRunning
<1>16. CASE StartCircle
  BY <1>16, <1>out DEF StartCircle, StartRunning
<1>17. CASE CheckAndEject
  BY <1>17, <1>out DEF CheckAndEject
<1>18. ASSUME NEW m, InviteMember(m) \/ AddPrivateMember(m) \/ BlockMember(m)
       PROVE  SettledIsEmpty'
  BY <1>18, <1>same DEF InviteMember, AddPrivateMember, BlockMember
<1>19. CASE PauseCircle \/ UnpauseCircle \/ EmergencyStop
  BY <1>19, <1>out DEF PauseCircle, UnpauseCircle, EmergencyStop, SwitchStatus
<1>20. CASE Tick \/ UNCHANGED vars
  BY <1>20, <1>same DEF Tick, vars
<1> QED
  BY <1>4, <1>5, <1>6, <1>7, <1>8, <1>9, <1>10, <1>11, <1>12, <1>13, <1>14, <1>15, <1>16,
     <1>17, <1>18, <1>19, <1>20 DEF Next, ExitCircle

\* A finalizing circle owes nothing but claims and a completed one holds no
\* money, even when the emergency stop or a new member revives the circle.
THEOREM SettlementLeavesNothing == Spec => []SettledIsEmpty
<1>1. Init => SettledInv
  BY LedgerInvInit DEF Init, CreatedCircle, SettledInv, SettledIsEmpty
<1>2. SettledInv /\ [Next]_vars => SettledInv'
  BY LedgerInvNext, SettledIsEmptyNext DEF SettledInv
<1>3. SettledInv => SettledIsEmpty
  BY DEF SettledInv
<1> QED
  BY <1>1, <1>2, <1>3, PTL DEF Spec

---------------------------------------------------------------------------
(* The rounds and the calendar *)

\* While there is a schedule, the time since the start is made of the cycles
\* of the rounds closed and of the clock of the one in progress.
CalendarInv ==
    elapsed # None => since = (current_cycle_index - 1) * CycleDuration + elapsed

LEMMA CalendarInvNext ==
    ASSUME TypeInv, CalendarInv, Next, RecordTime
    PROVE  CalendarInv'
<1>0. /\ CycleDuration \in Nat /\ None \notin Nat /\ current_cycle_index \in Nat
      /\ elapsed # None => elapsed \in Nat
  BY CreateCircleAccepts, BoundsAreNatural, RoundsType DEF TypeInv, ScheduleInv, Rounds
<1>same. ASSUME UNCHANGED <<current_cycle_index, elapsed>>, ~Starts  PROVE CalendarInv'
  <2>1. ~Tick
    BY <1>0, <1>same DEF Tick
  <2> QED BY <1>same, <2>1 DEF CalendarInv, RecordTime
<1>start. ASSUME NEW list, StartRunning(list), circle_status \notin {"Running", "Paused"}
          PROVE  CalendarInv'
  <2>1. current_cycle_index' = 1 /\ elapsed' = 0 /\ Starts /\ ~Tick
    BY <1>start DEF StartRunning, Starts, Tick
  <2>2. since' = 0
    BY <2>1 DEF RecordTime
  <2> QED BY <1>0, <2>1, <2>2 DEF CalendarInv
<1>next. ASSUME NextRound, RoundOver, circle_status = "Running"
         PROVE  CalendarInv'
  <2>1. ~Starts /\ ~Tick
    BY <1>0, <1>next DEF Starts, Tick, NextRound
  <2>2. UNCHANGED since
    BY <2>1 DEF RecordTime
  <2>3. CASE elapsed = None
    BY <1>next, <2>3 DEF NextRound, CalendarInv
  <2>4. CASE elapsed # None
    <3>1. current_cycle_index * CycleDuration
              = (current_cycle_index - 1) * CycleDuration + CycleDuration
      BY <1>0
    <3>2. (current_cycle_index - 1) * CycleDuration \in Int
          /\ current_cycle_index * CycleDuration \in Int
      BY <1>0
    <3>3. PICK before, after : before = (current_cycle_index - 1) * CycleDuration
                               /\ after = current_cycle_index * CycleDuration
      OBVIOUS
    <3>4. since = before + elapsed /\ after = before + CycleDuration
          /\ before \in Int /\ after \in Int
      BY <2>4, <3>1, <3>2, <3>3 DEF CalendarInv
    <3>5. current_cycle_index' - 1 = current_cycle_index /\ elapsed' = elapsed - CycleDuration
      BY <1>0, <1>next, <2>4 DEF NextRound
    <3>6. since' = (current_cycle_index' - 1) * CycleDuration + elapsed'
      <4>1. since = after + (elapsed - CycleDuration)
        BY <1>0, <2>4, <3>4
      <4> QED BY <2>2, <3>3, <3>5, <4>1
    <3> QED BY <3>6 DEF CalendarInv
  <2> QED BY <2>3, <2>4
<1>1. ASSUME NEW m \in Addr, JoinCircle(m)  PROVE CalendarInv'
  <2>1. CASE StartRunning(Append(members_list, m))
    BY <1>1, <1>start, <2>1 DEF JoinCircle
  <2>2. CASE circle_status' \in {"Full", "Open"} /\ UNCHANGED schedule
    BY <1>same, <2>2 DEF schedule, Starts
  <2> QED BY <1>1, <2>1, <2>2 DEF JoinCircle
<1>2. CASE StartCircle
  BY <1>2, <1>start DEF StartCircle
<1>3. ASSUME NEW m \in Addr, ProcessPayout(m)  PROVE CalendarInv'
  <2>1. CASE FinalizeCircle
    BY <1>same, <2>1 DEF FinalizeCircle, Starts
  <2>2. CASE PayRound
    BY <1>3, <1>next, <2>2 DEF ProcessPayout, PayRound, ChargeMissing
  <2> QED BY <1>3, <2>1, <2>2 DEF ProcessPayout
<1>4. ASSUME NEW m \in Addr, AdvanceRound(m)  PROVE CalendarInv'
  BY <1>4, <1>next DEF AdvanceRound, ChargeMissing
<1>5. CASE Tick
  <2>1. ~Starts /\ elapsed # None /\ elapsed' = elapsed + 1 /\ UNCHANGED current_cycle_index
    BY <1>5 DEF Tick, Starts
  <2>2. since' = since + 1
    BY <1>5, <2>1 DEF RecordTime
  <2>3. PICK before : before = (current_cycle_index - 1) * CycleDuration
    OBVIOUS
  <2>4. before \in Int /\ since = before + elapsed
    BY <1>0, <2>1, <2>3 DEF CalendarInv
  <2>5. since + 1 = before + (elapsed + 1)
    BY <1>0, <2>1, <2>4
  <2> QED BY <2>1, <2>2, <2>3, <2>5 DEF CalendarInv
<1>6. ASSUME NEW m \in Addr, ExitCircle(m) \/ DepositContribution(m) \/ Withdraw(m)
      PROVE  CalendarInv'
  BY <1>6, <1>same DEF ExitCircle, ExitBeforeStart, ExitAfterStart, DepositContribution,
                       Withdraw, schedule, Starts
<1>7. ASSUME NEW m, InviteMember(m) \/ AddPrivateMember(m) \/ BlockMember(m)  PROVE CalendarInv'
  BY <1>7, <1>same DEF InviteMember, AddPrivateMember, BlockMember, schedule, Starts
<1>8. CASE CancelCircle \/ CheckAndEject \/ WithdrawPlatformFees \/ SweepDust
  BY <1>8, <1>same DEF CancelCircle, CancelBeforeStart, CancelRunning, CheckAndEject,
                       WithdrawPlatformFees, SweepDust, schedule, Starts
<1>9. ASSUME NEW x, DepositCreatorReward(x) \/ DistributeBlockedFunds(x)  PROVE CalendarInv'
  BY <1>9, <1>same DEF DepositCreatorReward, DistributeBlockedFunds, schedule, Starts
<1>10. CASE PauseCircle \/ UnpauseCircle \/ EmergencyStop
  BY <1>10, <1>same DEF PauseCircle, UnpauseCircle, EmergencyStop, SwitchStatus, schedule, Starts
<1> QED
  BY <1>1, <1>2, <1>3, <1>4, <1>5, <1>6, <1>7, <1>8, <1>9, <1>10 DEF Next

\* No more rounds are closed than whole cycles have passed since the start,
\* in whatever order the keeper repeats its calls, catches up on overdue
\* rounds, or finds the circle paused, stopped, revived or started again.
THEOREM RoundsKeepTheCalendar == ClockSpec => []RoundsFollowTheClock
<1>1. Init /\ since = 0 => CalendarInv
  BY DEF Init, CreatedCircle, CalendarInv
<1>2. TypeInv /\ CalendarInv /\ [Next /\ RecordTime]_<<vars, since>> => TypeInv' /\ CalendarInv'
  <2>1. ASSUME TypeInv, CalendarInv, UNCHANGED <<vars, since>>  PROVE TypeInv' /\ CalendarInv'
    <3>1. TypeInv'
      BY <2>1, TypeInvNext
    <3> QED BY <2>1, <3>1 DEF CalendarInv, vars, schedule
  <2> QED BY <2>1, TypeInvNext, CalendarInvNext
<1>3. TypeInv /\ CalendarInv => RoundsFollowTheClock
  <2> SUFFICES ASSUME TypeInv, CalendarInv, elapsed # None
               PROVE  (current_cycle_index - 1) * CycleDuration <= since
    BY DEF RoundsFollowTheClock
  <2>1. /\ CycleDuration \in Nat /\ current_cycle_index \in Nat /\ elapsed \in Nat
    BY CreateCircleAccepts, BoundsAreNatural, RoundsType DEF TypeInv, ScheduleInv, Rounds
  <2>2. (current_cycle_index - 1) * CycleDuration \in Int
    BY <2>1
  <2> QED BY <2>1, <2>2 DEF CalendarInv
<1> QED
  BY <1>1, <1>2, <1>3, TypeInvInit, PTL DEF ClockSpec

---------------------------------------------------------------------------
(* Refinement: every message maps to a step of CircleLifecycle or to a     *)
(* stutter, for circles whose creator neither adds members directly nor    *)
(* uses the emergency stop.                                                *)

\* No circle of the theorem is revived.
NoRevival == Added = {} /\ ~emergency_stop_enabled

\* A circle that has not started has no payouts, and one that runs has them
\* only for rounds the search of execute_cancel_circle reaches.
LifeInv ==
    /\ current_cycle_index \in Nat /\ cycles_completed \in Nat
    /\ PAYOUTS \subseteq 1..current_cycle_index
    /\ Phase = "forming" => PAYOUTS = {}
    /\ Phase = "running" => current_cycle_index >= 1

LEMMA PhaseIs ==
    /\ Phase = "forming" <=> circle_status \in {"Draft", "Open", "Full"}
    /\ Phase = "running" <=> circle_status \in {"Running", "Paused"}
    /\ Phase = "over"    <=> circle_status \notin {"Draft", "Open", "Full", "Running", "Paused"}
BY DEF Phase

LEMMA PhaseBecomes ==
    /\ Phase' = "forming" <=> circle_status' \in {"Draft", "Open", "Full"}
    /\ Phase' = "running" <=> circle_status' \in {"Running", "Paused"}
    /\ Phase' = "over"    <=> circle_status' \notin {"Draft", "Open", "Full", "Running", "Paused"}
BY DEF Phase

\* What a step does to the life of the circle, and that it keeps LifeInv.
Linear == LifeInv' /\ [Lifecycle!Next]_<<Phase, current_cycle_index, PAYOUTS>>

LEMMA StutterIsLinear ==
    ASSUME LifeInv, UNCHANGED schedule, Phase' = Phase
    PROVE  Linear
BY DEF Linear, LifeInv, schedule

LEMMA StartIsLinear ==
    ASSUME LifeInv, Phase = "forming", NEW list, StartRunning(list)
    PROVE  Linear
<1>1. Phase' = "running"
  BY PhaseBecomes DEF StartRunning
<1>2. current_cycle_index' = 1 /\ UNCHANGED <<cycles_completed, PAYOUTS>>
  BY DEF StartRunning
<1>3. LifeInv'
  BY <1>1, <1>2 DEF LifeInv
<1> QED
  BY <1>1, <1>2, <1>3 DEF Linear, Lifecycle!Next, Lifecycle!Start

LEMMA CallOffIsLinear ==
    ASSUME LifeInv, Phase \in {"forming", "running"}, PAYOUTS = {},
           Phase' = "over", UNCHANGED schedule
    PROVE  Linear
BY DEF Linear, LifeInv, schedule, Lifecycle!Next, Lifecycle!CallOff

LEMMA JoinIsLinear ==
    ASSUME LifeInv, NEW m \in Addr, JoinCircle(m)
    PROVE  Linear
<1>1. Phase = "forming"
  BY PhaseIs DEF JoinCircle
<1>2. CASE StartRunning(Append(members_list, m))
  BY <1>1, <1>2, StartIsLinear
<1>3. CASE circle_status' \in {"Full", "Open"} /\ UNCHANGED schedule
  BY <1>1, <1>3, PhaseBecomes, StutterIsLinear
<1> QED
  BY <1>2, <1>3 DEF JoinCircle

LEMMA ExitBeforeStartIsLinear ==
    ASSUME LifeInv, NEW m \in Addr, ExitBeforeStart(m)
    PROVE  Linear
<1>1. UNCHANGED schedule /\ circle_status \notin {"Cancelled", "Running", "Paused"}
  BY DEF ExitBeforeStart
<1>2. CASE circle_status' = "Cancelled"
  <2>1. Phase' = "over"
    BY <1>2, PhaseBecomes
  <2>2. CASE Phase = "forming"
    BY <1>1, <2>1, <2>2, CallOffIsLinear DEF LifeInv
  <2>3. CASE Phase = "over"
    BY <1>1, <2>1, <2>3, StutterIsLinear
  <2> QED BY <1>1, <2>2, <2>3, PhaseIs
<1>3. CASE circle_status' # "Cancelled"
  <2>1. \/ circle_status' = circle_status
        \/ circle_status \in {"Open", "Full"} /\ circle_status' \in {"Open", "Draft"}
    BY <1>3 DEF ExitBeforeStart
  <2>2. Phase' = Phase
    BY <2>1, PhaseIs, PhaseBecomes DEF Phase
  <2> QED BY <1>1, <2>2, StutterIsLinear
<1> QED
  BY <1>2, <1>3

LEMMA CancelIsLinear ==
    ASSUME LifeInv, CancelCircle
    PROVE  Linear
<1>1. UNCHANGED schedule /\ Phase' = "over"
  BY PhaseBecomes DEF CancelCircle, CancelBeforeStart, CancelRunning
<1>2. CASE CancelBeforeStart
  <2>1. Phase = "forming"
    BY <1>2, PhaseIs DEF CancelBeforeStart
  <2> QED BY <1>1, <2>1, CallOffIsLinear DEF LifeInv
<1>3. CASE CancelRunning
  <2>1. Phase = "running"
    BY <1>3, PhaseIs DEF CancelRunning
  <2>2. 1..current_cycle_index \subseteq RoundsSearchedForPayout
    BY DEF LifeInv, RoundsSearchedForPayout, AtLeast
  <2>3. PAYOUTS = {}
    BY <1>3, <2>2 DEF CancelRunning, LifeInv
  <2> QED BY <1>1, <2>1, <2>3, CallOffIsLinear
<1> QED
  BY <1>2, <1>3 DEF CancelCircle

LEMMA ProcessPayoutIsLinear ==
    ASSUME LifeInv, NEW sender \in Addr, ProcessPayout(sender)
    PROVE  Linear
<1>1. Phase = "running"
  BY PhaseIs DEF ProcessPayout
<1>2. /\ current_cycle_index \notin PAYOUTS
      /\ PAYOUTS' = PAYOUTS \cup {current_cycle_index}
      /\ cycles_completed' = cycles_completed + 1
  BY DEF ProcessPayout
<1>3. CASE FinalizeCircle
  <2>1. Phase' = "over" /\ current_cycle_index' = current_cycle_index
    BY <1>3, PhaseBecomes DEF FinalizeCircle
  <2>2. LifeInv'
    BY <1>1, <1>2, <2>1 DEF LifeInv
  <2> QED BY <1>1, <1>2, <2>1, <2>2 DEF Linear, Lifecycle!Next, Lifecycle!PayOut
<1>4. CASE PayRound
  <2>1. Phase' = "running" /\ current_cycle_index' = current_cycle_index + 1
    BY <1>1, <1>4 DEF PayRound, NextRound, Phase
  <2>2. LifeInv'
    BY <1>1, <1>2, <2>1 DEF LifeInv
  <2> QED BY <1>1, <1>2, <2>1, <2>2 DEF Linear, Lifecycle!Next, Lifecycle!PayOut
<1> QED
  BY <1>3, <1>4 DEF ProcessPayout

LEMMA AdvanceRoundIsLinear ==
    ASSUME LifeInv, NEW sender \in Addr, AdvanceRound(sender)
    PROVE  Linear
<1>1. Phase = "running" /\ Phase' = "running"
  BY PhaseIs, PhaseBecomes DEF AdvanceRound
<1>2. current_cycle_index' = current_cycle_index + 1 /\ UNCHANGED <<cycles_completed, PAYOUTS>>
  BY DEF AdvanceRound, NextRound
<1>3. LifeInv'
  BY <1>1, <1>2 DEF LifeInv
<1> QED
  BY <1>1, <1>2, <1>3 DEF Linear, Lifecycle!Next, Lifecycle!SkipPayout

---------------------------------------------------------------------------
LEMMA LifeInit == Init => LifeInv /\ Lifecycle!Init
BY DEF Init, CreatedCircle, LifeInv, Lifecycle!Init, Phase

LEMMA EveryStepIsLinear ==
    ASSUME NoRevival, LifeInv, [Next]_vars
    PROVE  Linear
<1>1. ASSUME NEW m \in Addr, JoinCircle(m)  PROVE Linear
  BY <1>1, JoinIsLinear
<1>2. ASSUME NEW m \in Addr, ExitBeforeStart(m)  PROVE Linear
  BY <1>2, ExitBeforeStartIsLinear
<1>3. ASSUME NEW m \in Addr, ExitAfterStart(m) \/ DepositContribution(m)  PROVE Linear
  BY <1>3, StutterIsLinear DEF ExitAfterStart, DepositContribution, Phase
<1>4. ASSUME NEW m \in Addr, ProcessPayout(m)  PROVE Linear
  BY <1>4, ProcessPayoutIsLinear
<1>5. ASSUME NEW m \in Addr, AdvanceRound(m)  PROVE Linear
  BY <1>5, AdvanceRoundIsLinear
<1>6. ASSUME NEW m \in Addr, Withdraw(m)  PROVE Linear
  BY <1>6, StutterIsLinear DEF Withdraw, Phase
<1>7. ASSUME NEW m, InviteMember(m) \/ BlockMember(m)  PROVE Linear
  BY <1>7, StutterIsLinear DEF InviteMember, BlockMember, Phase
<1>8. CASE StartCircle
  BY <1>8, PhaseIs, StartIsLinear DEF StartCircle
<1>9. CASE CancelCircle
  BY <1>9, CancelIsLinear
<1>10. CASE CheckAndEject \/ WithdrawPlatformFees
  BY <1>10, StutterIsLinear DEF CheckAndEject, WithdrawPlatformFees, Phase
<1>11. CASE SweepDust
  BY <1>11, StutterIsLinear DEF SweepDust, Phase
<1>12. ASSUME NEW x, DepositCreatorReward(x) \/ DistributeBlockedFunds(x)  PROVE Linear
  BY <1>12, StutterIsLinear DEF DepositCreatorReward, DistributeBlockedFunds, Phase
<1>13. CASE PauseCircle \/ UnpauseCircle
  BY <1>13, StutterIsLinear DEF PauseCircle, UnpauseCircle, SwitchStatus, Phase
<1>14. CASE Tick
  BY <1>14 DEF Tick, Linear, LifeInv, Phase
<1>15. CASE UNCHANGED vars
  BY <1>15, StutterIsLinear DEF vars, Phase
<1>16. ~EmergencyStop /\ ~\E m \in Added : AddPrivateMember(m)
  BY DEF NoRevival, EmergencyStop
<1> QED
  BY <1>1, <1>2, <1>3, <1>4, <1>5, <1>6, <1>7, <1>8, <1>9, <1>10, <1>11, <1>12, <1>13,
     <1>14, <1>15, <1>16 DEF Next, ExitCircle

\* The refinement: rounds one by one, each paid at most once, no payout undone
\* by a cancellation and no return from the end, whatever the members do.
THEOREM CircleImplementsLifecycle ==
    ASSUME NoRevival
    PROVE  Spec => LifeIsLinear
<1>1. Init => LifeInv /\ Lifecycle!Init
  BY LifeInit
<1>2. LifeInv /\ [Next]_vars => LifeInv' /\ [Lifecycle!Next]_<<Phase, current_cycle_index, PAYOUTS>>
  BY EveryStepIsLinear DEF Linear
<1> QED
  BY <1>1, <1>2, PTL DEF Spec, LifeIsLinear, Lifecycle!Spec

---------------------------------------------------------------------------
(* One charge for each round missed *)

\* What is on record for m once the circle runs: no more fees than rounds
\* closed, no deposit ahead of the round, and a deposit of this round counts
\* as the last one.
Recorded(m) ==
    /\ MEMBER_ACCUMULATED_LATE_FEES[m] <= LateFee * (current_cycle_index - 1)
    /\ \A r \in DEPOSITS[m] : r <= current_cycle_index
    /\ current_cycle_index \in DEPOSITS[m] => LastDeposited(m) >= current_cycle_index

\* A listed member has not been charged for this round yet, and one that was
\* never blocked has a fee on record for each round since its last deposit.
Chargeable(m) ==
    /\ last_missed_cycle[m] # None => last_missed_cycle[m] < current_cycle_index
    /\ BLOCKED_MEMBERS[m] = None => LateFeesDue(m) <= MEMBER_ACCUMULATED_LATE_FEES[m]

ChargesInv ==
    /\ Phase = "forming" => \A m \in Addr :
           /\ MEMBER_ACCUMULATED_LATE_FEES[m] = 0
           /\ last_missed_cycle[m] = None
           /\ DEPOSITS[m] = {}
    /\ Phase = "running" =>
           /\ \A m \in Addr    : Recorded(m)
           /\ \A m \in Members : Chargeable(m)

\* The rounds missed at round now since the deposit of round last.
LEMMA MissedSince ==
    ASSUME NEW now \in Nat, NEW last \in Nat
    PROVE  LET MissedAt(c) == Saturating(Saturating(c, last), 1)
           IN  /\ MissedAt(now) \in Nat
               /\ MissedAt(now + 1) <= MissedAt(now) + 1
               /\ last >= now => MissedAt(now) = 0 /\ MissedAt(now + 1) = 0
               /\ now = 1 => MissedAt(now) = 0
BY DEF Saturating

LEMMA FeesAreMonotone ==
    ASSUME NEW a \in Nat, NEW b \in Nat, a <= b
    PROVE  /\ LateFee * a \in Nat /\ LateFee * b \in Nat /\ LateFee * a <= LateFee * b
           /\ LateFee * (a + 1) = LateFee * a + LateFee
           /\ LateFee * 0 = 0
<1>1. PICK d \in Nat : b = a + d
  <2>1. b - a \in Nat /\ b = a + (b - a)
    OBVIOUS
  <2> QED BY <2>1
<1>2. LateFee \in Nat
  BY FeesType
<1>3. LateFee * b = LateFee * a + LateFee * d
  BY <1>1, <1>2
<1>4. LateFee * a \in Nat /\ LateFee * d \in Nat
  BY <1>1, <1>2, TimesType
<1> QED
  BY <1>2, <1>3, <1>4

\* What the proofs below need to know of the types.
LEMMA ChargesTypes ==
    ASSUME TypeInv
    PROVE  /\ current_cycle_index \in Nat /\ None \notin Nat /\ LateFee \in Nat
           /\ MEMBER_ACCUMULATED_LATE_FEES \in [Addr -> Nat]
           /\ DEPOSITS \in [Addr -> SUBSET Nat]
           /\ MEMBER_LAST_DEPOSITED_CYCLE \in [Addr -> Nat \cup {None}]
           /\ last_missed_cycle \in [Addr -> Nat \cup {None}]
           /\ BLOCKED_MEMBERS \in [Addr -> Nat \cup {None}]
           /\ Members \subseteq Addr
           /\ \A m \in Addr :
                  /\ LastDeposited(m) \in Nat
                  /\ MEMBER_LAST_DEPOSITED_CYCLE[m] = None =>
                         \A r \in DEPOSITS[m] : r <= LastDeposited(m)
<1>1. Rounds \subseteq Nat
  BY RoundsType DEF Rounds
<1> QED
  BY <1>1, BoundsAreNatural, FeesType, LastDepositedType, RosterType
     DEF TypeInv, LedgerInv, LedgerTypeOK, RosterInv, RecordsInv, DepositsInv

\* Steps between two rounds: fees are dropped, members leave, the others'
\* records stay.
LEMMA ChargesStay ==
    ASSUME TypeInv, ChargesInv, UNCHANGED <<current_cycle_index, deposits>>,
           Phase' = "running" => Phase = "running",
           Phase' = "forming" => Phase = "forming" /\ UNCHANGED misses,
           Phase' = "running" =>
               /\ Members' \subseteq Members
               /\ \A m \in Addr : MEMBER_ACCUMULATED_LATE_FEES'[m] \in {0, MEMBER_ACCUMULATED_LATE_FEES[m]}
               /\ \A m \in Members' :
                      /\ MEMBER_ACCUMULATED_LATE_FEES'[m] = MEMBER_ACCUMULATED_LATE_FEES[m]
                      /\ last_missed_cycle'[m] = last_missed_cycle[m]
                      /\ BLOCKED_MEMBERS'[m] = None => BLOCKED_MEMBERS[m] = None
    PROVE  ChargesInv'
<1>1. CASE Phase' = "forming"
  BY <1>1 DEF ChargesInv, deposits, misses
<1>2. CASE Phase' = "running"
  <2>1. /\ \A m \in Addr    : Recorded(m)
        /\ \A m \in Members : Chargeable(m)
    BY <1>2 DEF ChargesInv
  <2>2. UNCHANGED <<DEPOSITS, MEMBER_LAST_DEPOSITED_CYCLE, current_cycle_index>>
    BY DEF deposits
  <2>3. ASSUME NEW m \in Addr  PROVE Recorded(m)'
    <3>1. LastDeposited(m)' = LastDeposited(m)
      BY <2>2 DEF LastDeposited
    <3>2. MEMBER_ACCUMULATED_LATE_FEES'[m] <= LateFee * (current_cycle_index - 1)
      <4>1. 0 <= MEMBER_ACCUMULATED_LATE_FEES[m]
        BY ChargesTypes
      <4> QED BY <1>2, <2>1, <4>1, ChargesTypes DEF Recorded
    <3> QED BY <2>1, <2>2, <3>1, <3>2 DEF Recorded, LateFee
  <2>4. ASSUME NEW m \in Members'  PROVE Chargeable(m)'
    <3>1. m \in Members
      BY <1>2, <2>4
    <3>2. LateFeesDue(m)' = LateFeesDue(m)
      BY <2>2 DEF LateFeesDue, RoundsMissed, LastDeposited, LateFee
    <3> QED BY <1>2, <2>1, <2>2, <2>4, <3>1, <3>2 DEF Chargeable
  <2> QED BY <1>2, <2>3, <2>4 DEF ChargesInv
<1> QED
  BY <1>1, <1>2 DEF ChargesInv

\* A start opens round 1 with nothing on record.
LEMMA StartCharges ==
    ASSUME TypeInv, ChargesInv, Phase = "forming", NEW list, StartRunning(list),
           UNCHANGED <<deposits, misses>>
    PROVE  ChargesInv'
<1>1. Phase' = "running" /\ current_cycle_index' = 1
  BY PhaseBecomes DEF StartRunning
<1>2. \A m \in Addr : /\ MEMBER_ACCUMULATED_LATE_FEES'[m] = 0
                      /\ last_missed_cycle'[m] = None
                      /\ DEPOSITS'[m] = {}
  BY DEF ChargesInv, deposits, misses
<1>3. LateFee * 0 = 0
  BY FeesType
<1>4. ASSUME NEW m \in Addr  PROVE Recorded(m)'
  BY <1>1, <1>2, <1>3 DEF Recorded, LateFee
<1>5. ASSUME NEW m \in Addr  PROVE Chargeable(m)'
  <2>1. LastDeposited(m)' \in Nat
    <3>1. LastDeposited(m)' = LastDeposited(m)
      BY DEF deposits, LastDeposited
    <3> QED BY <3>1, ChargesTypes
  <2>2. RoundsMissed(m)' = 0
    BY <1>1, <2>1, MissedSince DEF RoundsMissed
  <2> QED BY <1>2, <1>3, <2>2 DEF Chargeable, LateFeesDue, LateFee
<1>6. Members' \subseteq Addr
  BY DEF Members
<1> QED
  BY <1>1, <1>4, <1>5, <1>6 DEF ChargesInv

\* A deposit pays for all the rounds missed, or there were none.
LEMMA DepositCharges ==
    ASSUME TypeInv, ChargesInv, NEW m \in Addr, DepositContribution(m)
    PROVE  ChargesInv'
<1>0. /\ Phase = "running" /\ Phase' = "running" /\ m \in Members
      /\ UNCHANGED <<current_cycle_index, BLOCKED_MEMBERS, members_list>>
  BY PhaseIs, PhaseBecomes DEF DepositContribution, AcceptsDeposit, schedule, roster
<1>1. /\ \A x \in Addr    : Recorded(x)
      /\ \A x \in Members : Chargeable(x)
  BY <1>0 DEF ChargesInv
<1>2. /\ DEPOSITS' = [DEPOSITS EXCEPT ![m] = @ \cup {current_cycle_index}]
      /\ MEMBER_LAST_DEPOSITED_CYCLE' =
             [MEMBER_LAST_DEPOSITED_CYCLE EXCEPT ![m] = current_cycle_index]
      /\ IF RoundsMissed(m) > 0 THEN ForgiveMisses(m) ELSE UNCHANGED misses
  BY DEF DepositContribution
<1>3. ASSUME NEW x \in Addr, x # m
      PROVE  /\ UNCHANGED <<MEMBER_ACCUMULATED_LATE_FEES[x], last_missed_cycle[x], DEPOSITS[x],
                            MEMBER_LAST_DEPOSITED_CYCLE[x]>>
             /\ LastDeposited(x)' = LastDeposited(x)
  <2>1. UNCHANGED <<MEMBER_ACCUMULATED_LATE_FEES[x], last_missed_cycle[x], DEPOSITS[x],
                    MEMBER_LAST_DEPOSITED_CYCLE[x]>>
    BY <1>2, <1>3, ChargesTypes DEF ForgiveMisses, misses
  <2> QED BY <2>1 DEF LastDeposited
<1>4. /\ DEPOSITS'[m] = DEPOSITS[m] \cup {current_cycle_index}
      /\ MEMBER_LAST_DEPOSITED_CYCLE'[m] = current_cycle_index
      /\ LastDeposited(m)' = current_cycle_index
  <2>1. /\ DEPOSITS'[m] = DEPOSITS[m] \cup {current_cycle_index}
        /\ MEMBER_LAST_DEPOSITED_CYCLE'[m] = current_cycle_index
    BY <1>2, ChargesTypes
  <2> QED BY <2>1, ChargesTypes DEF LastDeposited
<1>5. /\ MEMBER_ACCUMULATED_LATE_FEES'[m] \in {0, MEMBER_ACCUMULATED_LATE_FEES[m]}
      /\ last_missed_cycle'[m] \in {None, last_missed_cycle[m]}
  BY <1>2, ChargesTypes DEF ForgiveMisses, misses
<1>6. ASSUME NEW x \in Addr  PROVE Recorded(x)'
  <2>1. CASE x # m
    BY <1>0, <1>1, <1>3, <2>1 DEF Recorded, LateFee
  <2>2. CASE x = m
    <3>1. MEMBER_ACCUMULATED_LATE_FEES'[m] <= LateFee * (current_cycle_index - 1)
      BY <1>1, <1>5, ChargesTypes DEF Recorded
    <3>2. \A r \in DEPOSITS'[m] : r <= current_cycle_index
      BY <1>1, <1>4, ChargesTypes DEF Recorded
    <3> QED BY <1>0, <1>4, <2>2, <3>1, <3>2, ChargesTypes DEF Recorded, LateFee
  <2> QED BY <2>1, <2>2
<1>7. ASSUME NEW x \in Members  PROVE Chargeable(x)'
  <2>0. x \in Addr
    BY ChargesTypes
  <2>1. CASE x # m
    <3>1. LateFeesDue(x)' = LateFeesDue(x)
      BY <1>0, <1>3, <2>0, <2>1 DEF LateFeesDue, RoundsMissed, LateFee
    <3> QED BY <1>0, <1>1, <1>3, <1>7, <2>0, <2>1, <3>1 DEF Chargeable
  <2>2. CASE x = m
    <3>1. RoundsMissed(m)' = 0
      BY <1>0, <1>4, ChargesTypes, MissedSince DEF RoundsMissed
    <3>2. LateFeesDue(m)' = 0
      BY <3>1, FeesAreMonotone DEF LateFeesDue, LateFee
    <3>3. MEMBER_ACCUMULATED_LATE_FEES'[m] >= 0
      BY <1>5, ChargesTypes
    <3> QED BY <1>0, <1>1, <1>5, <2>2, <3>2, <3>3 DEF Chargeable
  <2> QED BY <2>1, <2>2
<1>8. Members' = Members
  BY <1>0 DEF Members
<1> QED
  BY <1>0, <1>6, <1>7, <1>8 DEF ChargesInv

LEMMA LastDepositedNext ==
    ASSUME NEW m \in Addr
    PROVE  DepositsInv' =>
               /\ LastDeposited(m)' \in Nat
               /\ MEMBER_LAST_DEPOSITED_CYCLE'[m] = None =>
                      \A r \in DEPOSITS'[m] : r <= LastDeposited(m)'
<1> DEFINE LastIs == /\ LastDeposited(m) \in Nat
                     /\ MEMBER_LAST_DEPOSITED_CYCLE[m] = None =>
                            \A r \in DEPOSITS[m] : r <= LastDeposited(m)
<1>1. DepositsInv => LastIs
  BY LastDepositedType
<1>2. DepositsInv' => LastIs'
  BY <1>1, PTL
<1> QED
  BY <1>2

\* Closing a round adds one fee for each member that missed it, and one round
\* to those missed unless the lock covered it.
LEMMA ClosingCharges ==
    ASSUME TypeInv, TypeInv', ChargesInv, circle_status = "Running", circle_status' = "Running",
           ChargeMissing, NextRound
    PROVE  ChargesInv'
<1>0. Phase = "running" /\ Phase' = "running"
  BY PhaseIs, PhaseBecomes
<1> DEFINE c == current_cycle_index
<1>1. /\ \A x \in Addr    : Recorded(x)
      /\ \A x \in Members : Chargeable(x)
  BY <1>0 DEF ChargesInv
<1>2. /\ c \in Nat /\ current_cycle_index' = c + 1
      /\ LateFee * c = LateFee * (c - 1) + LateFee
      /\ LateFee * (c - 1) \in Int /\ LateFee * c \in Nat /\ LateFee \in Nat
  BY ChargesTypes, TimesType DEF NextRound
<1>3. ASSUME NEW m \in Addr
      PROVE  /\ MEMBER_ACCUMULATED_LATE_FEES'[m] = IF m \in Defaulters THEN 0 ELSE FeesAfter[m]
             /\ m \in Charged    => FeesAfter[m] = MEMBER_ACCUMULATED_LATE_FEES[m] + LateFee
             /\ m \notin Charged => FeesAfter[m] = MEMBER_ACCUMULATED_LATE_FEES[m]
             /\ FeesAfter[m] \in Nat
             /\ last_missed_cycle'[m] = IF m \in Missing THEN c ELSE last_missed_cycle[m]
             /\ DEPOSITS'[m] = IF LockUse[m] > 0 THEN DEPOSITS[m] \cup {c} ELSE DEPOSITS[m]
             /\ MEMBER_LAST_DEPOSITED_CYCLE'[m] = MEMBER_LAST_DEPOSITED_CYCLE[m]
  <2>1. MEMBER_ACCUMULATED_LATE_FEES[m] \in Nat
    BY ChargesTypes
  <2>2. m \in Charged => FeesAfter[m] = MEMBER_ACCUMULATED_LATE_FEES[m] + LateFee
    BY DEF FeesAfter
  <2>3. m \notin Charged => FeesAfter[m] = MEMBER_ACCUMULATED_LATE_FEES[m]
    BY <2>1 DEF FeesAfter
  <2>4. FeesAfter[m] \in Nat
    BY <1>2, <2>1, <2>2, <2>3
  <2> QED BY <2>2, <2>3, <2>4 DEF ChargeMissing, DepositsAfter
<1>4. ASSUME NEW m \in Addr
      PROVE  /\ LastDeposited(m)' \in Nat /\ LastDeposited(m) \in Nat
             /\ MEMBER_LAST_DEPOSITED_CYCLE'[m] = None =>
                    \A r \in DEPOSITS'[m] : r <= LastDeposited(m)'
             /\ MEMBER_LAST_DEPOSITED_CYCLE'[m] # None \/ DEPOSITS'[m] = DEPOSITS[m] =>
                    LastDeposited(m)' = LastDeposited(m)
  <2>1. DepositsInv'
    BY DEF TypeInv, LedgerInv
  <2>2. MEMBER_LAST_DEPOSITED_CYCLE'[m] # None \/ DEPOSITS'[m] = DEPOSITS[m] =>
            LastDeposited(m)' = LastDeposited(m)
    BY <1>3 DEF LastDeposited
  <2> QED BY <2>1, <2>2, LastDepositedNext, ChargesTypes
<1>5. ASSUME NEW m \in Addr  PROVE Recorded(m)'
  <2>1. MEMBER_ACCUMULATED_LATE_FEES'[m] <= LateFee * c
    <3>1. /\ MEMBER_ACCUMULATED_LATE_FEES[m] \in Nat
          /\ MEMBER_ACCUMULATED_LATE_FEES[m] <= LateFee * (c - 1)
      BY <1>1, ChargesTypes DEF Recorded
    <3>2. \/ MEMBER_ACCUMULATED_LATE_FEES'[m] = 0
          \/ MEMBER_ACCUMULATED_LATE_FEES'[m] = MEMBER_ACCUMULATED_LATE_FEES[m]
          \/ MEMBER_ACCUMULATED_LATE_FEES'[m] = MEMBER_ACCUMULATED_LATE_FEES[m] + LateFee
      BY <1>3
    <3>3. PICK fees, most : fees = MEMBER_ACCUMULATED_LATE_FEES[m] /\ most = LateFee * (c - 1)
      OBVIOUS
    <3>4. /\ fees \in Nat /\ most \in Int /\ fees <= most
          /\ LateFee * c = most + LateFee /\ LateFee \in Nat
      BY <1>2, <3>1, <3>3
    <3>5. 0 <= LateFee * c /\ fees <= LateFee * c /\ fees + LateFee <= LateFee * c
      BY <3>4
    <3> QED BY <3>2, <3>3, <3>5
  <2>2. \A r \in DEPOSITS'[m] : r \in Nat /\ r <= c
    <3>1. \A r \in DEPOSITS[m] : r \in Nat /\ r <= c
      BY <1>1, ChargesTypes DEF Recorded
    <3>2. DEPOSITS'[m] \subseteq DEPOSITS[m] \cup {c}
      BY <1>3
    <3> QED BY <1>2, <3>1, <3>2
  <2>3. current_cycle_index' \notin DEPOSITS'[m] /\ \A r \in DEPOSITS'[m] : r <= current_cycle_index'
    BY <1>2, <2>2
  <2>4. (LateFee * (current_cycle_index - 1))' = LateFee * c
    BY <1>2 DEF LateFee
  <2> QED BY <2>1, <2>3, <2>4 DEF Recorded
<1>6. Members' = Members \ Defaulters
  BY WithoutMembers, MembersAreNamesNext DEF ChargeMissing, EjectMembers, TypeInv, RosterInv
<1>7. ASSUME NEW m \in Members'  PROVE Chargeable(m)'
  <2>0. m \in Members /\ m \in Addr /\ m \notin Defaulters /\ Chargeable(m) /\ Recorded(m)
    BY <1>1, <1>6, <1>7, ChargesTypes
  <2>1. last_missed_cycle'[m] # None => last_missed_cycle'[m] < current_cycle_index'
    <3>1. last_missed_cycle'[m] \in {c, last_missed_cycle[m]}
      BY <1>3, <2>0
    <3>2. last_missed_cycle[m] # None => last_missed_cycle[m] \in Nat /\ last_missed_cycle[m] < c
      BY <2>0, ChargesTypes DEF Chargeable
    <3> QED BY <1>2, <3>1, <3>2
  <2>2. ASSUME BLOCKED_MEMBERS'[m] = None
        PROVE  LateFeesDue(m)' <= MEMBER_ACCUMULATED_LATE_FEES'[m]
    <3>1. BLOCKED_MEMBERS[m] = None
      BY <2>0, <2>2 DEF ChargeMissing, EjectMembers
    <3>2. /\ LateFeesDue(m) <= MEMBER_ACCUMULATED_LATE_FEES[m]
          /\ m \in Active /\ (m \in Missing <=> c \notin DEPOSITS[m])
          /\ m \in Charged <=> m \in Missing
      BY <2>0, <3>1, ChargesTypes DEF Chargeable, Active, Unblocked, Missing, Charged
    <3>3. /\ RoundsMissed(m) = Saturating(Saturating(c, LastDeposited(m)), 1)
          /\ RoundsMissed(m)' = Saturating(Saturating(c + 1, LastDeposited(m)'), 1)
      BY <1>2 DEF RoundsMissed
    <3>4. /\ LateFeesDue(m) = LateFee * RoundsMissed(m)
          /\ LateFeesDue(m)' = LateFee * RoundsMissed(m)'
      BY DEF LateFeesDue, LateFee
    <3>5. MEMBER_ACCUMULATED_LATE_FEES'[m] \in Nat /\ MEMBER_ACCUMULATED_LATE_FEES[m] \in Nat
      <4>1. MEMBER_ACCUMULATED_LATE_FEES[m] \in Nat
        BY <2>0, ChargesTypes
      <4>2. MEMBER_ACCUMULATED_LATE_FEES'[m] = FeesAfter[m]
        BY <1>3, <2>0
      <4> QED BY <1>3, <2>0, <4>1, <4>2
    <3>last. CASE LastDeposited(m)' >= c
      <4>1. RoundsMissed(m)' = 0
        BY <1>2, <1>4, <2>0, <3>3, <3>last, MissedSince
      <4> QED BY <1>2, <3>4, <3>5, <4>1
    <3>6. CASE m \notin Missing
      <4>0. ~PaysFromLock(m)
        BY <3>1, <3>6 DEF PaysFromLock, Unblocked
      <4>1. DEPOSITS'[m] = DEPOSITS[m]
        <5>1. LockUse[m] = 0
          BY <2>0, <4>0 DEF LockUse
        <5>2. ~(LockUse[m] > 0)
          BY <5>1
        <5> QED BY <1>3, <2>0, <5>2
      <4>2. LastDeposited(m)' >= c
        BY <1>4, <2>0, <3>2, <3>6, <4>1 DEF Recorded
      <4> QED BY <3>last, <4>2
    <3>7. CASE m \in Missing /\ LastDeposited(m)' # LastDeposited(m)
      <4>1. MEMBER_LAST_DEPOSITED_CYCLE'[m] = None /\ c \in DEPOSITS'[m]
        BY <1>3, <1>4, <2>0, <3>7
      <4>2. LastDeposited(m)' >= c
        BY <1>2, <1>4, <2>0, <4>1
      <4> QED BY <3>last, <4>2
    <3>8. CASE m \in Missing /\ LastDeposited(m)' = LastDeposited(m)
      <4>1. /\ RoundsMissed(m) \in Nat /\ RoundsMissed(m)' \in Nat
            /\ RoundsMissed(m)' <= RoundsMissed(m) + 1
        <5>1. PICK last \in Nat : last = LastDeposited(m)
          BY <1>4, <2>0
        <5> QED BY <1>2, <3>3, <3>8, <5>1, MissedSince
      <4>2. /\ LateFee * RoundsMissed(m)' <= LateFee * (RoundsMissed(m) + 1)
            /\ LateFee * (RoundsMissed(m) + 1) = LateFee * RoundsMissed(m) + LateFee
            /\ LateFee * RoundsMissed(m)' \in Nat /\ LateFee * RoundsMissed(m) \in Nat
        <5>1. PICK old \in Nat, new \in Nat : old = RoundsMissed(m) /\ new = RoundsMissed(m)'
          BY <4>1
        <5>2. new <= old + 1
          BY <4>1, <5>1
        <5>3. LateFee * new <= LateFee * (old + 1) /\ LateFee * (old + 1) = LateFee * old + LateFee
              /\ LateFee * new \in Nat /\ LateFee * old \in Nat
          BY <5>2, FeesAreMonotone
        <5> QED BY <5>1, <5>3
      <4>3. MEMBER_ACCUMULATED_LATE_FEES'[m] = MEMBER_ACCUMULATED_LATE_FEES[m] + LateFee
        BY <1>3, <2>0, <3>2, <3>8
      <4>4. PICK due, due_after, fees : /\ due = LateFeesDue(m) /\ due_after = LateFeesDue(m)'
                                        /\ fees = MEMBER_ACCUMULATED_LATE_FEES[m]
        OBVIOUS
      <4>5. due \in Nat /\ due_after \in Nat /\ fees \in Nat /\ due_after <= due + LateFee
            /\ due <= fees
        <5>1. due_after <= due + LateFee /\ due \in Nat /\ due_after \in Nat
          BY <3>4, <4>2, <4>4
        <5> QED BY <3>2, <3>5, <4>4, <5>1
      <4>6. due_after <= fees + LateFee
        BY <1>2, <4>5
      <4> QED BY <4>3, <4>4, <4>6
    <3> QED BY <3>6, <3>7, <3>8
  <2> QED BY <2>1, <2>2 DEF Chargeable
<1> QED
  BY <1>0, <1>5, <1>7 DEF ChargesInv

LEMMA ChargesInvNext ==
    ASSUME NoRevival, TypeInv, TypeInv', ChargesInv, [Next]_vars
    PROVE  ChargesInv'
<1>over. ASSUME Phase' = "over"  PROVE ChargesInv'
  BY <1>over DEF ChargesInv
<1>same. ASSUME UNCHANGED <<current_cycle_index, members_list, BLOCKED_MEMBERS, deposits, misses>>,
                Phase' = Phase
         PROVE  ChargesInv'
  BY <1>same, ChargesStay, ChargesTypes DEF misses, Members
\* The members of S leave the list, and their fees are dropped.
<1>leave. ASSUME NEW S, members_list' = Without(members_list, S), Phase' = "running",
                 Phase = "running", UNCHANGED <<current_cycle_index, deposits>>,
                 \A m \in Addr :
                     /\ MEMBER_ACCUMULATED_LATE_FEES'[m] =
                            IF m \in S THEN 0 ELSE MEMBER_ACCUMULATED_LATE_FEES[m]
                     /\ m \notin S => /\ last_missed_cycle'[m] = last_missed_cycle[m]
                                      /\ BLOCKED_MEMBERS'[m] = BLOCKED_MEMBERS[m]
          PROVE  ChargesInv'
  <2>1. Members' = Members \ S
    BY <1>leave, WithoutMembers, MembersAreNamesNext DEF TypeInv, RosterInv
  <2>2. \A m \in Members' : m \in Addr /\ m \notin S
    BY <2>1, ChargesTypes
  <2> QED BY <1>leave, <2>1, <2>2, ChargesStay
<1>1. ASSUME NEW m \in Addr, JoinCircle(m)  PROVE ChargesInv'
  <2>1. Phase = "forming" /\ UNCHANGED <<deposits, misses>>
    BY <1>1, PhaseIs DEF JoinCircle
  <2>2. CASE StartRunning(Append(members_list, m))
    BY <2>1, <2>2, StartCharges
  <2>3. CASE circle_status' \in {"Full", "Open"} /\ UNCHANGED schedule
    <3>1. Phase' = "forming" /\ UNCHANGED current_cycle_index
      BY <2>3, PhaseBecomes DEF schedule
    <3> QED BY <2>1, <3>1, ChargesStay
  <2> QED BY <1>1, <2>2, <2>3 DEF JoinCircle
<1>2. ASSUME NEW m \in Addr, ExitBeforeStart(m)  PROVE ChargesInv'
  <2>1. /\ UNCHANGED <<schedule, deposits, misses>> /\ circle_status \notin {"Running", "Paused"}
        /\ \/ circle_status' \in {circle_status, "Cancelled"}
           \/ circle_status \in {"Open", "Full"} /\ circle_status' \in {"Open", "Draft"}
    BY <1>2 DEF ExitBeforeStart
  <2>2. Phase' # "running" /\ (Phase' = "forming" => Phase = "forming")
    BY <2>1, PhaseIs, PhaseBecomes
  <2>3. UNCHANGED current_cycle_index
    BY <2>1 DEF schedule
  <2> QED BY <2>1, <2>2, <2>3, ChargesStay
<1>3. ASSUME NEW m \in Addr, ExitAfterStart(m)  PROVE ChargesInv'
  <2>1. /\ members_list' = Without(members_list, {m})
        /\ UNCHANGED <<current_cycle_index, deposits, last_missed_cycle, BLOCKED_MEMBERS>>
        /\ Phase = "running" /\ Phase' = "running"
    BY <1>3, PhaseIs, PhaseBecomes DEF ExitAfterStart, schedule
  <2>2. \A x \in Addr : MEMBER_ACCUMULATED_LATE_FEES'[x] =
                            IF x \in {m} THEN 0 ELSE MEMBER_ACCUMULATED_LATE_FEES[x]
    BY <1>3, ChargesTypes DEF ExitAfterStart
  <2> QED BY <1>leave, <2>1, <2>2
<1>4. ASSUME NEW m \in Addr, DepositContribution(m)  PROVE ChargesInv'
  BY <1>4, DepositCharges
<1>5. ASSUME NEW m \in Addr, ProcessPayout(m)  PROVE ChargesInv'
  <2>1. CASE FinalizeCircle
    BY <1>over, <2>1, PhaseBecomes DEF FinalizeCircle
  <2>2. CASE PayRound
    BY <1>5, <2>2, ClosingCharges DEF ProcessPayout, PayRound
  <2> QED BY <1>5, <2>1, <2>2 DEF ProcessPayout
<1>6. ASSUME NEW m \in Addr, AdvanceRound(m)  PROVE ChargesInv'
  BY <1>6, ClosingCharges DEF AdvanceRound
<1>7. ASSUME NEW m \in Addr, Withdraw(m)  PROVE ChargesInv'
  <2>1. Phase' = Phase
    BY <1>7 DEF Withdraw, Phase
  <2> QED BY <1>7, <1>same, <2>1 DEF Withdraw, roster, schedule
<1>8. ASSUME NEW m, InviteMember(m)  PROVE ChargesInv'
  <2>1. Phase' = Phase
    BY <1>8 DEF InviteMember, Phase
  <2> QED BY <1>8, <1>same, <2>1 DEF InviteMember, schedule
<1>9. ASSUME NEW m, BlockMember(m)  PROVE ChargesInv'
  <2>1. /\ Phase' = Phase /\ Members' = Members
        /\ UNCHANGED <<current_cycle_index, deposits, misses>>
    BY <1>9 DEF BlockMember, Phase, Members, schedule
  <2>2. ASSUME NEW x \in Addr, BLOCKED_MEMBERS'[x] = None  PROVE BLOCKED_MEMBERS[x] = None
    BY <1>9, <2>2, ChargesTypes DEF BlockMember
  <2> QED BY <2>1, <2>2, ChargesStay, ChargesTypes DEF misses
<1>10. CASE StartCircle
  BY <1>10, StartCharges, PhaseIs DEF StartCircle
<1>11. CASE CancelCircle
  BY <1>11, <1>over, PhaseBecomes DEF CancelCircle, CancelBeforeStart, CancelRunning
<1>12. CASE CheckAndEject
  <2>1. /\ members_list' = Without(members_list, InDefault)
        /\ Phase = "running" /\ Phase' = "running"
        /\ UNCHANGED <<current_cycle_index, deposits>>
    BY <1>12, PhaseIs, PhaseBecomes DEF CheckAndEject, EjectMembers, schedule
  <2>2. \A x \in Addr :
            /\ MEMBER_ACCUMULATED_LATE_FEES'[x] =
                   IF x \in InDefault THEN 0 ELSE MEMBER_ACCUMULATED_LATE_FEES[x]
            /\ x \notin InDefault => /\ last_missed_cycle'[x] = last_missed_cycle[x]
                                     /\ BLOCKED_MEMBERS'[x] = BLOCKED_MEMBERS[x]
    BY <1>12 DEF CheckAndEject, EjectMembers
  <2> QED BY <1>leave, <2>1, <2>2
<1>13. CASE WithdrawPlatformFees \/ SweepDust
  <2>1. Phase' = Phase
    BY <1>13 DEF WithdrawPlatformFees, SweepDust, Phase
  <2> QED BY <1>13, <1>same, <2>1 DEF WithdrawPlatformFees, SweepDust, roster, schedule
<1>14. ASSUME NEW x, DepositCreatorReward(x) \/ DistributeBlockedFunds(x)  PROVE ChargesInv'
  <2>1. Phase' = Phase
    BY <1>14 DEF DepositCreatorReward, DistributeBlockedFunds, Phase
  <2> QED BY <1>14, <1>same, <2>1 DEF DepositCreatorReward, DistributeBlockedFunds, roster, schedule
<1>15. CASE PauseCircle \/ UnpauseCircle
  <2>1. Phase' = Phase
    BY <1>15, PhaseIs, PhaseBecomes DEF PauseCircle, UnpauseCircle, SwitchStatus
  <2> QED BY <1>15, <1>same, <2>1 DEF PauseCircle, UnpauseCircle, SwitchStatus, roster, schedule
<1>16. CASE Tick \/ UNCHANGED vars
  <2>1. Phase' = Phase
    BY <1>16 DEF Tick, vars, Phase
  <2> QED BY <1>16, <1>same, <2>1 DEF Tick, vars, roster, schedule
<1>17. ~EmergencyStop /\ ~\E m \in Added : AddPrivateMember(m)
  BY DEF NoRevival, EmergencyStop
<1> QED
  BY <1>1, <1>2, <1>3, <1>4, <1>5, <1>6, <1>7, <1>8, <1>9, <1>10, <1>11, <1>12, <1>13,
     <1>14, <1>15, <1>16, <1>17 DEF Next, ExitCircle

\* A member that was never blocked and deposits is asked for no round it was
\* not charged for, and is never charged twice for one, in whatever order the
\* round-closing calls, ejections, exits and late deposits come.
THEOREM MissesAreChargedExactly ==
    ASSUME NoRevival
    PROVE  Spec => []MissesAreChargedOnce
<1>1. Init => ChargesInv
  BY PhaseIs DEF Init, CreatedCircle, ChargesInv, Nothing
<1>2. TypeInv /\ ChargesInv /\ [Next]_vars => TypeInv' /\ ChargesInv'
  BY TypeInvNext, ChargesInvNext
<1>3. TypeInv /\ ChargesInv => MissesAreChargedOnce
  <2> SUFFICES ASSUME TypeInv, ChargesInv, circle_status \in {"Running", "Paused"},
                      NEW m \in Members, BLOCKED_MEMBERS[m] = None
               PROVE  /\ LateFeesDue(m) <= MEMBER_ACCUMULATED_LATE_FEES[m]
                      /\ MEMBER_ACCUMULATED_LATE_FEES[m] <= LateFee * (current_cycle_index - 1)
    BY DEF MissesAreChargedOnce
  <2>1. m \in Addr /\ Phase = "running"
    BY PhaseIs, RosterType
  <2>2. Recorded(m) /\ Chargeable(m)
    BY <2>1 DEF ChargesInv
  <2> QED BY <2>2 DEF Recorded, Chargeable
<1> QED
  BY <1>1, <1>2, <1>3, TypeInvInit, PTL DEF Spec

---------------------------------------------------------------------------
(* Migration *)

\* What survives an upgrade: everything but the settlement, which migrate
\* announces without making it.
UpgradeInv == TypeInv /\ LocksAreWhole /\ FeesWithinMisses

LEMMA MigrateKeeps == UpgradeInv /\ Migrate => UpgradeInv'
<1> SUFFICES ASSUME UpgradeInv, Migrate  PROVE UpgradeInv'
  OBVIOUS
<1>1. UNCHANGED <<roster, max_missed_payments_allowed, schedule, deposits, misses, locks,
                  claims, pools, bank>>
  BY DEF Migrate
<1>2. LedgerInv' /\ LocksAreWhole' /\ FeesWithinMisses'
  BY <1>1 DEF UpgradeInv, TypeInv, LedgerInv, LedgerTypeOK, PendingTotalMatches, DepositsInv,
              LocksAreWhole, FeesWithinMisses, schedule, deposits, misses, locks, claims, pools
<1>3. RosterInv' /\ RecordsInv'
  BY <1>1 DEF UpgradeInv, TypeInv, RosterInv, RecordsInv, roster, deposits, misses
<1>4. TermsInv'
  <2>1. Len(members_list) \in 0..max_members
    BY MembersAreListed, CreateCircleAccepts DEF UpgradeInv, TypeInv, RosterInv
  <2>2. members_at_start' \in (0..max_members) \cup {None}
    BY <2>1 DEF Migrate, BackfilledStart, UpgradeInv, TypeInv, TermsInv
  <2> QED BY <1>1, <2>2 DEF UpgradeInv, TypeInv, TermsInv
<1>5. ScheduleInv'
  <2>1. circle_status' \in Status
    BY DEF Migrate, UpgradeInv, TypeInv, ScheduleInv, Status
  <2> QED BY <1>1, <2>1 DEF UpgradeInv, TypeInv, ScheduleInv, schedule
<1> QED
  BY <1>2, <1>3, <1>4, <1>5 DEF UpgradeInv, TypeInv

LEMMA UpgradeInvInit == Init => UpgradeInv
BY TypeInvInit, LocksAreWholeInit, FeesWithinMissesInit DEF UpgradeInv

LEMMA UpgradeInvNext == UpgradeInv /\ [Next \/ Migrate]_vars => UpgradeInv'
<1>1. UpgradeInv /\ [Next]_vars => UpgradeInv'
  BY TypeInvNext, LocksAreWholeNext, FeesWithinMissesNext DEF UpgradeInv, TypeInv, LockInv, FeesInv
<1> QED
  BY <1>1, MigrateKeeps

\* No upgrade, at whatever moment and however often, makes an amount negative,
\* a total wrong, a lock partial or a fee unearned.
THEOREM UpgradesKeepTheLedgers ==
    UpgradeSpec => [](TypeOK /\ PendingTotalMatches /\ LocksAreWhole /\ FeesWithinMisses)
<1>1. UpgradeInv => TypeOK /\ PendingTotalMatches /\ LocksAreWhole /\ FeesWithinMisses
  BY TypeInvImplies DEF UpgradeInv, TypeInv, LedgerInv
<1> QED
  BY <1>1, UpgradeInvInit, UpgradeInvNext, PTL DEF UpgradeSpec

\* Running migrate again changes nothing: what it backfilled stands, and a
\* circle it left running is not past its rounds by the backfilled count.
THEOREM MigratingAgainChangesNothing == UpgradeSpec => MigrateIsIdempotent
<1> DEFINE Settled == Migrate => /\ BackfilledStart' = members_at_start'
                                 /\ circle_status' = "Running" => ~Overshoot(members_at_start)'
<1>1. UpgradeInv => Settled
  <2> SUFFICES ASSUME UpgradeInv, Migrate
               PROVE  /\ BackfilledStart' = members_at_start'
                      /\ circle_status' = "Running" => ~Overshoot(members_at_start)'
    OBVIOUS
  <2>1. UNCHANGED <<members_list, current_cycle_index, cycles_completed>>
    BY DEF Migrate, roster, schedule
  <2>2. Len(members_list) # None
    BY MembersAreListed, BoundsAreNatural DEF UpgradeInv, TypeInv, RosterInv
  <2>3. circle_status' = "Running" => circle_status = "Running" /\ ~Overshoot(BackfilledStart)
    BY DEF Migrate
  <2>4. BackfilledStart' = members_at_start'
    BY <2>2, <2>3 DEF Migrate, BackfilledStart
  <2> QED BY <2>1, <2>3, <2>4 DEF Migrate, Overshoot
<1>2. MigrateIsIdempotent <=> [][Settled]_vars
  BY DEF MigrateIsIdempotent
<1> HIDE DEF Settled
<1> QED
  BY <1>1, <1>2, UpgradeInvInit, UpgradeInvNext, PTL DEF UpgradeSpec

---------------------------------------------------------------------------
(* The payouts on record *)

\* query_payouts returns every payout on record, when no circle comes back to
\* life: none was made for a round that is not reached any more.
THEOREM EveryPayoutIsQueried ==
    ASSUME NoRevival
    PROVE  Spec => []PayoutsQueryIsComplete
<1>1. Init => LifeInv
  BY LifeInit
<1>2. LifeInv /\ [Next]_vars => LifeInv'
  BY EveryStepIsLinear DEF Linear
<1>3. LifeInv => PayoutsQueryIsComplete
  BY DEF LifeInv, PayoutsQueryIsComplete, query_payouts
<1> QED
  BY <1>1, <1>2, <1>3, PTL DEF Spec

---------------------------------------------------------------------------
(* The calendar *)

\* The situation in which the calendar is binding: the round is listed, the
\* order names the active members and the count is within the roster.
Listed ==
    /\ circle_status = "Running"
    /\ current_cycle_index \in DOMAIN query_distribution_calendar
    /\ Active = ToSet(payout_order_list) /\ Active # {}
    /\ distribution_threshold <= Len(members_list)

\* Then the order names all members, so that the size of the calendar, read
\* from the order, is the number of members that the handlers count.
LEMMA CalendarSizeIs ==
    ASSUME TypeInv, OrderInv, Listed
    PROVE  /\ payout_order_list # None /\ payout_order_list \in Seq(Addr)
           /\ Cardinality(Active) \in Nat \ {0} /\ Cardinality(Active) = Len(members_list)
           /\ CalendarSize = Cardinality(Active) /\ Len(payout_order_list) = Cardinality(Active)
           /\ current_cycle_index \in Nat \ {0}
<1>1. payout_order_list # None
  <2> SUFFICES ASSUME payout_order_list = None  PROVE FALSE
    OBVIOUS
  <2> QED BY DEF Listed, query_distribution_calendar
<1>2. /\ payout_order_list \in Seq(Addr) /\ IsInjective(payout_order_list)
      /\ ToSet(payout_order_list) \subseteq Members => ToSet(payout_order_list) = Members
  BY <1>1 DEF TypeInv, RosterInv, OrderInv, Listed
<1>3. Active = Members
  BY <1>2 DEF Listed, Active
<1>4. Cardinality(Active) = Len(members_list)
  BY <1>3, MembersAreListed, LengthIsCount DEF TypeInv, RosterInv
<1>5. Cardinality(Active) = Len(payout_order_list)
  BY <1>2, LengthIsCount DEF Listed
<1>6. Cardinality(Active) \in Nat \ {0}
  BY <1>3, RosterType, CountType DEF Listed
<1>7. CalendarSize = Cardinality(Active)
  BY <1>1, <1>5, <1>6 DEF CalendarSize, AtLeast
<1>8. current_cycle_index \in Nat \ {0}
  BY <1>1 DEF Listed, query_distribution_calendar
<1> QED
  BY <1>1, <1>2, <1>4, <1>5, <1>6, <1>7, <1>8

\* The row of the round says what the handlers ask: the seat they compute, the
\* first round that distributes, and a member that is not blocked.
LEMMA RowIs ==
    ASSUME TypeInv, OrderInv, Listed
    PROVE  LET n    == Cardinality(Active)
               seat == round_in_cycle(current_cycle_index, n)
               row  == query_distribution_calendar[current_cycle_index]
           IN  /\ seat \in 1..n
               /\ row.distribution_occurs <=>
                      seat >= distribution_min_round_for_active(distribution_threshold, n)
               /\ row.recipient = payout_order_list[seat]
<1> DEFINE n    == Cardinality(Active)
           c    == current_cycle_index
           seat == round_in_cycle(c, n)
           row  == query_distribution_calendar[c]
<1>1. /\ n \in Nat \ {0} /\ n = Len(members_list) /\ CalendarSize = n
      /\ Len(payout_order_list) = n /\ payout_order_list \in Seq(Addr) /\ c \in Nat \ {0}
  BY CalendarSizeIs
<1>2. /\ row.distribution_occurs <=> CalendarSeat(c) >= FirstAnnouncedRound
      /\ row.recipient = AnnouncedRecipient(c)
  BY DEF Listed, query_distribution_calendar
<1>3. (c - 1) % n \in 0..(n - 1) /\ (c - 1) \div n \in Nat
      /\ c - 1 = n * ((c - 1) \div n) + ((c - 1) % n)
  BY <1>1, DivType
<1>4. seat = CalendarSeat(c) /\ seat \in 1..n
  BY <1>1, <1>3 DEF CalendarSeat, round_in_cycle
<1>5. FirstAnnouncedRound = distribution_min_round_for_active(distribution_threshold, n)
  <2>1. distribution_threshold \in Nat /\ distribution_threshold <= n
    BY <1>1, CreateCircleAccepts DEF Listed
  <2> QED BY <1>1, <2>1 DEF FirstAnnouncedRound, distribution_min_round_for_active, AtMost
<1>6. AnnouncedRecipient(c) = payout_order_list[seat]
  <2> DEFINE m == payout_order_list[seat]
             k == (c - 1) \div n
  <2>1. m \in Active
    <3>1. seat \in DOMAIN payout_order_list
      BY <1>1, <1>4
    <3>2. m \in ToSet(payout_order_list)
      BY <3>1 DEF ToSet
    <3> QED BY <3>2 DEF Listed
  <2>2. m \in Addr /\ Unblocked(m, c)
    BY <2>1, RosterType DEF Active
  <2>3. CalendarCycle(c) = k + 1
    BY <1>1 DEF CalendarCycle
  <2>4. k + 1 <= c
    <3>1. k <= n * k
      BY <1>1, <1>3
    <3> HIDE DEF k
    <3>2. n * k \in Nat
      BY <1>1, <1>3, TimesType DEF k
    <3> QED BY <1>1, <1>3, <3>1, <3>2 DEF k
  <2>5. BLOCKED_MEMBERS[m] # None => BLOCKED_MEMBERS[m] \in Nat /\ BLOCKED_MEMBERS[m] > c
    BY <2>2 DEF Unblocked, TypeInv, RosterInv
  <2>6. ~(BLOCKED_MEMBERS[m] # None /\ CalendarCycle(c) > BLOCKED_MEMBERS[m])
    BY <1>1, <1>3, <2>3, <2>4, <2>5
  <2> QED BY <1>4, <2>6 DEF AnnouncedRecipient
<1> QED
  BY <1>2, <1>4, <1>5, <1>6

\* A call that ejects nobody pays all active members, from a pool that is not
\* empty.
LEMMA PayoutToActive ==
    ASSUME TypeInv, NEW sender \in Addr, ProcessPayout(sender), UNCHANGED members_list
    PROVE  Payees = Active /\ Payout \in Nat /\ Payout > 0
<1>1. Defaulters \subseteq Members /\ Payees # {}
  BY EjectedAreMembers DEF ProcessPayout, TypeInv, Missing, Active
<1>2. Defaulters = {}
  <2>1. members_list = Without(members_list, Defaulters)
    BY DEF ProcessPayout, ChargeMissing, EjectMembers
  <2>2. ToSet(members_list) = Members /\ ToSet(Without(members_list, Defaulters)) = Members \ Defaulters
    BY MembersAreListed, WithoutMembers DEF TypeInv, RosterInv
  <2> QED BY <1>1, <2>1, <2>2
<1>3. Payees = Active
  BY <1>2 DEF Payees
<1>4. BasePayout > 0 /\ BasePayout \in Nat /\ SumOf(LockUse) \in Nat /\ Payout \in Nat
  <2> DEFINE n == Cardinality(Payees)
  <2>1. n \in Nat \ {0}
    BY <1>1, RosterType, CountType
  <2>2. {m \in Payees : current_cycle_index \in DepositsAfter[m]} = Payees
    BY DEF ProcessPayout, AllHaveDeposited
  <2>3. contribution_amount * n \in Nat \ {0}
    BY <2>1, ConfigurationType
  <2>4. contribution_amount * n * n \in Nat \ {0}
    BY <2>1, <2>3
  <2>5. BasePayout \in {contribution_amount * n, contribution_amount * n * n}
    BY <2>2 DEF BasePayout
  <2> QED BY <2>3, <2>4, <2>5, PayoutType DEF TypeInv
<1>5. Pool \in Nat /\ Pool > 0
  BY <1>4 DEF Pool
<1>6. Payout > 0
  BY <1>5, PlatformFeeBelowWhole, RateIsAPart DEF Payout, PlatformFee
<1> QED
  BY <1>3, <1>4, <1>6

\* What ProcessPayout does is what the calendar announced.
LEMMA PayoutIsAnnounced ==
    ASSUME TypeInv, OrderInv, Listed, NEW sender \in Addr, ProcessPayout(sender),
           UNCHANGED members_list
    PROVE  LET row == query_distribution_calendar[current_cycle_index]
           IN  /\ row.distribution_occurs
               /\ distribution_threshold # Total /\ circle_status' = "Running" =>
                      {m \in Addr : PENDING_PAYOUTS'[m] > PENDING_PAYOUTS[m]} = {row.recipient}
<1> DEFINE n    == Cardinality(Active)
           seat == round_in_cycle(current_cycle_index, n)
           row  == query_distribution_calendar[current_cycle_index]
<1>1. Payees = Active /\ Payout \in Nat /\ Payout > 0
  BY PayoutToActive
<1>2. /\ seat \in 1..n /\ row.recipient = payout_order_list[seat]
      /\ row.distribution_occurs <=>
             seat >= distribution_min_round_for_active(distribution_threshold, n)
  BY RowIs
<1>3. PayoutRound = seat
      /\ FirstPayoutRound = distribution_min_round_for_active(distribution_threshold, n)
  BY <1>1 DEF PayoutRound, FirstPayoutRound
<1>4. row.distribution_occurs
  BY <1>2, <1>3 DEF ProcessPayout
<1>5. ASSUME distribution_threshold # Total, circle_status' = "Running"
      PROVE  {m \in Addr : PENDING_PAYOUTS'[m] > PENDING_PAYOUTS[m]} = {row.recipient}
  <2>1. payout_order_list \in Seq(Addr) /\ Len(payout_order_list) = n /\ n \in Nat \ {0}
    BY CalendarSizeIs
  <2>2. ActiveOrder = payout_order_list
    <3>1. ToSet(payout_order_list) \cap (Addr \ Payees) = {}
      BY <1>1 DEF Listed
    <3> QED BY <2>1, <3>1, WithoutNobody DEF ActiveOrder
  <2>3. Recipient = payout_order_list[seat]
    <3>1. (seat - 1) % n = seat - 1
      <4>1. n * 0 + (seat - 1) = seat - 1 /\ seat - 1 \in 0..(n - 1)
        BY <1>2, <2>1
      <4> QED BY <2>1, <4>1, RemainderIs
    <3>2. ((seat - 1) % n) + 1 = seat
      BY <1>2, <2>1, <3>1
    <3> QED BY <1>3, <2>1, <2>2, <3>2 DEF Recipient
  <2>4. row.recipient \in Addr /\ row.recipient = Recipient
    BY <1>2, <2>1, <2>3
  <2>5. \A m \in Addr : RoundCredits[m] = IF m = Recipient THEN Payout ELSE 0
    BY <1>5 DEF RoundCredits, SplitsPool
  <2>6. \A m \in Addr : PENDING_PAYOUTS'[m] = PENDING_PAYOUTS[m] + RoundCredits[m]
    BY <1>5 DEF ProcessPayout, FinalizeCircle, PayRound, CreditPending
  <2>7. \A m \in Addr : PENDING_PAYOUTS[m] \in Nat
    BY DEF TypeInv, LedgerInv, LedgerTypeOK
  <2>8. \A m \in Addr : PENDING_PAYOUTS'[m] > PENDING_PAYOUTS[m] <=> m = Recipient
    BY <1>1, <2>5, <2>6, <2>7
  <2> QED BY <2>4, <2>8
<1> QED
  BY <1>4, <1>5

\* What AdvanceRound closes is a round without an announced distribution.
LEMMA AdvanceIsAnnounced ==
    ASSUME TypeInv, OrderInv, Listed, NEW sender \in Addr, AdvanceRound(sender)
    PROVE  /\ ~query_distribution_calendar[current_cycle_index].distribution_occurs
           /\ PAYOUTS' = PAYOUTS
<1>1. PAYOUTS' = PAYOUTS
      /\ round_in_cycle(current_cycle_index, Cardinality(Active))
             < distribution_min_round_for_active(distribution_threshold, Cardinality(Active))
  BY DEF AdvanceRound
<1>2. distribution_min_round_for_active(distribution_threshold, Cardinality(Active)) \in Nat
  BY CalendarSizeIs, CreateCircleAccepts DEF distribution_min_round_for_active, AtMost
<1> QED
  BY <1>1, <1>2, RowIs

\* While the circle runs, no other call closes a round or puts a payout on
\* record.
LEMMA OnlyTheKeeperCloses ==
    ASSUME TypeInv, [Next]_vars, circle_status = "Running",
           current_cycle_index' > current_cycle_index \/ PAYOUTS' # PAYOUTS
    PROVE  \E x \in Addr : ProcessPayout(x) \/ AdvanceRound(x)
<1>same. ASSUME UNCHANGED <<current_cycle_index, PAYOUTS>>  PROVE FALSE
  <2>1. current_cycle_index \in Nat
    BY DEF TypeInv, ScheduleInv, Rounds
  <2> QED BY <1>same, <2>1
<1>1. ASSUME NEW x \in Addr, JoinCircle(x) \/ ExitCircle(x)  PROVE FALSE
  BY <1>1, <1>same DEF JoinCircle, ExitCircle, ExitBeforeStart, ExitAfterStart, schedule
<1>2. ASSUME NEW x \in Addr, DepositContribution(x) \/ Withdraw(x)  PROVE FALSE
  BY <1>2, <1>same DEF DepositContribution, Withdraw, schedule
<1>3. ASSUME NEW x, InviteMember(x) \/ AddPrivateMember(x) \/ BlockMember(x)  PROVE FALSE
  BY <1>3, <1>same DEF InviteMember, AddPrivateMember, BlockMember, schedule
<1>4. ASSUME StartCircle \/ CancelCircle  PROVE FALSE
  BY <1>4, <1>same DEF StartCircle, CancelCircle, CancelBeforeStart, CancelRunning, schedule
<1>5. ASSUME CheckAndEject \/ WithdrawPlatformFees \/ SweepDust  PROVE FALSE
  BY <1>5, <1>same DEF CheckAndEject, WithdrawPlatformFees, SweepDust, schedule
<1>6. ASSUME NEW x, DepositCreatorReward(x) \/ DistributeBlockedFunds(x)  PROVE FALSE
  BY <1>6, <1>same DEF DepositCreatorReward, DistributeBlockedFunds, schedule
<1>7. ASSUME PauseCircle \/ UnpauseCircle \/ EmergencyStop \/ UNCHANGED vars  PROVE FALSE
  BY <1>7, <1>same DEF PauseCircle, UnpauseCircle, EmergencyStop, SwitchStatus, vars, schedule
<1>8. ASSUME Tick  PROVE FALSE
  BY <1>8, <1>same DEF Tick
<1> QED
  BY <1>1, <1>2, <1>3, <1>4, <1>5, <1>6, <1>7, <1>8 DEF Next

\* The calendar is kept in lockstep with the handlers: in whatever order the
\* calls come, a round that is announced to distribute is closed by
\* ProcessPayout and by nothing else, the others by AdvanceRound, and under
\* MinMembers the one balance that grows is that of the announced recipient.
THEOREM CalendarIsKept ==
    ASSUME OrderNamesOnce
    PROVE  Spec => CalendarKept
<1> DEFINE closes == current_cycle_index' > current_cycle_index
           pays   == PAYOUTS' # PAYOUTS
           row    == query_distribution_calendar[current_cycle_index]
           Kept   ==
               /\ circle_status = "Running" /\ (closes \/ pays)
               /\ current_cycle_index \in DOMAIN query_distribution_calendar
               /\ Active = ToSet(payout_order_list) /\ members_list' = members_list
               /\ distribution_threshold <= Len(members_list)
               =>
               /\ row.distribution_occurs <=> pays
               /\ pays /\ distribution_threshold # Total /\ circle_status' = "Running" =>
                      {m \in Addr : PENDING_PAYOUTS'[m] > PENDING_PAYOUTS[m]} = {row.recipient}
<1>1. TypeInv /\ OrderInv /\ [Next]_vars => Kept
  <2> SUFFICES ASSUME TypeInv, OrderInv, [Next]_vars,
                      circle_status = "Running", closes \/ pays,
                      current_cycle_index \in DOMAIN query_distribution_calendar,
                      Active = ToSet(payout_order_list), members_list' = members_list,
                      distribution_threshold <= Len(members_list)
               PROVE  /\ row.distribution_occurs <=> pays
                      /\ pays /\ distribution_threshold # Total /\ circle_status' = "Running" =>
                             {m \in Addr : PENDING_PAYOUTS'[m] > PENDING_PAYOUTS[m]}
                                 = {row.recipient}
    OBVIOUS
  <2>1. PICK x \in Addr : ProcessPayout(x) \/ AdvanceRound(x)
    BY OnlyTheKeeperCloses
  <2>2. CASE ProcessPayout(x)
    <3>1. Active # {}
      BY <2>2 DEF ProcessPayout, Payees
    <3>2. Listed
      BY <3>1 DEF Listed
    <3>3. pays
      BY <2>2 DEF ProcessPayout
    <3> QED BY <2>2, <3>2, <3>3, PayoutIsAnnounced
  <2>3. CASE AdvanceRound(x)
    <3>1. Active # {}
      BY <2>3, FS_EmptySet DEF AdvanceRound
    <3>2. Listed
      BY <3>1 DEF Listed
    <3> QED BY <2>3, <3>2, AdvanceIsAnnounced
  <2> QED BY <2>1, <2>2, <2>3
<1>2. CalendarKept <=> [][Kept]_vars
  BY DEF CalendarKept
<1> HIDE DEF Kept
<1> QED
  BY <1>1, <1>2, OrderInvAlways, PTL DEF Spec
=============================================================================
