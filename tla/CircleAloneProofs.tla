------------------------- MODULE CircleAloneProofs -------------------------
(***************************************************************************)
(* A circle that shares its balance runs as it would on the part of the    *)
(* balance that the others are not owed: every call of its people, up to   *)
(* and including its settlement, is a call of the circle that is alone.    *)
(***************************************************************************)
EXTENDS CircleAlone, CircleCoopProofs

---------------------------------------------------------------------------
(* What does not read the balance is the same: arithmetic and lists *)

LEMMA SameCardinality == \A S : Alone!Cardinality(S) = Cardinality(S)
BY DEF Alone!Cardinality, Cardinality, Alone!IsFiniteSet, IsFiniteSet

LEMMA SameSum == \A f : Alone!SumOf(f) = SumOf(f)
BY SameCardinality DEF Alone!SumOf, SumOf, Alone!Coins, Coins

LEMMA SameOrder ==
    /\ \A a, b : Alone!AtMost(a, b) = AtMost(a, b)
    /\ \A a, b : Alone!AtLeast(a, b) = AtLeast(a, b)
    /\ \A a, b : Alone!Saturating(a, b) = Saturating(a, b)
BY DEF Alone!AtMost, AtMost, Alone!AtLeast, AtLeast, Alone!Saturating, Saturating

LEMMA SameWithout == \A list, S : Alone!Without(list, S) = Without(list, S)
BY DEF Alone!Without, Without

LEMMA SameShuffle == \A list, seed : Alone!Shuffled(list, seed) = Shuffled(list, seed)
BY DEF Alone!Shuffled, Shuffled, Alone!Swap, Swap

LEMMA SameSeat == \A r, n : Alone!round_in_cycle(r, n) = round_in_cycle(r, n)
BY DEF Alone!round_in_cycle, round_in_cycle

LEMMA SameTotal == Alone!Total = Total /\ Alone!BasisPoints = BasisPoints
BY DEF Alone!Total, Total, Alone!BasisPoints, BasisPoints

LEMMA SameFirstRound ==
    \A threshold, n : Alone!distribution_min_round_for_active(threshold, n)
                          = distribution_min_round_for_active(threshold, n)
BY SameTotal, SameOrder
   DEF Alone!distribution_min_round_for_active, distribution_min_round_for_active

LEMMA SameFees ==
    /\ Alone!LateFee = LateFee
    /\ \A locked : Alone!ExitPenalty(locked) = ExitPenalty(locked)
BY DEF Alone!LateFee, LateFee, Alone!ExitPenalty, ExitPenalty,
       Alone!compute_late_fee_per_round, compute_late_fee_per_round,
       Alone!compute_exit_penalty, compute_exit_penalty, Alone!BasisPoints, BasisPoints

LEMMA SameLimits ==
    \A start, active, rounds :
        Alone!cap_max_missed_by_rounds(
            Alone!compute_max_missed_scaled(exit_penalty_percent, late_fee_percent, start, active),
            rounds)
        = cap_max_missed_by_rounds(
            compute_max_missed_scaled(exit_penalty_percent, late_fee_percent, start, active),
            rounds)
BY DEF Alone!cap_max_missed_by_rounds, cap_max_missed_by_rounds,
       Alone!compute_max_missed_scaled, compute_max_missed_scaled,
       Alone!compute_max_missed_base, compute_max_missed_base, Alone!BasisPoints, BasisPoints,
       Alone!AtMost, AtMost, Alone!AtLeast, AtLeast, Alone!Saturating, Saturating

---------------------------------------------------------------------------
(* The members *)

LEMMA SameMembers ==
    /\ Alone!Members = Members /\ Alone!Active = Active /\ Alone!Nothing = Nothing
    /\ \A m, r : Alone!Unblocked(m, r) <=> Unblocked(m, r)
    /\ \A m : Alone!Seat(m) = Seat(m)
BY DEF Alone!Members, Members, Alone!Active, Active, Alone!Nothing, Nothing,
       Alone!Unblocked, Unblocked, Alone!Seat, Seat

LEMMA SameSplit == \A amount, S : Alone!EqualSplit(amount, S) = EqualSplit(amount, S)
<1>1. \A S : Alone!FirstListed(S) = FirstListed(S)
  BY DEF Alone!FirstListed, FirstListed, Alone!Seat, Seat
<1> QED
  BY <1>1, SameCardinality DEF Alone!EqualSplit, EqualSplit

LEMMA SameRounds == Alone!TotalRounds = TotalRounds
BY DEF Alone!TotalRounds, TotalRounds

LEMMA SameMaxMissed == \A k : Alone!LimitAfter(k) = LimitAfter(k)
BY SameLimits, SameRounds DEF Alone!LimitAfter, LimitAfter, Alone!MaxMissed, MaxMissed

LEMMA SameUnchanged ==
    /\ UNCHANGED Alone!roster <=> UNCHANGED roster
    /\ UNCHANGED Alone!terms <=> UNCHANGED terms
    /\ UNCHANGED Alone!schedule <=> UNCHANGED schedule
    /\ UNCHANGED Alone!deposits <=> UNCHANGED deposits
    /\ UNCHANGED Alone!misses <=> UNCHANGED misses
    /\ UNCHANGED Alone!locks <=> UNCHANGED locks
    /\ UNCHANGED Alone!claims <=> UNCHANGED claims
    /\ UNCHANGED Alone!pools <=> UNCHANGED pools
BY DEF Alone!roster, roster, Alone!terms, terms, Alone!schedule, schedule,
       Alone!deposits, deposits, Alone!misses, misses, Alone!locks, locks,
       Alone!claims, claims, Alone!pools, pools

---------------------------------------------------------------------------
(* Ejection *)

LEMMA SameEjectable ==
    \A m, count, fees, limit : Alone!should_eject_member(m, count, fees, limit)
                                   <=> should_eject_member(m, count, fees, limit)
BY SameFees DEF Alone!should_eject_member, should_eject_member,
                Alone!original_lock_for_member, original_lock_for_member

LEMMA SameEjected == \A S, failing : Alone!EjectedFrom(S, failing) = EjectedFrom(S, failing)
BY SameCardinality DEF Alone!EjectedFrom, EjectedFrom, Alone!Seat, Seat

LEMMA SameForfeits == \A E, fees : Alone!Forfeits(E, fees) = Forfeits(E, fees)
BY SameFees, SameOrder DEF Alone!Forfeits, Forfeits

LEMMA SameEjection == \A E : Alone!EjectMembers(E) <=> EjectMembers(E)
BY SameWithout, SameMaxMissed, SameCardinality DEF Alone!EjectMembers, EjectMembers

---------------------------------------------------------------------------
(* The end of a round *)

LEMMA SameMissing ==
    /\ Alone!Missing = Missing
    /\ Alone!Charged = Charged /\ Alone!MissedAfter = MissedAfter
BY DEF Alone!Missing, Missing, Alone!Active, Active, Alone!Members, Members,
       Alone!Unblocked, Unblocked, Alone!Charged, Charged, Alone!MissedAfter, MissedAfter

LEMMA SameFeesAfter == Alone!FeesAfter = FeesAfter
BY SameMissing, SameFees DEF Alone!FeesAfter, FeesAfter

LEMMA SameDefaulters == Alone!Defaulters = Defaulters
<1> DEFINE failing(k) == {m \in Missing :
              \/ should_eject_member(m, MissedAfter[m], FeesAfter[m], LimitAfter(k))
              \/ m # creator /\ MEMBER_LOCKED_AMOUNTS[m] < contribution_amount}
           alone(k) == {m \in Missing :
              \/ Alone!should_eject_member(m, MissedAfter[m], FeesAfter[m], Alone!LimitAfter(k))
              \/ m # creator /\ MEMBER_LOCKED_AMOUNTS[m] < contribution_amount}
<1>1. \A k : alone(k) = failing(k)
  BY SameEjectable, SameMaxMissed
<1>2. Defaulters = EjectedFrom(Missing, [k \in 0..Cardinality(Missing) |-> failing(k)])
  BY DEF Defaulters
<1>3. Alone!Defaulters
          = Alone!EjectedFrom(Missing, [k \in 0..Alone!Cardinality(Missing) |-> alone(k)])
  BY SameMissing, SameFeesAfter DEF Alone!Defaulters
<1> HIDE DEF failing, alone
<1>4. [k \in 0..Cardinality(Missing) |-> alone(k)]
          = [k \in 0..Cardinality(Missing) |-> failing(k)]
  BY <1>1
<1> QED
  BY <1>2, <1>3, <1>4, SameEjected, SameCardinality

LEMMA SameLockUse ==
    /\ Alone!LockUse = LockUse /\ Alone!LocksAfter = LocksAfter
    /\ Alone!DepositsAfter = DepositsAfter
<1>1. \A m : Alone!PaysFromLock(m) <=> PaysFromLock(m)
  BY SameMissing, SameDefaulters, SameMembers DEF Alone!PaysFromLock, PaysFromLock
<1>2. Alone!LockUse = LockUse
  BY <1>1, SameOrder DEF Alone!LockUse, LockUse
<1> QED
  BY <1>2 DEF Alone!LocksAfter, LocksAfter, Alone!DepositsAfter, DepositsAfter

LEMMA SamePenalties == Alone!PenaltiesAfter = PenaltiesAfter
BY SameDefaulters, SameFeesAfter, SameForfeits, SameSum
   DEF Alone!PenaltiesAfter, PenaltiesAfter

LEMMA SameCharges == Alone!ChargeMissing <=> ChargeMissing
BY SameEjection, SameDefaulters, SameMissing, SameFeesAfter, SameLockUse
   DEF Alone!ChargeMissing, ChargeMissing

LEMMA SameGuards ==
    /\ Alone!RoundOver <=> RoundOver
    /\ Alone!GraceIsOver <=> GraceIsOver
    /\ \A m : Alone!MayTrigger(m) <=> MayTrigger(m)
    /\ Alone!RoundsLeft <=> RoundsLeft
    /\ Alone!IsLastRound <=> IsLastRound
    /\ Alone!NextRound <=> NextRound
BY SameMissing, SameRounds
   DEF Alone!RoundOver, RoundOver, Alone!GraceIsOver, GraceIsOver, Alone!MayTrigger, MayTrigger,
       Alone!RoundsLeft, RoundsLeft, Alone!IsLastRound, IsLastRound, Alone!NextRound, NextRound

---------------------------------------------------------------------------
(* The payout *)

LEMMA SamePayees ==
    /\ Alone!Payees = Payees /\ Alone!PayoutRound = PayoutRound
    /\ Alone!FirstPayoutRound = FirstPayoutRound /\ (Alone!SplitsPool <=> SplitsPool)
<1>1. Alone!Payees = Payees
  BY SameMembers, SameDefaulters DEF Alone!Payees, Payees
<1>2. Alone!PayoutRound = PayoutRound
  BY <1>1, SameCardinality, SameSeat DEF Alone!PayoutRound, PayoutRound
<1>3. Alone!FirstPayoutRound = FirstPayoutRound
  BY <1>1, SameCardinality, SameFirstRound DEF Alone!FirstPayoutRound, FirstPayoutRound
<1> QED
  BY <1>1, <1>2, <1>3, SameTotal DEF Alone!SplitsPool, SplitsPool

LEMMA SamePayout ==
    /\ Alone!BasePayout = BasePayout /\ Alone!Pool = Pool
    /\ Alone!PlatformFee = PlatformFee /\ Alone!Payout = Payout
<1>1. Alone!BasePayout = BasePayout
  BY SamePayees, SameCardinality, SameLockUse DEF Alone!BasePayout, BasePayout
<1>2. Alone!Pool = Pool
  BY <1>1, SameSum, SameLockUse DEF Alone!Pool, Pool
<1>3. Alone!PlatformFee = PlatformFee
  BY <1>2, SameTotal DEF Alone!PlatformFee, PlatformFee
<1> QED
  BY <1>1, <1>2, <1>3 DEF Alone!Payout, Payout

LEMMA SameRecipient == Alone!ActiveOrder = ActiveOrder /\ Alone!Recipient = Recipient
<1>1. Alone!ActiveOrder = ActiveOrder
  BY SameWithout, SamePayees DEF Alone!ActiveOrder, ActiveOrder
<1> QED
  BY <1>1, SamePayees DEF Alone!Recipient, Recipient

LEMMA SameCredits == Alone!RoundCredits = RoundCredits
BY SamePayees, SamePayout, SameSplit, SameRecipient DEF Alone!RoundCredits, RoundCredits

LEMMA SameOwedNow == Alone!OwedNow = OwedNow
BY SamePayout, SameGuards, SameSum, SameLockUse, SamePenalties DEF Alone!OwedNow, OwedNow

LEMMA SameClaims ==
    /\ \A credits : Alone!CreditPending(credits) <=> CreditPending(credits)
    /\ \A m : Alone!DebitPending(m) <=> DebitPending(m)
BY SameSum, SameOrder DEF Alone!CreditPending, CreditPending, Alone!DebitPending, DebitPending

LEMMA SameDepositPrice ==
    /\ \A m : Alone!RoundsMissed(m) = RoundsMissed(m)
    /\ \A m : Alone!LockRefill(m) = LockRefill(m)
    /\ \A m : Alone!LateFeesDue(m) = LateFeesDue(m)
    /\ \A m : Alone!DepositPrice(m) = DepositPrice(m)
    /\ \A m : Alone!AcceptsDeposit(m) <=> AcceptsDeposit(m)
    /\ \A m : Alone!ForgiveMisses(m) <=> ForgiveMisses(m)
<1>1. \A m : Alone!LastDeposited(m) = LastDeposited(m)
  BY DEF Alone!LastDeposited, LastDeposited, Alone!Max, Max
<1>2. \A m : Alone!RoundsMissed(m) = RoundsMissed(m)
  BY <1>1, SameOrder DEF Alone!RoundsMissed, RoundsMissed
<1>3. \A m : Alone!LockRefill(m) = LockRefill(m)
  BY SameOrder DEF Alone!LockRefill, LockRefill
<1>4. \A m : Alone!LateFeesDue(m) = LateFeesDue(m)
  BY <1>2, SameFees DEF Alone!LateFeesDue, LateFeesDue
<1>5. \A m : Alone!AcceptsDeposit(m) <=> AcceptsDeposit(m)
  BY <1>2, SameMembers DEF Alone!AcceptsDeposit, AcceptsDeposit
<1> QED
  BY <1>2, <1>3, <1>4, <1>5
     DEF Alone!DepositPrice, DepositPrice, Alone!ForgiveMisses, ForgiveMisses

LEMMA SameCalendar == Alone!query_distribution_calendar = query_distribution_calendar
<1>1. Alone!CalendarSize = CalendarSize
  BY SameOrder DEF Alone!CalendarSize, CalendarSize
<1>2. Alone!FirstAnnouncedRound = FirstAnnouncedRound
  BY <1>1, SameTotal DEF Alone!FirstAnnouncedRound, FirstAnnouncedRound
<1>3. /\ \A r : Alone!CalendarSeat(r) = CalendarSeat(r)
      /\ \A r : Alone!CalendarCycle(r) = CalendarCycle(r)
  BY <1>1 DEF Alone!CalendarSeat, CalendarSeat, Alone!CalendarCycle, CalendarCycle
<1>4. \A r : Alone!AnnouncedRecipient(r) = AnnouncedRecipient(r)
  BY <1>3 DEF Alone!AnnouncedRecipient, AnnouncedRecipient
<1> QED
  BY <1>2, <1>3, <1>4 DEF Alone!query_distribution_calendar, query_distribution_calendar

LEMMA SameStart == \A list : Alone!StartRunning(list) <=> StartRunning(list)
<1>1. \A list : Alone!GeneratePayoutOrder(list) <=> GeneratePayoutOrder(list)
  BY SameShuffle DEF Alone!GeneratePayoutOrder, GeneratePayoutOrder
<1> QED
  BY <1>1, SameLimits DEF Alone!StartRunning, StartRunning

---------------------------------------------------------------------------
(* The calls that move no money of the balance *)

LEMMA SameQuietCalls ==
    /\ \A m : InviteMember(m) /\ UNCHANGED others => Alone!InviteMember(m)
    /\ StartCircle /\ UNCHANGED others => Alone!StartCircle
    /\ PauseCircle /\ UNCHANGED others => Alone!PauseCircle
    /\ UnpauseCircle /\ UNCHANGED others => Alone!UnpauseCircle
    /\ TimelyTick /\ UNCHANGED others => Alone!TimelyTick
<1>1. \A m : InviteMember(m) /\ UNCHANGED others => Alone!InviteMember(m)
  BY SameMembers, SameUnchanged DEF Alone!InviteMember, InviteMember
<1>2. StartCircle /\ UNCHANGED others => Alone!StartCircle
  BY SameStart, SameUnchanged DEF Alone!StartCircle, StartCircle
<1>3. /\ PauseCircle /\ UNCHANGED others => Alone!PauseCircle
      /\ UnpauseCircle /\ UNCHANGED others => Alone!UnpauseCircle
  BY SameUnchanged DEF Alone!PauseCircle, PauseCircle, Alone!UnpauseCircle, UnpauseCircle,
                       Alone!SwitchStatus, SwitchStatus
<1>4. TimelyTick /\ UNCHANGED others => Alone!TimelyTick
  BY SameMissing, SameUnchanged DEF Alone!TimelyTick, TimelyTick, Alone!Tick, Tick
<1> QED
  BY <1>1, <1>2, <1>3, <1>4

LEMMA SameAdvance ==
    \A m : AdvanceRound(m) /\ UNCHANGED others => Alone!AdvanceRound(m)
BY SameMembers, SameCardinality, SameGuards, SameSeat, SameFirstRound, SameCharges, SamePenalties,
   SameLockUse, SameSum, SameOrder, SameUnchanged
   DEF Alone!AdvanceRound, AdvanceRound

---------------------------------------------------------------------------
(* The calls that move money *)

\* The others are owed as much after the step as before it, and the balance
\* covers that.
OthersCovered ==
    /\ others \in Nat /\ UNCHANGED others
    /\ bank \in Nat /\ bank >= others
    /\ bank' \in Nat /\ bank' >= others

LEMMA SameReceive ==
    ASSUME OthersCovered, NEW price \in Nat, NEW surplus \in Nat, Receive(price, surplus)
    PROVE  Alone!Receive(price, surplus)
<1>1. bank' = bank + price + surplus /\ bank + price + surplus <= MaxBank /\ MaxBank \in Nat
  BY BoundsAreNatural DEF Receive
<1>2. bank - others + price + surplus <= MaxBank
  BY <1>1 DEF OthersCovered
<1>3. bank' - others = bank - others + price + surplus
  BY <1>1 DEF OthersCovered
<1> QED
  BY <1>2, <1>3 DEF OthersCovered, Alone!Receive

LEMMA SameSend ==
    ASSUME OthersCovered, NEW amount \in Nat, Send(amount)
    PROVE  Alone!Send(amount)
<1>1. bank' = bank - amount
  BY DEF Send
<1>2. amount <= bank - others /\ bank' - others = bank - others - amount
  BY <1>1 DEF OthersCovered
<1> QED
  BY <1>2 DEF OthersCovered, Alone!Send

LEMMA SameJoin ==
    ASSUME OthersCovered, NEW m \in Addr, JoinCircle(m)
    PROVE  Alone!JoinCircle(m)
<1>1. \E surplus \in Surplus : Alone!Receive(contribution_amount, surplus)
  <2>1. PICK surplus \in Surplus : Receive(contribution_amount, surplus)
    BY DEF JoinCircle
  <2> QED BY <2>1, SameReceive, ConfigurationType, BoundsAreNatural
<1> QED
  BY <1>1, SameMembers, SameStart, SameUnchanged DEF Alone!JoinCircle, JoinCircle

LEMMA DepositPriceType ==
    ASSUME TypeInv, NEW m \in Addr
    PROVE  DepositPrice(m) \in Nat
<1>1. LockRefill(m) \in Nat
  BY AmountsType, ConfigurationType, SaturatingType DEF LockRefill
<1>2. LateFeesDue(m) \in Nat
  BY FeesType, RoundsMissedType, TimesType DEF LateFeesDue, TypeInv
<1> QED
  BY <1>1, <1>2, ConfigurationType DEF DepositPrice

LEMMA SameDeposit ==
    ASSUME TypeInv, OthersCovered, NEW m \in Addr, DepositContribution(m)
    PROVE  Alone!DepositContribution(m)
<1>1. DepositPrice(m) \in Nat
  BY DepositPriceType
<1>2. \E surplus \in Surplus : Alone!Receive(Alone!DepositPrice(m), surplus)
  <2>1. PICK surplus \in Surplus : Receive(DepositPrice(m), surplus)
    BY DEF DepositContribution
  <2> QED BY <1>1, <2>1, SameReceive, SameDepositPrice, BoundsAreNatural
<1> QED
  BY <1>2, SameDepositPrice, SameUnchanged DEF Alone!DepositContribution, DepositContribution

LEMMA SameWithdrawal ==
    ASSUME TypeInv, OthersCovered, circle_status # "Finalizing", NEW m \in Addr, Withdraw(m)
    PROVE  Alone!Withdraw(m)
<1>1. Alone!Send(PENDING_PAYOUTS[m])
  BY SameSend, AmountsType DEF Withdraw
<1> QED
  BY <1>1, SameClaims, SameUnchanged DEF Alone!Withdraw, Withdraw

LEMMA SameRefunds ==
    ASSUME TypeInv
    PROVE  /\ \A S : Alone!RefundedLocks(S) = RefundedLocks(S)
           /\ \A S : SumOf(RefundedLocks(S)) \in Nat
<1>1. \A S : RefundedLocks(S) \in [Addr -> Nat]
  BY AmountsType DEF RefundedLocks
<1> QED
  BY <1>1, SumType DEF Alone!RefundedLocks, RefundedLocks

LEMMA SameLeaving ==
    ASSUME TypeInv, OthersCovered, NEW m \in Addr, LeaveBeforeStart(m)
    PROVE  Alone!LeaveBeforeStart(m)
<1> DEFINE cancels == /\ Len(Without(members_list, {m})) < min_members_required
                      /\ auto_refund_if_min_not_met
           refunds == RefundedLocks(IF cancels THEN Addr ELSE {m})
           sent    == SumOf(refunds) + (IF cancels THEN creator_lock_amount ELSE 0)
<1>1. ExitBeforeStart(m) /\ circle_status \in {"Draft", "Open", "Full"}
  BY DEF LeaveBeforeStart, ExitCircle, ExitAfterStart
<1>2. sent \in Nat
  BY SameRefunds, AmountsType
<1>3. Send(sent)
  BY <1>1 DEF ExitBeforeStart
<1>4. Alone!Send(sent)
  <2> HIDE DEF sent
  <2> QED BY <1>2, <1>3, SameSend
<1>5. Alone!ExitBeforeStart(m)
  BY <1>1, <1>4, SameWithout, SameRefunds, SameSum, SameMembers, SameOrder, SameUnchanged
     DEF Alone!ExitBeforeStart, ExitBeforeStart
<1> QED
  BY <1>1, <1>5 DEF Alone!LeaveBeforeStart, Alone!ExitCircle

LEMMA SameCancellation ==
    ASSUME TypeInv, OthersCovered, CancelBeforeStart
    PROVE  Alone!CancelBeforeStart
<1>1. Alone!Send(SumOf(MEMBER_LOCKED_AMOUNTS) + creator_lock_amount)
  BY SameSend, AmountsType DEF CancelBeforeStart
<1> QED
  BY <1>1, SameSum, SameOrder, SameMembers, SameUnchanged
     DEF Alone!CancelBeforeStart, CancelBeforeStart

\* The last payout refunds as much to the creator, although the balance on
\* which it measures the refund is larger by what the others are owed.
LEMMA SameRefund ==
    ASSUME TypeInv, TypeInv', CourseInv, OthersCovered, bank - others >= Owed,
           ProcessPayout(creator)
    PROVE  /\ Alone!CreatorRefund = CreatorRefund
           /\ Alone!Spendable >= OwedNow + CreatorRefund
<1>1. PICK funds \in Nat : funds = bank - others /\ funds >= Owed
  BY DEF OthersCovered
<1>2. bank >= Owed /\ bank \in Nat
  BY <1>1, BooksType DEF OthersCovered, BooksTypeOK
<1>3. Alone!Spendable = Saturating(funds, total_pending_payouts)
  BY <1>1, SameOrder DEF Alone!Spendable
<1>4. Alone!CreatorRefund = CreatorRefund
      /\ CreatorRefund = (IF IsLastRound THEN creator_lock_amount ELSE 0)
  <2>1. CASE IsLastRound
    <3>1. LocksAfter[creator] = 0
      BY PayoutIsShared, NobodyIsCharged DEF CourseInv, CrewInv
    <3>2. CreatorRefund = creator_lock_amount
      BY <1>2, <2>1, <3>1, RefundIsTheLock DEF CreatorRefund, Spendable
    <3>3. Alone!CreatorRefund = creator_lock_amount
      BY <1>1, <1>3, <2>1, <3>1, RefundIsTheLock, SameGuards, SameLockUse, SameOrder, SameOwedNow
         DEF Alone!CreatorRefund
    <3> QED BY <2>1, <3>2, <3>3
  <2>2. CASE ~IsLastRound
    BY <2>2, SameGuards DEF Alone!CreatorRefund, CreatorRefund
  <2> QED BY <2>1, <2>2
<1>5. PICK back \in Nat : back = CreatorRefund /\ Owed >= total_pending_payouts + OwedNow + back
  BY <1>4, PayoutIsCovered, AmountsType
<1>6. OwedNow \in Nat /\ total_pending_payouts \in Nat /\ Owed \in Nat
  BY PayoutIsCovered, AmountsType, BooksType DEF BooksTypeOK
<1>7. funds >= total_pending_payouts + OwedNow + back
  BY <1>1, <1>5, <1>6
<1>8. Saturating(funds, total_pending_payouts) >= OwedNow + back
  BY <1>6, <1>7 DEF Saturating
<1> QED
  BY <1>3, <1>4, <1>5, <1>8

LEMMA SameFinalization ==
    ASSUME TypeInv, TypeInv', CourseInv, OthersCovered, bank - others >= Owed,
           ProcessPayout(creator), FinalizeCircle
    PROVE  Alone!FinalizeCircle
<1>1. Alone!FinalCredits = FinalCredits
  BY SameRefund, SameSplit, SamePayees, SamePenalties, SameCredits, SameLockUse
     DEF Alone!FinalCredits, FinalCredits
<1>2. total_platform_fees_collected + PlatformFee \in Nat
  BY AmountsType, PayoutIsShared
<1>3. Alone!Send(total_platform_fees_collected + PlatformFee)
  BY <1>2, SameSend DEF FinalizeCircle
<1> QED
  BY <1>1, <1>3, SameClaims, SameMembers, SamePayout DEF Alone!FinalizeCircle, FinalizeCircle

LEMMA SameProcessing ==
    ASSUME TypeInv, TypeInv', CourseInv, OthersCovered, bank - others >= Owed,
           ProcessPayout(creator)
    PROVE  Alone!ProcessPayout(creator)
<1>1. IF IsLastRound THEN Alone!FinalizeCircle ELSE Alone!PayRound
  <2>1. CASE IsLastRound
    <3>1. FinalizeCircle
      BY <2>1 DEF ProcessPayout
    <3> QED BY <2>1, <3>1, SameFinalization
  <2>2. CASE ~IsLastRound
    <3>1. PayRound
      BY <2>2 DEF ProcessPayout
    <3>2. Alone!PayRound
      BY <3>1, SameClaims, SameCredits, SameLockUse, SameOrder, SamePayout, SameSum,
         SamePenalties, SameGuards DEF Alone!PayRound, PayRound, OthersCovered
    <3> QED BY <2>2, <3>2
  <2> QED BY <2>1, <2>2
<1>2. Alone!AllHaveDeposited
  BY SamePayees, SameLockUse DEF Alone!AllHaveDeposited, AllHaveDeposited, ProcessPayout
<1> QED
  BY <1>1, <1>2, SameRefund, SameGuards, SamePayees, SameOwedNow, SameRecipient, SameCharges
     DEF Alone!ProcessPayout, ProcessPayout

---------------------------------------------------------------------------
\* What the people of an open circle do is a step of the circle that is alone
\* on what the others are not owed.
LEMMA CallsAlone ==
    ASSUME InTime, TypeInv, CourseInv, others \in Nat, UNCHANGED others, Spare >= others,
           circle_status \notin Closed, CoopCalls
    PROVE  Alone!CoopNext
<1>1. TypeInv' /\ CourseInv' /\ Conserves
  <2>1. Spare >= 0
    BY SpareType
  <2> QED BY <2>1, CallsKeep
<1>2. bank - others >= Owed
  BY BooksType DEF BooksTypeOK, Spare
<1>3. OthersCovered
  <2>1. PICK after \in Int : after = Spare' /\ after >= Spare
    BY <1>1, SpareTypeNext DEF Conserves
  <2>2. PICK now, owed \in Nat : now = bank' /\ owed = Owed'
    BY <1>1, BooksTypeNext DEF BooksTypeOK
  <2>3. after = now - owed
    BY <2>1, <2>2 DEF Spare
  <2>4. after >= others
    BY <2>1, SpareType
  <2>5. now >= others
    BY <2>3, <2>4
  <2>6. bank \in Nat /\ bank >= others
    BY <1>2, BooksType DEF BooksTypeOK
  <2> QED BY <2>2, <2>5, <2>6 DEF OthersCovered
<1>4. ASSUME NEW m \in Addr, JoinCircle(m) \/ DepositContribution(m) \/ Withdraw(m)
      PROVE  Alone!CoopCalls
  BY <1>3, <1>4, SameJoin, SameDeposit, SameWithdrawal DEF Alone!CoopCalls, Closed
<1>5. ASSUME NEW m \in Addr \ {creator}, LeaveBeforeStart(m)  PROVE Alone!CoopCalls
  BY <1>3, <1>5, SameLeaving DEF Alone!CoopCalls
<1>6. ASSUME NEW m \in Invited, InviteMember(m)  PROVE Alone!CoopCalls
  BY <1>6, SameQuietCalls DEF Alone!CoopCalls
<1>7. ASSUME StartCircle \/ PauseCircle \/ UnpauseCircle \/ TimelyTick  PROVE Alone!CoopCalls
  BY <1>7, SameQuietCalls DEF Alone!CoopCalls
<1>8. ASSUME CancelBeforeStart  PROVE Alone!CoopCalls
  BY <1>3, <1>8, SameCancellation DEF Alone!CoopCalls
<1>9. ASSUME KeeperPays  PROVE Alone!CoopCalls
  <2>1. Alone!ProcessPayout(creator)
    BY <1>1, <1>2, <1>3, <1>9, SameProcessing DEF KeeperPays
  <2>2. Alone!KeeperPays
    BY <1>9, <2>1, SameCalendar DEF Alone!KeeperPays, KeeperPays, Alone!DistributionAnnounced,
                                    DistributionAnnounced
  <2> QED BY <2>2 DEF Alone!CoopCalls
<1>10. ASSUME KeeperAdvances  PROVE Alone!CoopCalls
  <2>1. Alone!KeeperAdvances
    BY <1>10, SameAdvance, SameCalendar
       DEF Alone!KeeperAdvances, KeeperAdvances, Alone!DistributionAnnounced, DistributionAnnounced
  <2> QED BY <2>1 DEF Alone!CoopCalls
<1>11. ASSUME NEW reward \in Rewards, DepositCreatorReward(reward)  PROVE FALSE
  BY <1>11 DEF DepositCreatorReward, Closed
<1> QED
  BY <1>4, <1>5, <1>6, <1>7, <1>8, <1>9, <1>10, <1>11 DEF CoopCalls, Alone!CoopNext

---------------------------------------------------------------------------
(* A circle among others, as each of them is to be known *)

SharedInv == TypeInv /\ CourseInv

\* The balance covers what this circle and the others are owed.
AllCovered == others \in Nat /\ bank >= Owed + others

LEMMA SharedCreated ==
    ASSUME CreatedCircle, bank \in Nat
    PROVE  SharedInv /\ Owed = creator_lock_amount
BY TypeInvCreated, CourseInvCreated, OwedAtFirst DEF SharedInv

LEMMA SharedAmounts == SharedInv => Owed \in Nat /\ bank \in Nat
BY BooksType DEF SharedInv, BooksTypeOK

LEMMA SharedAmountsNext == SharedInv' => (Owed \in Nat /\ bank \in Nat)'
BY SharedAmounts, PTL

\* A step of another circle.
LEMMA SharedUnmoved ==
    ASSUME UNCHANGED own
    PROVE  Owed' = Owed /\ (Exact' <=> Exact)
<1>1. /\ UNCHANGED <<circle_status, DEPOSITS, PAYOUTS, PENDING_PAYOUTS, total_pending_payouts>>
      /\ UNCHANGED <<MEMBER_LOCKED_AMOUNTS, creator_lock_amount>>
      /\ UNCHANGED <<total_penalties_collected, total_platform_fees_collected>>
  BY DEF own, deposits, schedule, claims, locks, pools
<1>2. UNCHANGED <<Claims, Stakes>>
  BY <1>1, HeldUnchanged DEF Claims, Stakes
<1> QED
  BY <1>1, <1>2, OwedIs, OwedNextIs DEF Exact, Settled

LEMMA SharedStands ==
    ASSUME SharedInv, UNCHANGED own, bank' \in Nat
    PROVE  SharedInv'
BY OthersMove DEF SharedInv, own

\* A call to this circle takes nothing of what the others are owed, and leaves
\* nothing on the balance that nobody is owed.
LEMMA SharedCall ==
    ASSUME InTime, SharedInv, AllCovered, UNCHANGED others, CoopCalls
    PROVE  /\ SharedInv' /\ AllCovered'
           /\ Exact' => Exact /\ (bank = Owed + others => bank' = Owed' + others')
<1>1. PICK now, owed \in Nat : now = bank /\ owed = Owed
  BY SharedAmounts
<1>2. Spare = now - owed /\ now - owed >= others /\ others \in Nat
  BY <1>1 DEF Spare, AllCovered
<1>3. TypeInv' /\ CourseInv' /\ Conserves
  <2>1. Spare >= 0
    BY <1>1, <1>2
  <2> QED BY <2>1, CallsKeep DEF SharedInv
<1>4. PICK now2, owed2 \in Nat : now2 = bank' /\ owed2 = Owed'
  BY <1>3, SharedAmountsNext DEF SharedInv
<1>5. Spare' = now2 - owed2
  BY <1>4 DEF Spare
<1>6. now2 - owed2 >= now - owed /\ (Exact' => Exact /\ now2 - owed2 = now - owed)
  BY <1>2, <1>3, <1>5 DEF Conserves
<1>7. now2 >= owed2 + others
  <2>1. now2 - owed2 >= others /\ others \in Nat
    <3>1. now2 - owed2 >= now - owed /\ now - owed >= others /\ others \in Nat
      BY <1>2, <1>6
    <3> QED BY <3>1
  <2> QED BY <2>1
<1>8. Exact' => Exact /\ (now = owed + others => now2 = owed2 + others)
  <2>1. now2 - owed2 = now - owed /\ now = owed + others => now2 = owed2 + others
    BY <1>2
  <2> QED BY <1>6, <2>1
<1>9. AllCovered'
  BY <1>2, <1>4, <1>7 DEF AllCovered
<1> QED
  BY <1>1, <1>3, <1>4, <1>8, <1>9 DEF SharedInv

\* A sweep takes all of the balance.
LEMMA SharedSweep ==
    ASSUME SharedInv, SweepDust
    PROVE  SharedInv' /\ bank' = bank /\ Owed' = bank
BY SweepKeeps DEF SharedInv

\* Until its settlement included, the circle makes the steps it would make alone.
LEMMA SharedAlone ==
    ASSUME InTime, SharedInv, AllCovered, UNCHANGED others, CoopCalls,
           circle_status \notin Closed
    PROVE  Alone!CoopNext
<1>1. Spare >= others
  BY SharedAmounts DEF AllCovered, Spare
<1> QED
  BY <1>1, CallsAlone DEF SharedInv, AllCovered

\* What the proofs about several circles take from this module for each of them.
SharedFacts ==
    /\ CreatedCircle /\ bank \in Nat => SharedInv /\ Owed = creator_lock_amount
    /\ SharedInv => Owed \in Nat /\ bank \in Nat
    /\ UNCHANGED own => Owed' = Owed /\ (Exact' <=> Exact)
    /\ SharedInv /\ UNCHANGED own /\ bank' \in Nat => SharedInv'
    /\ InTime /\ SharedInv /\ AllCovered /\ UNCHANGED others /\ CoopCalls =>
           /\ SharedInv' /\ AllCovered'
           /\ Exact' => Exact /\ (bank = Owed + others => bank' = Owed' + others')
           /\ circle_status \notin Closed => Alone!CoopNext
    /\ SharedInv /\ SweepDust => SharedInv' /\ bank' = bank /\ Owed' = bank

LEMMA SharedFactsHold == SharedFacts
BY SharedCreated, SharedAmounts, SharedUnmoved, SharedStands, SharedCall, SharedAlone, SharedSweep
   DEF SharedFacts
=============================================================================
