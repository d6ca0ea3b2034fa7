-------------------------- MODULE CircleCoopProofs --------------------------
(***************************************************************************)
(* A circle whose people keep to its rules: its books balance to the coin, *)
(* for every threshold, number of members, cycles and every contribution;  *)
(* a Total circle shares each payout fairly and settles after its last     *)
(* cycle.  The lemmas of a step speak of the circle's own money only, so   *)
(* that they also hold of one of several circles on one balance.           *)
(***************************************************************************)
EXTENDS CircleCoop, CircleTypeProofs

\* The keeper is never a whole round late, and nobody pays more than the price.
InTime == Surplus = {0} /\ MaxElapsed < 2 * CycleDuration

---------------------------------------------------------------------------
(* Sums *)

LEMMA SumOfShares ==
    ASSUME NEW S \in SUBSET Addr, NEW q \in Nat
    PROVE  SumOf([m \in Addr |-> IF m \in S THEN q ELSE 0]) = Cardinality(S) * q
<1> DEFINE f == [m \in Addr |-> IF m \in S THEN q ELSE 0]
<1>1. Coins(f) = S \X (1..q)
  BY DEF Coins
<1>2. IsFiniteSet(S)
  BY CountType
<1>3. IsFiniteSet(1..q) /\ Cardinality(1..q) = q
  <2>1. 1 \in Int /\ q \in Int
    OBVIOUS
  <2>2. IsFiniteSet(1..q) /\ Cardinality(1..q) = IF 1 > q THEN 0 ELSE q - 1 + 1
    BY <2>1, FS_Interval
  <2> QED BY <2>2
<1> HIDE DEF f
<1>4. Cardinality(S \X (1..q)) = Cardinality(S) * q
  BY <1>2, <1>3, FS_Product
<1> QED
  BY <1>1, <1>4 DEF SumOf, f

\* The first of some members, in the order of the list.
LEMMA FirstListedIs ==
    ASSUME RosterInv, NEW S, S \subseteq Members, S # {}
    PROVE  FirstListed(S) \in S
<1> DEFINE T == {Seat(x) : x \in S}
<1>1. T \subseteq Nat /\ T # {}
  BY MembersAreListed DEF RosterInv
<1>2. PICK i \in T : \A j \in T : i <= j
  BY <1>1, LeastNatural
<1>3. PICK m \in S : \A x \in S : Seat(m) <= Seat(x)
  BY <1>2
<1> QED
  BY <1>3 DEF FirstListed

\* An equal split gives away the amount, all of it, and to each no less than
\* its share rounded down.
LEMMA EqualSplitGivesAll ==
    ASSUME RosterInv, NEW amount \in Nat, NEW S, S \subseteq Members, S # {}
    PROVE  /\ EqualSplit(amount, S) \in [Addr -> Nat]
           /\ SumOf(EqualSplit(amount, S)) = amount
           /\ \A m \in S : Cardinality(S) * (EqualSplit(amount, S)[m] + 1) > amount
<1> DEFINE n      == Cardinality(S)
           q      == amount \div n
           r      == amount % n
           shares == [m \in Addr |-> IF m \in S THEN q ELSE 0]
           rest   == [m \in Addr |-> IF m = FirstListed(S) THEN r ELSE 0]
<1>0. S \in SUBSET Addr /\ FirstListed(S) \in S
  BY FirstListedIs, RosterType
<1>1. n \in Nat \ {0}
  BY <1>0, CountType
<1>2. q \in Nat /\ r \in Nat /\ amount = n * q + r /\ r < n
  BY <1>1, DivType
<1>3. EqualSplit(amount, S) = [m \in Addr |-> shares[m] + rest[m]]
  BY <1>0, <1>2 DEF EqualSplit
<1> HIDE DEF n, q, r
<1>4. shares \in [Addr -> Nat] /\ rest \in [Addr -> Nat]
  BY <1>2
<1>5. SumOf(shares) = n * q
  BY <1>0, <1>2, SumOfShares DEF n
<1>6. SumOf(rest) = r
  BY <1>0, <1>2, SumOfOne
<1>7. ASSUME NEW m \in S
      PROVE  n * (EqualSplit(amount, S)[m] + 1) > amount
  <2>1. PICK x \in Nat : EqualSplit(amount, S)[m] = q + x
    BY <1>0, <1>2, <1>3
  <2>2. n * (q + x + 1) = n * q + n * x + n
    BY <1>1, <1>2, <2>1
  <2>3. n * x \in Nat /\ n * q \in Nat
    BY <1>1, <1>2, <2>1, TimesType
  <2>4. n * (q + x + 1) > n * q + r
    BY <1>1, <1>2, <2>2, <2>3
  <2> QED BY <1>2, <2>1, <2>4
<1> HIDE DEF shares, rest
<1>8. SumOf(EqualSplit(amount, S)) = SumOf(shares) + SumOf(rest)
  BY <1>3, <1>4, ConfigurationType, SumOfPlus
<1>9. EqualSplit(amount, S) \in [Addr -> Nat]
  BY <1>3, <1>4
<1> QED
  BY <1>2, <1>5, <1>6, <1>7, <1>8, <1>9 DEF n

\* A ledger to which one entry was added.
LEMMA SumOfEntry ==
    ASSUME NEW f \in [Addr -> Nat], NEW m \in Addr, NEW a \in Nat
    PROVE  SumOf([f EXCEPT ![m] = @ + a]) = SumOf(f) + a
<1> DEFINE one == [x \in Addr |-> IF x = m THEN a ELSE 0]
<1>1. one \in [Addr -> Nat] /\ SumOf(one) = a
  BY SumOfOne
<1>2. [f EXCEPT ![m] = @ + a] = [x \in Addr |-> f[x] + one[x]]
  <2>1. ASSUME NEW x \in Addr  PROVE [f EXCEPT ![m] = @ + a][x] = f[x] + one[x]
    BY DEF one
  <2> QED BY <2>1
<1> HIDE DEF one
<1> QED
  BY <1>1, <1>2, ConfigurationType, SumOfPlus

---------------------------------------------------------------------------
(* Refinement *)

\* Every step of the people who keep to the rules is a message that Circle
\* knows.
LEMMA CoopNextIsNext == CoopNext => Next
<1> SUFFICES ASSUME CoopNext  PROVE Next
  OBVIOUS
<1>0. creator \in Addr
  BY CreateCircleAccepts
<1>1. ASSUME NEW m \in Addr, JoinCircle(m) \/ DepositContribution(m) \/ Withdraw(m)  PROVE Next
  BY <1>1 DEF Next
<1>2. ASSUME NEW m \in Addr, LeaveBeforeStart(m)  PROVE Next
  BY <1>2 DEF LeaveBeforeStart, Next
<1>3. CASE KeeperPays \/ KeeperAdvances
  BY <1>0, <1>3 DEF KeeperPays, KeeperAdvances, Next
<1>4. CASE CancelBeforeStart \/ TimelyTick
  BY <1>4 DEF CancelCircle, TimelyTick, Next
<1>5. ASSUME NEW m \in Invited, InviteMember(m)  PROVE Next
  BY <1>5 DEF Next
<1>6. ASSUME NEW reward \in Rewards, DepositCreatorReward(reward)  PROVE Next
  BY <1>6 DEF Next
<1>7. CASE StartCircle \/ PauseCircle \/ UnpauseCircle \/ SweepDust
  BY <1>7 DEF Next
<1> QED
  BY <1>1, <1>2, <1>3, <1>4, <1>5, <1>6, <1>7 DEF CoopNext, CoopCalls

\* CircleCoop implements Circle, so that what is proved of Circle holds for it.
THEOREM CoopIsACircle == CoopSafety => Spec
BY CoopNextIsNext, PTL DEF CoopSafety, Spec
---------------------------------------------------------------------------
(* The inductive invariant *)

Forming == circle_status \in {"Draft", "Open", "Full"}
Playing == circle_status \in {"Running", "Paused"}
Settled == circle_status \in {"Finalizing", "Completed"}

\* The rounds of the cycles that are paid out, when a payout ends a cycle.
PaidRounds == Len(members_list) * cycles_completed

\* Nobody is blocked; the creator stays, and has its lock apart.
CrewInv ==
    /\ BLOCKED_MEMBERS = [m \in Addr |-> None]
    /\ creator \in Members /\ MEMBER_LOCKED_AMOUNTS[creator] = 0

FormInv == Forming => PAYOUTS = {} /\ cycles_completed = 0 /\ DEPOSITS = [m \in Addr |-> {}]

\* While it runs, the payouts are of earlier rounds, the deposits are those of
\* members for rounds that have begun, and a round that is over waits for nobody.
PlayInv == Playing =>
    /\ members_at_start = Len(members_list)
    /\ current_cycle_index > 0
    /\ elapsed # None /\ (elapsed >= CycleDuration => Missing = {})
    /\ PAYOUTS \subseteq 1..(current_cycle_index - 1)
    /\ \A m \in Addr : DEPOSITS[m] \subseteq 1..current_cycle_index
    /\ \A m \in Addr \ Members : DEPOSITS[m] = {}

\* A Total circle is within the cycle after those it has paid, and of that
\* cycle every member has every round but perhaps the last.
CycleInv == Playing /\ distribution_threshold = Total =>
    /\ cycles_completed < total_cycles
    /\ current_cycle_index \in (PaidRounds + 1)..(PaidRounds + Len(members_list))
    /\ PAYOUTS \subseteq 1..PaidRounds /\ (cycles_completed > 0 => PaidRounds \in PAYOUTS)
    /\ \A m \in Members : (PaidRounds + 1)..(current_cycle_index - 1) \subseteq DEPOSITS[m]

OverInv == Settled =>
    /\ total_platform_fees_collected = 0
    /\ distribution_threshold = Total => cycles_completed = total_cycles

CourseInv == CrewInv /\ FormInv /\ PlayInv /\ CycleInv /\ OverInv

\* The coins of the deposits that no payout has paid out.
Held == contribution_amount * Cardinality(DepositsHeld)

\* The balance is to the coin what is owed until the end of the circle, and
\* after it when nothing was left: a MinMembers circle may end with rounds
\* that no payout has paid out, a cancelled one with the creator's lock.
Exact == circle_status \notin Closed \/ (Settled /\ distribution_threshold = Total)

Spare == bank - Owed

BooksInv == Spare >= 0 /\ (Exact => Spare = 0)

CoopInv == CourseInv /\ BooksInv

\* What a step does to the money, whoever else has money on the balance: what
\* is not owed never shrinks, and does not change while the books are exact.
Conserves == Spare' >= Spare /\ (Exact' => Exact /\ Spare' = Spare)

---------------------------------------------------------------------------
(* The crew *)

LEMMA CrewFacts ==
    ASSUME TypeInv, CrewInv
    PROVE  /\ Active = Members /\ Members \subseteq Addr
           /\ Cardinality(Members) = Len(members_list)
           /\ Len(members_list) \in 1..max_members
           /\ \A m \in Addr, round \in Nat : Unblocked(m, round)
<1>1. \A m \in Addr, round \in Nat : Unblocked(m, round)
  BY DEF CrewInv, Unblocked
<1>2. Active = Members
  BY <1>1, RosterType DEF Active, TypeInv, ScheduleInv, Rounds
<1>3. Cardinality(Members) = Len(members_list) /\ Len(members_list) <= max_members
  BY MembersAreListed, LengthIsCount DEF TypeInv, RosterInv
<1>4. Cardinality(Members) \in Nat \ {0}
  BY RosterType, CountType DEF CrewInv
<1> QED
  BY <1>1, <1>2, <1>3, <1>4, RosterType

\* A round that nobody has missed: no charge, no ejection, no use of a lock.
LEMMA NobodyIsCharged ==
    ASSUME TypeInv, CrewInv, Missing = {}
    PROVE  /\ Defaulters = {} /\ Payees = Members
           /\ LockUse = Nothing /\ SumOf(LockUse) = 0 /\ LocksAfter = MEMBER_LOCKED_AMOUNTS
           /\ DepositsAfter = DEPOSITS /\ PenaltiesAfter = total_penalties_collected
<1>1. Defaulters = {}
  BY EjectedAreMembers DEF TypeInv
<1>2. current_cycle_index \in Nat
  BY DEF TypeInv, LedgerInv
<1>3. \A m \in Addr : ~PaysFromLock(m)
  BY <1>2, CrewFacts DEF PaysFromLock
<1>4. LockUse = Nothing
  BY <1>3 DEF LockUse, Nothing
<1>5. SumOf(Nothing) = 0
  BY SumOfNothing DEF Nothing
<1>6. LocksAfter = MEMBER_LOCKED_AMOUNTS
  <2>1. MEMBER_LOCKED_AMOUNTS \in [Addr -> Nat]
    BY DEF TypeInv, LedgerInv, LedgerTypeOK
  <2>2. \A m \in Addr : MEMBER_LOCKED_AMOUNTS[m] - LockUse[m] = MEMBER_LOCKED_AMOUNTS[m]
    BY <1>4, <2>1 DEF Nothing
  <2> QED BY <2>1, <2>2 DEF LocksAfter
<1>7. DepositsAfter = DEPOSITS
  <2>1. DEPOSITS \in [Addr -> SUBSET Rounds] /\ \A m \in Addr : LockUse[m] = 0
    BY <1>4 DEF Nothing, TypeInv, RecordsInv
  <2> QED BY <2>1 DEF DepositsAfter
<1>8. PenaltiesAfter = total_penalties_collected
  <2>1. Forfeits({}, FeesAfter) = Nothing
    BY DEF Forfeits, Nothing
  <2>2. total_penalties_collected \in Nat
    BY DEF TypeInv, LedgerInv, LedgerTypeOK
  <2> QED BY <1>1, <1>5, <2>1, <2>2 DEF PenaltiesAfter
<1> QED
  BY <1>1, <1>4, <1>5, <1>6, <1>7, <1>8, CrewFacts DEF Payees

\* The roster and the records after such a round.
LEMMA ChargeNobody ==
    ASSUME TypeInv, TypeInv', CrewInv, Missing = {}, ChargeMissing
    PROVE  /\ Members' = Members /\ Len(members_list') = Len(members_list)
           /\ UNCHANGED <<DEPOSITS, BLOCKED_MEMBERS, members_at_start>>
<1>1. EjectMembers({}) /\ DEPOSITS' = DEPOSITS
  BY NobodyIsCharged DEF ChargeMissing
<1>2. Members' = Members
  <2>1. ToSet(members_list') = Members \ {}
    BY <1>1, WithoutMembers DEF EjectMembers, TypeInv
  <2>2. members_list' \in Seq(Addr)
    BY DEF TypeInv, RosterInv
  <2>3. DOMAIN members_list' = 1..Len(members_list')
        /\ \A i \in DOMAIN members_list' : members_list'[i] \in Addr
    BY <2>2
  <2> QED BY <2>1, <2>3 DEF Members, ToSet
<1>3. Len(members_list') = Len(members_list)
  <2>1. members_list' \in Seq(Addr) /\ IsInjective(members_list')
    BY DEF TypeInv, RosterInv
  <2>2. Cardinality(ToSet(members_list')) = Len(members_list')
    BY <2>1, LengthIsCount
  <2>3. ToSet(members_list') = Members
    BY <1>1, WithoutMembers DEF EjectMembers, TypeInv
  <2> QED BY <2>2, <2>3, CrewFacts
<1>4. BLOCKED_MEMBERS' = BLOCKED_MEMBERS
  BY <1>1 DEF EjectMembers, CrewInv
<1> QED
  BY <1>1, <1>2, <1>3, <1>4 DEF EjectMembers

LEMMA RoundOverMeansAll ==
    ASSUME PlayInv, Playing, RoundOver
    PROVE  Missing = {}
BY DEF PlayInv, RoundOver

\* The deposits not paid out are counted, and change with the records only.
LEMMA HeldType == Held \in Nat /\ IsFiniteSet(DepositsHeld)
<1>1. max_members * total_cycles \in Int /\ 0 \in Int
  BY RoundsType
<1>2. IsFiniteSet(Rounds)
  BY <1>1, FS_Interval DEF Rounds
<1>3. IsFiniteSet(Addr \X Rounds)
  BY <1>2, ConfigurationType, FS_Product
<1>4. DepositsHeld \subseteq Addr \X Rounds
  BY DEF DepositsHeld
<1>5. IsFiniteSet(DepositsHeld)
  BY <1>3, <1>4, FS_Subset
<1>6. Cardinality(DepositsHeld) \in Nat
  BY <1>5, FS_CardinalityType
<1> QED
  BY <1>5, <1>6, ConfigurationType, TimesType DEF Held

LEMMA HeldUnchanged ==
    ASSUME UNCHANGED <<DEPOSITS, PAYOUTS>>
    PROVE  Held' = Held
BY DEF Held, DepositsHeld, PaidOut

\* The amounts of the books, and the counters, are natural numbers.
LEMMA AmountsType ==
    ASSUME TypeInv
    PROVE  /\ bank \in Nat /\ total_pending_payouts \in Nat
           /\ total_platform_fees_collected \in Nat /\ total_penalties_collected \in Nat
           /\ MEMBER_LOCKED_AMOUNTS \in [Addr -> Nat] /\ creator_lock_amount \in Nat
           /\ SumOf(MEMBER_LOCKED_AMOUNTS) \in Nat /\ Held \in Nat
           /\ PENDING_PAYOUTS \in [Addr -> Nat]
           /\ current_cycle_index \in Nat /\ cycles_completed \in Nat
           /\ elapsed # None => elapsed \in Nat /\ elapsed <= MaxElapsed
<1>1. LedgerTypeOK /\ ScheduleInv
  BY DEF TypeInv, LedgerInv
<1>2. SumOf(MEMBER_LOCKED_AMOUNTS) \in Nat
  BY <1>1, SumType DEF LedgerTypeOK
<1>3. current_cycle_index \in Nat
  BY DEF TypeInv, LedgerInv
<1>4. elapsed # None => elapsed \in Nat /\ elapsed <= MaxElapsed
  BY <1>1, BoundsAreNatural DEF ScheduleInv
<1> QED
  BY <1>1, <1>2, <1>3, <1>4, HeldType DEF LedgerTypeOK, ScheduleInv

---------------------------------------------------------------------------
(* The books *)

\* What is owed for good, and what only while the circle is open.
Claims == total_pending_payouts + total_platform_fees_collected
Stakes == SumOf(MEMBER_LOCKED_AMOUNTS) + creator_lock_amount + total_penalties_collected + Held

LEMMA OwedIs == Owed = Claims + (IF circle_status \in Closed THEN 0 ELSE Stakes)
BY DEF Owed, Claims, Stakes, Held

LEMMA OwedNextIs == Owed' = Claims' + (IF circle_status' \in Closed THEN 0 ELSE Stakes')
BY DEF Owed, Claims, Stakes, Held

BooksTypeOK == bank \in Nat /\ Claims \in Nat /\ Stakes \in Nat /\ Owed \in Nat

LEMMA BooksType == TypeInv => BooksTypeOK
<1> SUFFICES ASSUME TypeInv  PROVE BooksTypeOK
  OBVIOUS
<1>1. bank \in Nat /\ Claims \in Nat /\ Stakes \in Nat
  BY AmountsType DEF Claims, Stakes
<1>2. Owed \in Nat
  BY <1>1, OwedIs
<1> QED
  BY <1>1, <1>2 DEF BooksTypeOK

LEMMA BooksTypeNext == TypeInv' => BooksTypeOK'
BY BooksType, PTL

LEMMA SpareType == TypeInv => Spare \in Int
BY BooksType DEF BooksTypeOK, Spare

LEMMA SpareTypeNext == TypeInv' => Spare' \in Int
<1> SUFFICES ASSUME TypeInv'  PROVE Spare' \in Int
  OBVIOUS
<1>1. PICK now, owed \in Nat : now = bank' /\ owed = Owed'
  BY BooksTypeNext DEF BooksTypeOK
<1>2. Spare' = now - owed
  BY <1>1 DEF Spare
<1> QED
  BY <1>2

\* A step that moves claims only, and one of an open circle.
LEMMA ClaimsMove ==
    ASSUME TypeInv, TypeInv', UNCHANGED Stakes,
           circle_status' \in Closed <=> circle_status \in Closed, Exact' => Exact,
           bank' + Claims = bank + Claims'
    PROVE  Conserves
<1>1. bank \in Nat /\ Claims \in Nat /\ Stakes \in Nat
  BY BooksType DEF BooksTypeOK
<1>2. bank' \in Nat /\ Claims' \in Nat
  BY BooksTypeNext DEF BooksTypeOK
<1>3. PICK rest \in Nat : Owed = Claims + rest /\ Owed' = Claims' + rest
  <2>1. CASE circle_status \in Closed
    BY <2>1, OwedIs, OwedNextIs
  <2>2. CASE circle_status \notin Closed
    BY <1>1, <2>2, OwedIs, OwedNextIs
  <2> QED BY <2>1, <2>2
<1>4. PICK then, now \in Nat : then = bank' /\ now = Claims'
  BY <1>2
<1>5. then - (now + rest) = bank - (Claims + rest)
  <2>1. then + Claims = bank + now
    BY <1>4
  <2> QED BY <1>1, <2>1
<1>6. Spare' = Spare
  BY <1>3, <1>4, <1>5 DEF Spare
<1> QED
  BY <1>6, SpareType DEF Conserves

LEMMA OpenBooksMove ==
    ASSUME TypeInv, TypeInv', circle_status \notin Closed, circle_status' \notin Closed,
           bank' + Claims + Stakes = bank + Claims' + Stakes'
    PROVE  Conserves
<1>1. bank \in Nat /\ Claims \in Nat /\ Stakes \in Nat
  BY BooksType DEF BooksTypeOK
<1>2. bank' \in Nat /\ Claims' \in Nat /\ Stakes' \in Nat
  BY BooksTypeNext DEF BooksTypeOK
<1>3. Owed = Claims + Stakes /\ Owed' = Claims' + Stakes'
  BY OwedIs, OwedNextIs
<1>4. PICK then, now, left \in Nat : then = bank' /\ now = Claims' /\ left = Stakes'
  BY <1>2
<1>5. then - (now + left) = bank - (Claims + Stakes)
  <2>1. then + Claims + Stakes = bank + now + left
    BY <1>4
  <2> QED BY <1>1, <2>1
<1>6. Spare' = Spare
  BY <1>3, <1>4, <1>5 DEF Spare
<1> QED
  BY <1>6, SpareType DEF Conserves, Exact

\* A step that ends the circle.
LEMMA BooksClose ==
    ASSUME TypeInv, TypeInv', circle_status \notin Closed, circle_status' \in Closed,
           NEW rest \in Nat, bank' + Claims + Stakes = bank + Claims' + rest,
           Exact' => rest = 0
    PROVE  Conserves
<1>1. bank \in Nat /\ Claims \in Nat /\ Stakes \in Nat
  BY BooksType DEF BooksTypeOK
<1>2. bank' \in Nat /\ Claims' \in Nat
  BY BooksTypeNext DEF BooksTypeOK
<1>3. Owed = Claims + Stakes /\ Owed' = Claims' + 0
  BY OwedIs, OwedNextIs
<1>4. PICK then, now \in Nat : then = bank' /\ now = Claims'
  BY <1>2
<1>5. then - (now + 0) = (bank - (Claims + Stakes)) + rest
  <2>1. then + Claims + Stakes = bank + now + rest
    BY <1>4
  <2> QED BY <1>1, <2>1
<1>6. Spare' = Spare + rest
  BY <1>3, <1>4, <1>5 DEF Spare
<1>7. Spare + rest >= Spare /\ (rest = 0 => Spare + rest = Spare)
  BY SpareType
<1> QED
  BY <1>6, <1>7 DEF Conserves, Exact

---------------------------------------------------------------------------
(* Steps outside the rounds *)

\* A step that leaves the rounds alone and starts nothing.
LEMMA CourseUnchanged ==
    ASSUME CourseInv,
           UNCHANGED <<members_list, BLOCKED_MEMBERS, members_at_start, schedule, DEPOSITS>>,
           MEMBER_LOCKED_AMOUNTS'[creator] = MEMBER_LOCKED_AMOUNTS[creator],
           Forming' => Forming, Playing' => Playing,
           Settled' => Settled /\ UNCHANGED total_platform_fees_collected
    PROVE  CourseInv'
<1>0. UNCHANGED <<current_cycle_index, cycles_completed, elapsed, PAYOUTS>>
  BY DEF schedule
<1>1. Members' = Members
  BY DEF Members
<1>2. Missing' = Missing
  BY <1>0, <1>1 DEF Missing, Active, Unblocked
<1>3. CrewInv'
  BY <1>1 DEF CourseInv, CrewInv
<1>4. FormInv'
  BY <1>0 DEF CourseInv, FormInv
<1>5. PlayInv' /\ CycleInv'
  BY <1>0, <1>1, <1>2 DEF CourseInv, PlayInv, CycleInv, PaidRounds
<1>6. OverInv'
  BY <1>0 DEF CourseInv, OverInv
<1> QED
  BY <1>3, <1>4, <1>5, <1>6 DEF CourseInv

\* Messages and stuttering that touch neither the course nor the money.
LEMMA KeepsQuiet ==
    ASSUME TypeInv, TypeInv', CourseInv,
           UNCHANGED <<members_list, BLOCKED_MEMBERS, members_at_start, schedule, DEPOSITS,
                       locks, claims, pools, bank>>,
           \/ UNCHANGED circle_status
           \/ circle_status \in {"Running", "Paused"} /\ circle_status' \in {"Running", "Paused"}
    PROVE  CourseInv' /\ Conserves
<1>1. UNCHANGED <<MEMBER_LOCKED_AMOUNTS, creator_lock_amount, total_pending_payouts,
                  total_penalties_collected, total_platform_fees_collected, bank, Held>>
  BY HeldUnchanged DEF locks, claims, pools, schedule
<1>2. CourseInv'
  BY <1>1, CourseUnchanged DEF Forming, Playing, Settled
<1>3. UNCHANGED <<Claims, Stakes>>
  BY <1>1 DEF Claims, Stakes
<1>4. (circle_status' \in Closed <=> circle_status \in Closed) /\ (Exact' => Exact)
  BY DEF Closed, Exact, Settled
<1>5. Conserves
  BY <1>1, <1>3, <1>4, ClaimsMove
<1> QED
  BY <1>2, <1>5

LEMMA KeepsTick ==
    ASSUME TypeInv, TypeInv', CourseInv, TimelyTick
    PROVE  CourseInv' /\ Conserves
<1>1. /\ circle_status \in {"Running", "Paused"}
      /\ elapsed # None /\ elapsed' = elapsed + 1
      /\ UNCHANGED <<circle_status, members_list, BLOCKED_MEMBERS, members_at_start,
                     current_cycle_index, cycles_completed, PAYOUTS, DEPOSITS,
                     MEMBER_LOCKED_AMOUNTS, creator_lock_amount, total_pending_payouts,
                     total_penalties_collected, total_platform_fees_collected, bank>>
      /\ elapsed + 1 >= CycleDuration => Missing = {}
  BY DEF TimelyTick, Tick, roster, terms, deposits, locks, claims, pools
<1>2. Members' = Members
  BY <1>1 DEF Members
<1>3. Missing' = Missing
  BY <1>1, <1>2 DEF Missing, Active, Unblocked
<1>4. elapsed' # None
  BY <1>1, AmountsType, BoundsAreNatural
<1>5. PlayInv' /\ CycleInv'
  BY <1>1, <1>2, <1>3, <1>4 DEF CourseInv, PlayInv, CycleInv, Playing, PaidRounds
<1>6. CrewInv' /\ FormInv' /\ OverInv'
  BY <1>1, <1>2 DEF CourseInv, CrewInv, FormInv, OverInv, Forming, Settled
<1>7. Conserves
  <2>1. UNCHANGED <<Claims, Stakes>>
    BY <1>1, HeldUnchanged DEF Claims, Stakes
  <2>2. Exact' => Exact
    BY <1>1 DEF Exact, Settled
  <2> QED BY <1>1, <2>1, <2>2, ClaimsMove
<1> QED
  BY <1>5, <1>6, <1>7 DEF CourseInv

LEMMA KeepsWithdrawal ==
    ASSUME TypeInv, TypeInv', CourseInv, NEW m \in Addr, Withdraw(m)
    PROVE  CourseInv' /\ Conserves
<1>1. /\ DebitPending(m) /\ bank' = bank - PENDING_PAYOUTS[m]
      /\ circle_status' \in {circle_status, "Completed"}
      /\ circle_status' = "Completed" => circle_status \in {"Finalizing", "Completed"}
      /\ UNCHANGED <<members_list, BLOCKED_MEMBERS, members_at_start, schedule, DEPOSITS, locks, pools>>
  BY DEF Withdraw, Send, roster, terms, deposits
<1>2. total_pending_payouts' = total_pending_payouts - PENDING_PAYOUTS[m]
  <2>1. PENDING_PAYOUTS[m] <= total_pending_payouts
    BY AmountsType, ConfigurationType, SumOfWithout DEF TypeInv, LedgerInv, PendingTotalMatches
  <2> QED BY <1>1, <2>1, AmountsType, SaturatingType DEF DebitPending
<1>3. UNCHANGED <<MEMBER_LOCKED_AMOUNTS, creator_lock_amount, total_penalties_collected,
                  total_platform_fees_collected, Held>>
  BY <1>1, HeldUnchanged DEF locks, pools, schedule
<1>4. CourseInv'
  BY <1>1, <1>3, CourseUnchanged DEF Forming, Playing, Settled
<1>5. bank' + Claims = bank + Claims'
  BY <1>1, <1>2, <1>3, AmountsType DEF Claims
<1>6. UNCHANGED Stakes
  BY <1>3 DEF Stakes
<1>7. (circle_status' \in Closed <=> circle_status \in Closed) /\ (Exact' => Exact)
  BY <1>1 DEF Closed, Exact, Settled
<1>8. Conserves
  BY <1>5, <1>6, <1>7, ClaimsMove
<1> QED
  BY <1>4, <1>8

\* A credit to the creator that came in with the message.
LEMMA KeepsReward ==
    ASSUME TypeInv, TypeInv', CourseInv, NEW reward \in Rewards, DepositCreatorReward(reward)
    PROVE  CourseInv' /\ Conserves
<1>1. /\ circle_status = "Finalizing" /\ UNCHANGED circle_status
      /\ bank' = bank + reward + 0
      /\ total_pending_payouts' = total_pending_payouts
             + SumOf([m \in Addr |-> IF m = creator THEN reward ELSE 0])
      /\ UNCHANGED <<members_list, BLOCKED_MEMBERS, members_at_start, schedule, DEPOSITS, locks,
                     total_penalties_collected, total_platform_fees_collected>>
  BY DEF DepositCreatorReward, Receive, CreditPending, roster, terms, deposits
<1>2. reward \in Nat /\ SumOf([m \in Addr |-> IF m = creator THEN reward ELSE 0]) = reward
  BY ConfigurationType, SumOfOne
<1>3. CourseInv'
  BY <1>1, CourseUnchanged DEF locks, Forming, Playing, Settled
<1>4. UNCHANGED Stakes
  BY <1>1, HeldUnchanged DEF Stakes, locks, schedule
<1>5. bank' + Claims = bank + Claims'
  BY <1>1, <1>2, AmountsType DEF Claims
<1>6. Exact' => Exact
  BY <1>1 DEF Exact, Settled
<1>7. Conserves
  BY <1>1, <1>4, <1>5, <1>6, ClaimsMove
<1> QED
  BY <1>3, <1>7

\* The sweep books the whole balance, to the last coin.
LEMMA KeepsSweep ==
    ASSUME TypeInv, TypeInv', CourseInv, SweepDust
    PROVE  CourseInv' /\ bank' = bank /\ Owed' = bank
<1>1. /\ circle_status \in Closed /\ circle_status' \in Closed /\ total_pending_payouts = 0
      /\ Dust > 0 /\ bank' = bank
      /\ circle_status' = IF circle_status = "Completed" THEN "Finalizing" ELSE circle_status
      /\ UNCHANGED <<members_list, BLOCKED_MEMBERS, members_at_start, schedule, DEPOSITS, locks,
                     total_platform_fees_collected>>
      /\ total_pending_payouts' = total_pending_payouts
             + SumOf([m \in Addr |-> IF m = creator THEN Dust ELSE 0])
  BY DEF SweepDust, CreditPending, Closed, roster, terms, deposits, pools
<1>2. CourseInv'
  BY <1>1, CourseUnchanged DEF locks, Forming, Playing, Settled, Closed
<1>3. bank \in Nat /\ total_platform_fees_collected \in Nat
  BY AmountsType
<1>4. Dust \in Nat /\ Dust = bank - total_platform_fees_collected
  BY <1>1, <1>3 DEF Dust, Saturating
<1>5. SumOf([m \in Addr |-> IF m = creator THEN Dust ELSE 0]) = Dust
  BY <1>4, ConfigurationType, SumOfOne
<1>6. Claims' = bank
  BY <1>1, <1>3, <1>4, <1>5 DEF Claims
<1>7. Owed' = bank
  BY <1>1, <1>3, <1>6, OwedNextIs
<1> QED
  BY <1>1, <1>2, <1>7

---------------------------------------------------------------------------
(* Before the start *)

LEMMA NaturalsAreSome == \A x \in Nat : x # None
BY BoundsAreNatural

\* A start opens the first round of the first cycle, with nothing deposited.
LEMMA StartPlays ==
    ASSUME TypeInv, CourseInv, Forming, NEW list \in Seq(Addr), Len(list) \in Nat \ {0},
           StartRunning(list), members_list' = list, UNCHANGED DEPOSITS
    PROVE  FormInv' /\ PlayInv' /\ CycleInv' /\ OverInv'
<1>1. /\ circle_status' = "Running" /\ current_cycle_index' = 1 /\ elapsed' = 0
      /\ members_at_start' = Len(list) /\ UNCHANGED <<cycles_completed, PAYOUTS>>
  BY DEF StartRunning
<1>2. PAYOUTS' = {} /\ cycles_completed' = 0 /\ DEPOSITS' = [m \in Addr |-> {}]
  BY <1>1 DEF CourseInv, FormInv
<1>3. CycleDuration \in Nat \ {0} /\ total_cycles \in Nat \ {0}
  BY CreateCircleAccepts
<1>4. Members' \subseteq Addr
  BY DEF Members
<1>5. PaidRounds' = 0 /\ Len(members_list') = Len(list)
  BY <1>2 DEF PaidRounds
<1>6. ~(elapsed' >= CycleDuration) /\ elapsed' # None
  BY <1>1, <1>3, NaturalsAreSome
<1>7. \A m \in Addr : DEPOSITS'[m] = {}
  BY <1>2
<1>8. PlayInv'
  BY <1>1, <1>2, <1>6, <1>7 DEF PlayInv
<1>9. CycleInv'
  <2>1. current_cycle_index' \in (PaidRounds' + 1)..(PaidRounds' + Len(members_list'))
    BY <1>1, <1>5
  <2>2. \A m \in Members' : (PaidRounds' + 1)..(current_cycle_index' - 1) \subseteq DEPOSITS'[m]
    BY <1>1, <1>5
  <2> QED BY <1>1, <1>2, <1>3, <1>4, <1>5, <2>1, <2>2 DEF CycleInv
<1> QED
  BY <1>1, <1>8, <1>9 DEF FormInv, OverInv, Forming, Settled

LEMMA KeepsJoining ==
    ASSUME InTime, TypeInv, TypeInv', CourseInv, NEW m \in Addr, JoinCircle(m)
    PROVE  CourseInv' /\ Conserves
<1>1. /\ Forming /\ m \notin Members /\ MEMBER_LOCKED_AMOUNTS[m] = 0
      /\ MEMBER_LOCKED_AMOUNTS' = [MEMBER_LOCKED_AMOUNTS EXCEPT ![m] = contribution_amount]
      /\ members_list' = Append(members_list, m)
      /\ \/ StartRunning(Append(members_list, m))
         \/ circle_status' \in {"Full", "Open"} /\ UNCHANGED schedule
      /\ UNCHANGED <<BLOCKED_MEMBERS, DEPOSITS, creator_lock_amount, claims, pools>>
  BY DEF JoinCircle, Forming, deposits
<1>2. bank' = bank + contribution_amount
  BY AmountsType, ConfigurationType DEF JoinCircle, Receive, InTime
<1>3. /\ members_list' \in Seq(Addr) /\ Len(members_list') \in Nat \ {0}
      /\ Members' = Members \cup {m}
  <2>1. /\ members_list' \in Seq(Addr) /\ Len(members_list') = Len(members_list) + 1
        /\ ToSet(members_list') = Members \cup {m}
    BY <1>1, AppendMember DEF TypeInv
  <2>2. DOMAIN members_list' = 1..Len(members_list')
        /\ \A i \in DOMAIN members_list' : members_list'[i] \in Addr
    BY <2>1
  <2> QED BY <2>1, <2>2, MembersAreListed DEF Members, ToSet, TypeInv, RosterInv
<1>4. CrewInv'
  <2>1. creator \in Members /\ MEMBER_LOCKED_AMOUNTS[creator] = 0 /\ creator # m
    BY <1>1 DEF CourseInv, CrewInv
  <2>2. MEMBER_LOCKED_AMOUNTS'[creator] = 0
    BY <1>1, <2>1, AmountsType, ConfigurationType
  <2> QED BY <1>1, <1>3, <2>1, <2>2 DEF CourseInv, CrewInv
<1>5. FormInv' /\ PlayInv' /\ CycleInv' /\ OverInv' /\ circle_status' \notin Closed /\ UNCHANGED PAYOUTS
  <2>1. CASE StartRunning(Append(members_list, m))
    BY <1>1, <1>3, <2>1, StartPlays DEF StartRunning, Closed
  <2>2. CASE circle_status' \in {"Full", "Open"} /\ UNCHANGED schedule
    BY <1>1, <2>2
       DEF CourseInv, FormInv, PlayInv, CycleInv, OverInv, Forming, Playing, Settled, Closed, schedule
  <2> QED BY <1>1, <2>1, <2>2
<1>6. SumOf(MEMBER_LOCKED_AMOUNTS') = SumOf(MEMBER_LOCKED_AMOUNTS) + contribution_amount
  <2>1. MEMBER_LOCKED_AMOUNTS' = [MEMBER_LOCKED_AMOUNTS EXCEPT ![m] = @ + contribution_amount]
    BY <1>1, AmountsType, ConfigurationType
  <2> QED BY <2>1, AmountsType, ConfigurationType, SumOfEntry
<1>7. Held' = Held
  BY <1>1, <1>5, HeldUnchanged
<1>8. Conserves
  <2>1. Stakes' = Stakes + contribution_amount /\ Claims' = Claims
    <3>1. UNCHANGED <<total_pending_payouts, total_platform_fees_collected,
                      total_penalties_collected, creator_lock_amount>>
      BY <1>1 DEF claims, pools
    <3>2. Claims' = Claims
      BY <3>1 DEF Claims
    <3>3. Stakes' = Stakes + contribution_amount
      BY <1>6, <1>7, <3>1, AmountsType, ConfigurationType DEF Stakes
    <3> QED BY <3>2, <3>3
  <2>2. bank \in Nat /\ Claims \in Nat /\ Stakes \in Nat
    BY BooksType DEF BooksTypeOK
  <2>3. bank' + Claims + Stakes = bank + Claims' + Stakes'
    BY <1>2, <2>1, <2>2, ConfigurationType
  <2>4. circle_status \notin Closed
    BY <1>1 DEF Forming, Closed
  <2> QED BY <1>5, <2>3, <2>4, OpenBooksMove
<1> QED
  BY <1>4, <1>5, <1>8 DEF CourseInv

LEMMA KeepsStart ==
    ASSUME TypeInv, TypeInv', CourseInv, StartCircle
    PROVE  CourseInv' /\ Conserves
<1>1. /\ Forming /\ StartRunning(members_list) /\ circle_status' = "Running"
      /\ UNCHANGED <<members_list, BLOCKED_MEMBERS, DEPOSITS, PAYOUTS, locks, claims, pools, bank>>
  BY DEF StartCircle, StartRunning, Forming, deposits
<1>2. members_list \in Seq(Addr) /\ Len(members_list) \in Nat \ {0}
  BY CrewFacts, CreateCircleAccepts DEF CourseInv, TypeInv, RosterInv
<1>3. FormInv' /\ PlayInv' /\ CycleInv' /\ OverInv'
  BY <1>1, <1>2, StartPlays
<1>4. CrewInv'
  BY <1>1 DEF CourseInv, CrewInv, Members, locks
<1>5. Conserves
  <2>1. UNCHANGED <<bank, Claims, Stakes>>
    BY <1>1, HeldUnchanged DEF Claims, Stakes, locks, claims, pools
  <2>2. circle_status \notin Closed /\ circle_status' \notin Closed
    BY <1>1 DEF Forming, Closed
  <2> QED BY <2>1, <2>2, OpenBooksMove
<1> QED
  BY <1>3, <1>4, <1>5 DEF CourseInv

\* Nothing is held before the start.
LEMMA NothingHeld ==
    ASSUME DEPOSITS = [m \in Addr |-> {}]
    PROVE  Held = 0
<1>1. DepositsHeld = {}
  BY DEF DepositsHeld
<1> QED
  BY <1>1, FS_EmptySet, ConfigurationType DEF Held

\* Before the start a cancellation sends back all the locks, and keeps the
\* penalties, if there ever were any.
LEMMA CancellingConserves ==
    ASSUME TypeInv, TypeInv', CourseInv, Forming, circle_status' = "Cancelled",
           UNCHANGED <<claims, pools>>,
           bank' = bank - (SumOf(MEMBER_LOCKED_AMOUNTS) + creator_lock_amount)
    PROVE  Conserves
<1>1. Held = 0
  BY NothingHeld DEF CourseInv, FormInv
<1>2. Claims' = Claims
  BY DEF Claims, claims, pools
<1>3. Stakes = SumOf(MEMBER_LOCKED_AMOUNTS) + creator_lock_amount + total_penalties_collected
  BY <1>1, AmountsType DEF Stakes
<1>4. total_penalties_collected \in Nat /\ bank \in Nat /\ Claims \in Nat /\ Stakes \in Nat
  BY AmountsType, BooksType DEF BooksTypeOK
<1>5. bank' + Claims + Stakes = bank + Claims' + total_penalties_collected
  <2>1. SumOf(MEMBER_LOCKED_AMOUNTS) \in Nat /\ creator_lock_amount \in Nat
    BY AmountsType
  <2> QED BY <1>2, <1>3, <1>4, <2>1
<1>6. circle_status \notin Closed /\ circle_status' \in Closed /\ ~Exact'
  BY DEF Forming, Closed, Exact, Settled
<1> QED
  BY <1>4, <1>5, <1>6, BooksClose

LEMMA KeepsCancelling ==
    ASSUME TypeInv, TypeInv', CourseInv, CancelBeforeStart
    PROVE  CourseInv' /\ Conserves
<1>1. /\ Forming /\ circle_status' = "Cancelled" /\ MEMBER_LOCKED_AMOUNTS' = Nothing
      /\ UNCHANGED <<members_list, BLOCKED_MEMBERS, members_at_start, schedule, DEPOSITS,
                     claims, pools>>
      /\ bank' = bank - (SumOf(MEMBER_LOCKED_AMOUNTS) + creator_lock_amount)
  BY DEF CancelBeforeStart, Send, Forming, roster, terms, deposits
<1>2. MEMBER_LOCKED_AMOUNTS'[creator] = MEMBER_LOCKED_AMOUNTS[creator]
  BY <1>1, ConfigurationType DEF Nothing, CourseInv, CrewInv
<1>3. CourseInv'
  BY <1>1, <1>2, CourseUnchanged DEF Forming, Playing, Settled
<1> QED
  BY <1>1, <1>3, CancellingConserves

\* A member that leaves takes its own lock; when the circle is cancelled by
\* it, everybody does.
LEMMA KeepsLeaving ==
    ASSUME TypeInv, TypeInv', CourseInv, NEW m \in Addr \ {creator}, LeaveBeforeStart(m)
    PROVE  CourseInv' /\ Conserves
<1> DEFINE L == MEMBER_LOCKED_AMOUNTS
           own == RefundedLocks({m})
           cancels == /\ Len(Without(members_list, {m})) < min_members_required
                      /\ auto_refund_if_min_not_met
<1>1. /\ Forming /\ ExitBeforeStart(m)
      /\ members_list' = Without(members_list, {m})
      /\ UNCHANGED <<BLOCKED_MEMBERS, schedule, DEPOSITS, creator_lock_amount, claims, pools>>
  BY DEF LeaveBeforeStart, ExitCircle, ExitBeforeStart, ExitAfterStart, Forming, deposits
<1>2. Members' = Members \ {m}
  <2>1. members_list' \in Seq(Addr) /\ ToSet(members_list') = Members \ {m}
    BY <1>1, WithoutMembers DEF TypeInv
  <2>2. DOMAIN members_list' = 1..Len(members_list')
        /\ \A i \in DOMAIN members_list' : members_list'[i] \in Addr
    BY <2>1
  <2> QED BY <2>1, <2>2 DEF Members, ToSet
<1>3. \A S : RefundedLocks(S) \in [Addr -> Nat] /\ RefundedLocks(S)[creator] = 0
  BY AmountsType, ConfigurationType DEF CourseInv, CrewInv, RefundedLocks
<1>4. CrewInv'
  <2>1. PICK S : MEMBER_LOCKED_AMOUNTS' = [x \in Addr |-> L[x] - RefundedLocks(S)[x]]
    BY <1>1 DEF ExitBeforeStart
  <2>2. MEMBER_LOCKED_AMOUNTS'[creator] = 0
    BY <1>3, <2>1, ConfigurationType DEF CourseInv, CrewInv
  <2> QED BY <1>1, <1>2, <2>2 DEF CourseInv, CrewInv
<1>5. CASE cancels
  <2>1. /\ circle_status' = "Cancelled"
        /\ bank' = bank - (SumOf(RefundedLocks(Addr)) + creator_lock_amount)
    BY <1>1, <1>5 DEF ExitBeforeStart, Send
  <2>2. RefundedLocks(Addr) = MEMBER_LOCKED_AMOUNTS
    BY AmountsType DEF RefundedLocks
  <2>3. Conserves
    BY <1>1, <2>1, <2>2, CancellingConserves
  <2>4. FormInv' /\ PlayInv' /\ CycleInv' /\ OverInv'
    BY <2>1 DEF FormInv, PlayInv, CycleInv, OverInv, Forming, Playing, Settled
  <2> QED BY <1>4, <2>3, <2>4 DEF CourseInv
<1>6. CASE ~cancels
  <2>1. /\ Forming'
        /\ bank' = bank - SumOf(own)
        /\ MEMBER_LOCKED_AMOUNTS' = [x \in Addr |-> L[x] - own[x]]
    <3>2. Forming'
      BY <1>1, <1>6 DEF ExitBeforeStart, Forming
    <3>3. /\ bank' = bank - (SumOf(own) + 0)
          /\ MEMBER_LOCKED_AMOUNTS' = [x \in Addr |-> L[x] - own[x]]
      BY <1>1, <1>6 DEF ExitBeforeStart, Send
    <3>4. SumOf(own) \in Nat
      BY <1>3, SumType
    <3> HIDE DEF own
    <3> QED BY <3>2, <3>3, <3>4, AmountsType
  <2>2. /\ own = [x \in Addr |-> IF x = m THEN L[m] ELSE 0]
        /\ MEMBER_LOCKED_AMOUNTS' = [L EXCEPT ![m] = 0]
    <3>1. own = [x \in Addr |-> IF x = m THEN L[m] ELSE 0]
      BY DEF RefundedLocks
    <3> HIDE DEF own
    <3>2. ASSUME NEW x \in Addr  PROVE L[x] - own[x] = [L EXCEPT ![m] = 0][x]
      BY <3>1, AmountsType
    <3>3. [x \in Addr |-> L[x] - own[x]] = [L EXCEPT ![m] = 0]
      BY <3>2, AmountsType
    <3> QED BY <2>1, <3>1, <3>3
  <2>3. L[m] \in Nat /\ SumOf(own) = L[m]
    BY <2>2, AmountsType, SumOfOne
  <2>4. SumOf(MEMBER_LOCKED_AMOUNTS') = SumOf(L) - L[m]
    BY <2>2, AmountsType, ConfigurationType, SumOfWithout
  <2>5. FormInv' /\ PlayInv' /\ CycleInv' /\ OverInv' /\ circle_status' \notin Closed
    BY <1>1, <2>1
       DEF CourseInv, FormInv, PlayInv, CycleInv, OverInv, Forming, Playing, Settled, Closed, schedule
  <2>6. Conserves
    <3>1. Claims' = Claims /\ Stakes' = Stakes - L[m]
      <4>1. UNCHANGED <<total_pending_payouts, total_platform_fees_collected,
                        total_penalties_collected, creator_lock_amount, Held>>
        BY <1>1, HeldUnchanged DEF claims, pools, schedule
      <4> QED BY <2>3, <2>4, <4>1, AmountsType DEF Claims, Stakes
    <3>2. bank \in Nat /\ Claims \in Nat /\ Stakes \in Nat
      BY BooksType DEF BooksTypeOK
    <3>3. bank' = bank - L[m]
      BY <2>1, <2>3
    <3> HIDE DEF L, own
    <3>4. bank' + Claims + Stakes = bank + Claims' + Stakes'
      BY <2>3, <3>1, <3>2, <3>3
    <3>5. circle_status \notin Closed
      BY <1>1 DEF Forming, Closed
    <3> QED BY <2>5, <3>4, <3>5, OpenBooksMove
  <2> QED BY <1>4, <2>5, <2>6 DEF CourseInv
<1> QED
  BY <1>5, <1>6

---------------------------------------------------------------------------
(* The rounds *)

\* A running circle, in numbers; a Total one: n members, k cycles paid, round s
\* of the next.
LEMMA WithinRounds ==
    ASSUME TypeInv, CourseInv, Playing
    PROVE  /\ Len(members_list) \in Nat \ {0} /\ Len(members_list) <= max_members
           /\ current_cycle_index \in Nat \ {0}
<1>1. Len(members_list) \in Nat \ {0} /\ Len(members_list) <= max_members
  BY CrewFacts, CreateCircleAccepts DEF CourseInv
<1>2. current_cycle_index \in Nat \ {0}
  BY AmountsType DEF CourseInv, PlayInv
<1> QED
  BY <1>1, <1>2

LEMMA WithinCycle ==
    ASSUME TypeInv, CourseInv, Playing, distribution_threshold = Total
    PROVE  LET n == Len(members_list)
               k == cycles_completed
           IN  /\ n \in Nat \ {0} /\ n <= max_members /\ k \in Nat
               /\ total_cycles \in Nat \ {0} /\ k < total_cycles
               /\ PaidRounds = n * k /\ PaidRounds \in Nat
               /\ \E s \in 1..n : /\ current_cycle_index = n * k + s
                                  /\ round_in_cycle(current_cycle_index, n) = s
<1> DEFINE n == Len(members_list)
           k == cycles_completed
<1>1. n \in Nat \ {0} /\ n <= max_members /\ k \in Nat
  BY WithinRounds, AmountsType
<1>2. total_cycles \in Nat \ {0} /\ k < total_cycles
  BY CreateCircleAccepts DEF CourseInv, CycleInv
<1>3. PaidRounds = n * k /\ PaidRounds \in Nat
  BY <1>1, TimesType DEF PaidRounds
<1>4. current_cycle_index \in (PaidRounds + 1)..(PaidRounds + n)
  BY DEF CourseInv, CycleInv
<1>5. PICK s \in 1..n : current_cycle_index = PaidRounds + s
  <2>1. current_cycle_index - PaidRounds \in 1..n
    BY <1>1, <1>3, <1>4
  <2> QED BY <1>3, <1>4, <2>1
<1>6. round_in_cycle(n * k + s, n) = s
  BY <1>1, RoundOfCycle
<1> QED
  BY <1>1, <1>2, <1>3, <1>5, <1>6

\* The round being played is not paid out, whatever the threshold.
LEMMA CurrentRoundIsHeld ==
    ASSUME TypeInv, CourseInv, Playing
    PROVE  ~PaidOut(current_cycle_index) /\ current_cycle_index \notin PAYOUTS
<1>1. \A p \in PAYOUTS : p \in 1..(current_cycle_index - 1)
  BY DEF CourseInv, PlayInv
<1>2. current_cycle_index \in Nat
  BY AmountsType
<1>3. \A p \in PAYOUTS : ~(current_cycle_index <= p) /\ p # current_cycle_index
  BY <1>1, <1>2
<1> QED
  BY <1>3 DEF PaidOut

\* The deposit of one member for the current round, which nothing has paid out.
LEMMA KeepsDepositing ==
    ASSUME InTime, TypeInv, TypeInv', CourseInv, NEW m \in Addr, DepositContribution(m)
    PROVE  CourseInv' /\ Conserves
<1> DEFINE c == current_cycle_index
           L == MEMBER_LOCKED_AMOUNTS
<1>1. /\ circle_status = "Running" /\ Playing /\ m \in Members /\ c \notin DEPOSITS[m]
      /\ UNCHANGED <<circle_status, members_list, BLOCKED_MEMBERS, members_at_start, schedule,
                     creator_lock_amount, claims, total_platform_fees_collected>>
      /\ L' = [L EXCEPT ![m] = @ + LockRefill(m)]
      /\ total_penalties_collected' = total_penalties_collected + LateFeesDue(m)
      /\ DEPOSITS' = [DEPOSITS EXCEPT ![m] = @ \cup {c}]
  BY DEF DepositContribution, AcceptsDeposit, Playing, roster, terms
<1>2. LockRefill(m) \in Nat /\ LateFeesDue(m) \in Nat
  <2>1. LockRefill(m) \in Nat
    BY AmountsType, ConfigurationType, SaturatingType DEF LockRefill
  <2>2. LateFeesDue(m) \in Nat
    BY FeesType, RoundsMissedType, TimesType DEF LateFeesDue, TypeInv
  <2> QED BY <2>1, <2>2
<1>3. bank' = bank + contribution_amount + LockRefill(m) + LateFeesDue(m)
  BY <1>2, AmountsType, ConfigurationType
     DEF DepositContribution, Receive, DepositPrice, InTime
<1>4. UNCHANGED <<c, cycles_completed, elapsed, PAYOUTS, total_pending_payouts>>
  BY <1>1 DEF schedule, claims
<1>5. c \in Rounds /\ c \in Nat /\ c > 0 /\ DEPOSITS \in [Addr -> SUBSET Rounds]
  BY <1>1, WithinRounds DEF TypeInv, ScheduleInv, RecordsInv
<1>6. Members' = Members
  BY <1>1 DEF Members
<1>7. CrewInv'
  <2>1. L'[creator] = 0
    BY <1>1, <1>2, AmountsType, ConfigurationType DEF CourseInv, CrewInv, LockRefill
  <2> QED BY <1>1, <1>6, <2>1 DEF CourseInv, CrewInv
<1>8. PlayInv' /\ CycleInv'
  <2>1. \A x \in Addr : DEPOSITS[x] \subseteq DEPOSITS'[x]
    BY <1>1, <1>5
  <2>2. Missing' \subseteq Missing
    BY <1>1, <1>4, <1>6, <2>1, RosterType DEF Missing, Active, Unblocked
  <2>3. \A x \in Addr : DEPOSITS'[x] \subseteq 1..c
    <3>1. c \in 1..c /\ \A x \in Addr : DEPOSITS[x] \subseteq 1..c
      BY <1>1, <1>5 DEF CourseInv, PlayInv
    <3> QED BY <1>1, <1>5, <3>1
  <2>4. \A x \in Addr \ Members : DEPOSITS'[x] = {}
    BY <1>1, <1>5 DEF CourseInv, PlayInv
  <2>5. Members \subseteq Addr
    BY RosterType
  <2>6. PlayInv'
    BY <1>1, <1>4, <1>6, <2>2, <2>3, <2>4 DEF CourseInv, PlayInv
  <2>7. CycleInv'
    BY <1>1, <1>4, <1>6, <2>1, <2>5 DEF CourseInv, CycleInv, PaidRounds
  <2> QED BY <2>6, <2>7
<1>9. FormInv' /\ OverInv' /\ circle_status \notin Closed /\ circle_status' \notin Closed
  BY <1>1 DEF FormInv, OverInv, Forming, Settled, Closed
<1>10. Held' = Held + contribution_amount
  <2>1. ~PaidOut(c)
    BY <1>1, CurrentRoundIsHeld
  <2>2. \A r : PaidOut(r)' <=> PaidOut(r)
    BY <1>4 DEF PaidOut
  <2>3. DepositsHeld' = DepositsHeld \cup {<<m, c>>}
    <3>1. \A d \in Addr \X Rounds :
              d[2] \in DEPOSITS'[d[1]] <=> (d[2] \in DEPOSITS[d[1]] \/ d = <<m, c>>)
      BY <1>1, <1>5
    <3>2. <<m, c>> \in Addr \X Rounds
      BY <1>5
    <3>3. DepositsHeld' = {d \in Addr \X Rounds : d[2] \in DEPOSITS'[d[1]] /\ ~PaidOut(d[2])}
      BY <1>4 DEF DepositsHeld, PaidOut
    <3> QED BY <2>1, <3>1, <3>2, <3>3 DEF DepositsHeld
  <2>4. <<m, c>> \notin DepositsHeld
    BY <1>1 DEF DepositsHeld
  <2>5. Cardinality(DepositsHeld') = Cardinality(DepositsHeld) + 1
    BY <2>3, <2>4, HeldType, FS_AddElement
  <2>6. Cardinality(DepositsHeld) \in Nat
    BY HeldType, FS_CardinalityType
  <2> QED BY <2>5, <2>6, ConfigurationType DEF Held
<1>11. SumOf(L') = SumOf(L) + LockRefill(m)
  BY <1>1, <1>2, AmountsType, SumOfEntry
<1>12. Conserves
  <2>1. Claims' = Claims
    BY <1>1, <1>4 DEF Claims
  <2> HIDE DEF L
  <2>2. Stakes' = Stakes + contribution_amount + LockRefill(m) + LateFeesDue(m)
    BY <1>1, <1>2, <1>10, <1>11, AmountsType, ConfigurationType DEF Stakes, L
  <2>3. bank \in Nat /\ Claims \in Nat /\ Stakes \in Nat
    BY BooksType DEF BooksTypeOK
  <2>4. bank' + Claims + Stakes = bank + Claims' + Stakes'
    BY <1>2, <1>3, <2>1, <2>2, <2>3, ConfigurationType
  <2> QED BY <1>9, <2>4, OpenBooksMove
<1> QED
  BY <1>7, <1>8, <1>9, <1>12 DEF CourseInv

\* What the keeper's call finds: nobody has missed the round, and a Total cycle
\* is complete up to it.
LEMMA RoundIsComplete ==
    ASSUME TypeInv, CourseInv, circle_status = "Running", RoundOver
    PROVE  /\ Missing = {}
           /\ \A m \in Members : current_cycle_index \in DEPOSITS[m]
           /\ distribution_threshold = Total =>
                  \A m \in Members : (PaidRounds + 1)..current_cycle_index \subseteq DEPOSITS[m]
<1>1. Playing /\ PlayInv /\ Missing = {}
  BY RoundOverMeansAll DEF CourseInv, Playing
<1>2. \A m \in Members : current_cycle_index \in DEPOSITS[m]
  BY <1>1, CrewFacts DEF CourseInv, Missing
<1>3. ASSUME distribution_threshold = Total
      PROVE  \A m \in Members : (PaidRounds + 1)..current_cycle_index \subseteq DEPOSITS[m]
  <2>1. current_cycle_index \in Nat /\ PaidRounds \in Nat
    BY <1>1, <1>3, AmountsType, WithinCycle
  <2>2. \A r \in (PaidRounds + 1)..current_cycle_index :
            r = current_cycle_index \/ r \in (PaidRounds + 1)..(current_cycle_index - 1)
    BY <2>1
  <2> QED BY <1>1, <1>2, <1>3, <2>2 DEF CourseInv, CycleInv
<1> QED
  BY <1>1, <1>2, <1>3

\* The clock of the next round, which its members have not yet deposited for.
LEMMA NextRoundIsYoung ==
    ASSUME InTime, TypeInv, CourseInv, Playing, RoundOver, NextRound
    PROVE  elapsed' # None /\ ~(elapsed' >= CycleDuration)
<1>1. elapsed # None
  BY DEF CourseInv, PlayInv
<1>2. elapsed \in Nat /\ elapsed <= MaxElapsed /\ elapsed' = elapsed - CycleDuration
      /\ elapsed >= CycleDuration
  BY <1>1, AmountsType DEF RoundOver, NextRound
<1>3. CycleDuration \in Nat /\ MaxElapsed \in Nat
  BY CreateCircleAccepts, BoundsAreNatural
<1>4. elapsed' \in Nat /\ elapsed' < CycleDuration
  BY <1>2, <1>3 DEF InTime
<1> QED
  BY <1>3, <1>4, NaturalsAreSome

\* The records that a round leaves to the next.
LEMMA NextRoundPlays ==
    ASSUME InTime, TypeInv, CourseInv, Playing, RoundOver, NextRound,
           Members' = Members, Len(members_list') = Len(members_list),
           UNCHANGED <<DEPOSITS, members_at_start>>,
           PAYOUTS' \subseteq PAYOUTS \cup {current_cycle_index}
    PROVE  PlayInv'
<1>1. current_cycle_index' = current_cycle_index + 1 /\ current_cycle_index \in Nat \ {0}
  BY WithinRounds DEF NextRound
<1>2. /\ 1..(current_cycle_index - 1) \subseteq 1..(current_cycle_index' - 1)
      /\ current_cycle_index \in 1..(current_cycle_index' - 1)
      /\ 1..current_cycle_index \subseteq 1..current_cycle_index'
      /\ current_cycle_index' > 0
  BY <1>1
<1>3. /\ members_at_start = Len(members_list)
      /\ PAYOUTS \subseteq 1..(current_cycle_index - 1)
      /\ \A m \in Addr : DEPOSITS[m] \subseteq 1..current_cycle_index
      /\ \A m \in Addr \ Members : DEPOSITS[m] = {}
  BY DEF CourseInv, PlayInv
<1> QED
  BY <1>2, <1>3, NextRoundIsYoung DEF PlayInv

LEMMA KeepsAdvancing ==
    ASSUME InTime, TypeInv, TypeInv', CourseInv, AdvanceRound(creator)
    PROVE  CourseInv' /\ Conserves
<1> DEFINE n == Len(members_list)
           c == current_cycle_index
<1>1. /\ circle_status = "Running" /\ Playing /\ RoundOver /\ ChargeMissing /\ NextRound
      /\ round_in_cycle(c, Cardinality(Active))
             < distribution_min_round_for_active(distribution_threshold, Cardinality(Active))
      /\ c' = c + 1
      /\ total_penalties_collected' = PenaltiesAfter /\ MEMBER_LOCKED_AMOUNTS' = LocksAfter
      /\ UNCHANGED <<circle_status, cycles_completed, PAYOUTS, creator_lock_amount, claims,
                     total_platform_fees_collected, bank>>
  BY DEF AdvanceRound, NextRound, Playing
<1>2. Missing = {}
  BY <1>1, RoundIsComplete
<1>3. /\ total_penalties_collected' = total_penalties_collected
      /\ MEMBER_LOCKED_AMOUNTS' = MEMBER_LOCKED_AMOUNTS
  BY <1>1, <1>2, NobodyIsCharged DEF CourseInv
<1>4. /\ Members' = Members /\ Len(members_list') = n
      /\ UNCHANGED <<DEPOSITS, BLOCKED_MEMBERS, members_at_start>>
  BY <1>1, <1>2, ChargeNobody DEF CourseInv
<1>5. CrewInv'
  BY <1>3, <1>4 DEF CourseInv, CrewInv
<1>6. PlayInv'
  BY <1>1, <1>4, NextRoundPlays
<1>7. CycleInv'
  <2> SUFFICES ASSUME distribution_threshold = Total  PROVE CycleInv'
    BY DEF CycleInv
  <2>1. PICK s \in 1..n : c = PaidRounds + s /\ s < n
    <3>1. Cardinality(Active) = n
      BY CrewFacts DEF CourseInv
    <3>2. round_in_cycle(c, n) < n
      BY <1>1, <3>1 DEF distribution_min_round_for_active
    <3> QED BY <1>1, <3>2, WithinCycle
  <2>2. n \in Nat \ {0} /\ PaidRounds \in Nat /\ PaidRounds' = PaidRounds
    BY <1>1, <1>4, WithinCycle DEF PaidRounds
  <2>3. c' \in (PaidRounds + 1)..(PaidRounds + n) /\ c' - 1 = c
    BY <1>1, <2>1, <2>2
  <2>4. /\ cycles_completed < total_cycles
        /\ PAYOUTS \subseteq 1..PaidRounds /\ (cycles_completed > 0 => PaidRounds \in PAYOUTS)
    BY <1>1 DEF CourseInv, CycleInv
  <2>5. \A m \in Members : (PaidRounds + 1)..c \subseteq DEPOSITS[m]
    BY <1>1, RoundIsComplete
  <2> QED BY <1>1, <1>4, <2>2, <2>3, <2>4, <2>5 DEF CycleInv
<1>8. FormInv' /\ OverInv' /\ circle_status \notin Closed /\ circle_status' \notin Closed
  BY <1>1 DEF FormInv, OverInv, Forming, Settled, Closed
<1>9. Conserves
  <2>1. UNCHANGED <<bank, Claims, Stakes>>
    BY <1>1, <1>3, <1>4, HeldUnchanged DEF Claims, Stakes, claims
  <2> QED BY <1>8, <2>1, OpenBooksMove
<1> QED
  BY <1>5, <1>6, <1>7, <1>8, <1>9 DEF CourseInv

---------------------------------------------------------------------------
(* The payout *)

\* The member whose turn it is, in what the payout order has of the members.
LEMMA RecipientIsSomeone ==
    ASSUME TypeInv, CourseInv, Playing, Cardinality(Payees) \in Nat \ {0},
           payout_order_list # None, ActiveOrder # <<>>
    PROVE  Recipient \in Addr
<1>1. ActiveOrder \in Seq(Addr) /\ Len(ActiveOrder) \in Nat \ {0}
  <2>1. ActiveOrder \in Seq(Addr)
    BY WithoutKeeps DEF ActiveOrder, TypeInv, RosterInv
  <2> QED BY <2>1
<1>2. PayoutRound \in Nat \ {0}
  <2>1. current_cycle_index \in Nat \ {0}
    BY WithinRounds
  <2>2. current_cycle_index > 0 /\ (current_cycle_index - 1) % Cardinality(Payees) \in Nat
    BY <2>1, DivType
  <2> QED BY <2>2 DEF PayoutRound, round_in_cycle
<1>3. (PayoutRound - 1) % Len(ActiveOrder) \in 0..(Len(ActiveOrder) - 1)
  BY <1>1, <1>2
<1>4. ((PayoutRound - 1) % Len(ActiveOrder)) + 1 \in 1..Len(ActiveOrder)
  BY <1>1, <1>3
<1> QED
  BY <1>1, <1>4 DEF Recipient

\* The keeper's payout, whatever the threshold: nobody has missed the round,
\* and what is credited is the pool less the platform fee.
LEMMA PayoutIsShared ==
    ASSUME TypeInv, TypeInv', CourseInv, ProcessPayout(creator)
    PROVE  LET n == Len(members_list)
               c == current_cycle_index
           IN  /\ circle_status = "Running" /\ Playing /\ RoundOver /\ Missing = {}
               /\ Payees = Members /\ Cardinality(Members) = n
               /\ PAYOUTS' = PAYOUTS \cup {c} /\ cycles_completed' = cycles_completed + 1
               /\ Members' = Members /\ Len(members_list') = n
               /\ UNCHANGED <<DEPOSITS, BLOCKED_MEMBERS, members_at_start>>
               /\ Payout \in Nat /\ PlatformFee \in Nat /\ Pool = Payout + PlatformFee
               /\ RoundCredits \in [Addr -> Nat] /\ SumOf(RoundCredits) = Payout
               /\ SplitsPool => RoundCredits = EqualSplit(Payout, Members)
<1> DEFINE n == Len(members_list)
           c == current_cycle_index
<1>1. /\ circle_status = "Running" /\ Playing /\ RoundOver /\ ChargeMissing
      /\ PAYOUTS' = PAYOUTS \cup {c} /\ cycles_completed' = cycles_completed + 1
  BY DEF ProcessPayout, Playing
<1>2. Missing = {} /\ Payees = Members /\ Cardinality(Members) = n
      /\ SumOf(LockUse) = 0
  BY <1>1, RoundIsComplete, NobodyIsCharged, CrewFacts DEF CourseInv
<1>3. /\ Members' = Members /\ Len(members_list') = n
      /\ UNCHANGED <<DEPOSITS, BLOCKED_MEMBERS, members_at_start>>
  BY <1>1, <1>2, ChargeNobody DEF CourseInv
<1>4. Payout \in Nat /\ PlatformFee \in Nat /\ Pool = Payout + PlatformFee
  <2>1. Payout \in Nat /\ PlatformFee \in Nat /\ BasePayout \in Nat /\ SumOf(LockUse) \in Nat
    BY PayoutType DEF TypeInv
  <2>2. Pool \in Nat
    BY <2>1 DEF Pool
  <2> HIDE DEF n, c
  <2> QED BY <2>1, <2>2 DEF Payout
<1>5. SplitsPool => RoundCredits = EqualSplit(Payout, Members)
  BY <1>2 DEF RoundCredits
<1>6. RoundCredits \in [Addr -> Nat]
  BY CreditsType DEF TypeInv
<1>7. SumOf(RoundCredits) = Payout
  <2>1. CASE SplitsPool
    <3>1. Members \subseteq Members /\ Members # {} /\ RosterInv
      BY DEF CourseInv, CrewInv, TypeInv
    <3> QED BY <1>4, <1>5, <2>1, <3>1, EqualSplitGivesAll
  <2>2. CASE ~SplitsPool
    <3>1. Recipient \in Addr
      <4>1. payout_order_list # None /\ ActiveOrder # <<>>
        BY <2>2 DEF ProcessPayout
      <4>2. Cardinality(Payees) \in Nat \ {0}
        BY <1>1, <1>2, WithinRounds
      <4> QED BY <1>1, <4>1, <4>2, RecipientIsSomeone
    <3>2. RoundCredits = [m \in Addr |-> IF m = Recipient THEN Payout ELSE 0]
      BY <2>2 DEF RoundCredits
    <3> QED BY <1>4, <3>1, <3>2, SumOfOne
  <2> QED BY <2>1, <2>2
<1> QED
  BY <1>1, <1>2, <1>3, <1>4, <1>5, <1>6, <1>7

\* A Total circle is paid in the last round of a cycle, the pool of the cycle.
LEMMA PayoutIsOfACycle ==
    ASSUME TypeInv, TypeInv', CourseInv, ProcessPayout(creator), distribution_threshold = Total
    PROVE  LET n == Len(members_list)
               c == current_cycle_index
           IN  /\ c = PaidRounds + n /\ PaidRounds' = c
               /\ IsLastRound <=> cycles_completed' = total_cycles
               /\ SplitsPool /\ Pool = contribution_amount * n * n
<1> DEFINE n == Len(members_list)
           k == cycles_completed
           c == current_cycle_index
<1>1. /\ Playing /\ PayoutRound >= FirstPayoutRound
      /\ Payees = Members /\ Cardinality(Members) = n /\ Missing = {}
      /\ Len(members_list') = n /\ cycles_completed' = k + 1
  BY PayoutIsShared DEF ProcessPayout
<1>2. n \in Nat \ {0} /\ k \in Nat /\ k < total_cycles /\ total_cycles \in Nat
      /\ PaidRounds = n * k
  BY <1>1, WithinCycle
<1>3. PayoutRound = round_in_cycle(c, n) /\ FirstPayoutRound = n
  BY <1>1 DEF PayoutRound, FirstPayoutRound, distribution_min_round_for_active
<1>4. c = PaidRounds + n /\ PayoutRound = n
  <2>1. PICK s \in 1..n : c = PaidRounds + s /\ round_in_cycle(c, n) = s
    BY <1>1, WithinCycle
  <2>2. s = n
    BY <1>1, <1>2, <1>3, <2>1
  <2> QED BY <1>3, <2>1, <2>2
<1>5. c = n * (k + 1) /\ PaidRounds' = c
  <2>1. n * (k + 1) = n * k + n
    BY <1>2
  <2>2. PaidRounds' = n * (k + 1)
    BY <1>1 DEF PaidRounds
  <2> QED BY <1>2, <1>4, <2>1, <2>2
<1>6. IsLastRound <=> k + 1 = total_cycles
  <2>1. members_at_start = n
    BY <1>1 DEF CourseInv, PlayInv
  <2>2. TotalRounds = n * total_cycles
    BY <1>2, <2>1, NaturalsAreSome DEF TotalRounds
  <2>3. \A i \in Nat : i > 0 => n * i > 0
    BY <1>2
  <2>4. CASE k + 1 = total_cycles
    BY <1>2, <1>5, <2>2, <2>4, TimesType DEF IsLastRound
  <2>5. CASE k + 1 # total_cycles
    <3>1. total_cycles - (k + 1) \in Nat /\ total_cycles - (k + 1) > 0
      BY <1>2, <2>5
    <3>2. n * total_cycles = n * (k + 1) + n * (total_cycles - (k + 1))
      BY <1>2
    <3>3. n * (total_cycles - (k + 1)) > 0
      BY <2>3, <3>1
    <3>4. n * (k + 1) \in Nat /\ n * total_cycles \in Nat /\ n * (total_cycles - (k + 1)) \in Nat
      BY <1>2, <3>1, TimesType
    <3>5. ~(n * (k + 1) >= n * total_cycles)
      BY <3>2, <3>3, <3>4
    <3> QED BY <1>5, <2>2, <2>5, <3>5 DEF IsLastRound
  <2> QED BY <2>4, <2>5
<1>7. SplitsPool
  BY <1>3, <1>4 DEF SplitsPool
<1>8. Pool = contribution_amount * n * n
  <2>1. contribution_amount * n * n \in Nat
    BY <1>2, ConfigurationType, TimesType
  <2>2. SumOf(LockUse) = 0
    BY <1>1, NobodyIsCharged DEF CourseInv
  <2> QED BY <1>1, <1>7, <2>1, <2>2 DEF Pool, BasePayout
<1> QED
  BY <1>1, <1>4, <1>5, <1>6, <1>7, <1>8

\* Any other circle is paid the deposits of the round.
LEMMA PayoutIsOfARound ==
    ASSUME TypeInv, TypeInv', CourseInv, ProcessPayout(creator), distribution_threshold # Total
    PROVE  Pool = contribution_amount * Len(members_list)
<1>1. /\ circle_status = "Running" /\ RoundOver /\ Payees = Members /\ Missing = {}
      /\ Cardinality(Members) = Len(members_list) /\ Playing
  BY PayoutIsShared
<1>2. SumOf(LockUse) = 0 /\ DepositsAfter = DEPOSITS
  BY <1>1, NobodyIsCharged DEF CourseInv
<1>3. {m \in Payees : current_cycle_index \in DepositsAfter[m]} = Members
  BY <1>1, <1>2, RoundIsComplete
<1>4. ~SplitsPool
  BY DEF SplitsPool
<1>5. BasePayout = contribution_amount * Len(members_list)
  BY <1>1, <1>3, <1>4 DEF BasePayout
<1>6. contribution_amount * Len(members_list) \in Nat
  BY <1>1, WithinRounds, ConfigurationType, TimesType
<1> QED
  BY <1>2, <1>5, <1>6 DEF Pool

---------------------------------------------------------------------------
(* The books of a payout *)

\* A payout pays out the deposits it counts: of a Total circle all that are
\* held, of any other those of the round.
LEMMA SpendsTheCycle ==
    ASSUME TypeInv, TypeInv', CourseInv, ProcessPayout(creator), distribution_threshold = Total
    PROVE  Held = Pool /\ Held' = 0
<1> DEFINE n == Len(members_list)
           P == PaidRounds
           c == current_cycle_index
<1>1. /\ Playing /\ RoundOver /\ Cardinality(Members) = n
      /\ PAYOUTS' = PAYOUTS \cup {c} /\ UNCHANGED DEPOSITS
      /\ c = P + n /\ Pool = contribution_amount * n * n
  BY PayoutIsShared, PayoutIsOfACycle
<1>2. n \in Nat \ {0} /\ P \in Nat /\ P = n * cycles_completed /\ cycles_completed \in Nat
  BY <1>1, WithinCycle
<1>3. /\ \A m \in Members : (P + 1)..c \subseteq DEPOSITS[m]
      /\ \A m \in Addr : DEPOSITS[m] \subseteq 1..c
      /\ \A m \in Addr \ Members : DEPOSITS[m] = {}
      /\ PAYOUTS \subseteq 1..P /\ (cycles_completed > 0 => P \in PAYOUTS)
  BY <1>1, RoundIsComplete DEF ProcessPayout, CourseInv, PlayInv, CycleInv
<1>4. \A r \in 1..c : PaidOut(r) <=> r <= P
  <2>1. \A r \in 1..c : PaidOut(r) => r <= P
    BY <1>1, <1>2, <1>3 DEF PaidOut
  <2>2. CASE cycles_completed > 0
    BY <1>3, <2>1, <2>2 DEF PaidOut
  <2>3. CASE cycles_completed = 0
    BY <1>1, <1>2, <2>1, <2>3
  <2> QED BY <1>2, <2>2, <2>3
<1>5. DepositsHeld = Members \X ((P + 1)..c)
  <2>1. ASSUME NEW d \in DepositsHeld  PROVE d \in Members \X ((P + 1)..c)
    <3>1. PICK m \in Addr, r \in Rounds : d = <<m, r>> /\ r \in DEPOSITS[m] /\ ~PaidOut(r)
      BY DEF DepositsHeld
    <3>2. m \in Members /\ r \in 1..c
      BY <1>3, <3>1
    <3>3. r \in (P + 1)..c
      BY <1>1, <1>2, <1>4, <3>1, <3>2
    <3> QED BY <3>1, <3>2, <3>3
  <2>2. ASSUME NEW m \in Members, NEW r \in (P + 1)..c  PROVE <<m, r>> \in DepositsHeld
    <3>1. m \in Addr /\ r \in DEPOSITS[m] /\ r \in 1..c
      BY <1>2, <1>3, RosterType
    <3>2. r \in Rounds
      BY <3>1 DEF TypeInv, RecordsInv
    <3>3. ~PaidOut(r)
      BY <1>2, <1>4, <3>1
    <3> QED BY <3>1, <3>2, <3>3 DEF DepositsHeld
  <2> QED BY <2>1, <2>2
<1>6. Held = Pool
  <2>1. IsFiniteSet((P + 1)..c) /\ Cardinality((P + 1)..c) = n
    <3>1. P + 1 \in Int /\ c \in Int /\ ~(P + 1 > c) /\ c - (P + 1) + 1 = n
      BY <1>1, <1>2
    <3> QED BY <3>1, FS_Interval
  <2>2. IsFiniteSet(Members)
    BY RosterType, CountType
  <2>3. Cardinality(DepositsHeld) = n * n
    <3>1. Cardinality(Members \X ((P + 1)..c)) = Cardinality(Members) * Cardinality((P + 1)..c)
      BY <2>1, <2>2, FS_Product
    <3> QED BY <1>1, <1>5, <2>1, <3>1
  <2>4. contribution_amount * (n * n) = contribution_amount * n * n
    BY <1>2, ConfigurationType
  <2> QED BY <1>1, <2>3, <2>4 DEF Held
<1>7. Held' = 0
  <2>1. DepositsHeld' = {}
    <3>1. DepositsHeld' = {d \in Addr \X Rounds : d[2] \in DEPOSITS[d[1]] /\ ~PaidOut(d[2])'}
      BY <1>1 DEF DepositsHeld
    <3>2. \A m \in Addr : \A r \in DEPOSITS[m] : r <= c
      BY <1>1, <1>2, <1>3
    <3>3. \A r : r <= c => PaidOut(r)'
      BY <1>1 DEF PaidOut
    <3> QED BY <3>1, <3>2, <3>3
  <2>2. Cardinality(DepositsHeld') = 0
    BY <2>1, FS_EmptySet
  <2> QED BY <2>2, ConfigurationType DEF Held
<1> QED
  BY <1>6, <1>7

LEMMA SpendsTheRound ==
    ASSUME TypeInv, TypeInv', CourseInv, ProcessPayout(creator), distribution_threshold # Total
    PROVE  Held' \in Nat /\ Held = Held' + Pool
<1> DEFINE n    == Len(members_list)
           c    == current_cycle_index
           now  == Members \X {c}
           left == {d \in Addr \X Rounds : d[2] \in DEPOSITS[d[1]] /\ d[2] \notin PAYOUTS \cup {c}}
<1>1. /\ Playing /\ RoundOver /\ Cardinality(Members) = n /\ c \notin PAYOUTS
      /\ PAYOUTS' = PAYOUTS \cup {c} /\ UNCHANGED DEPOSITS
      /\ Pool = contribution_amount * n
  BY PayoutIsShared, PayoutIsOfARound DEF ProcessPayout
<1>2. \A m \in Members : c \in DEPOSITS[m]
  BY <1>1, RoundIsComplete DEF ProcessPayout
<1>3. \A m \in Addr \ Members : DEPOSITS[m] = {}
  BY <1>1 DEF CourseInv, PlayInv
<1>4. \A m \in Members : m \in Addr /\ DEPOSITS[m] \subseteq Rounds
  BY RosterType DEF TypeInv, RecordsInv
<1>5. DepositsHeld = left \cup now /\ left \cap now = {}
  BY <1>1, <1>2, <1>3, <1>4 DEF DepositsHeld, PaidOut
<1>6. DepositsHeld' = left
  BY <1>1 DEF DepositsHeld, PaidOut
<1>7. IsFiniteSet(left)
  BY <1>5, HeldType, FS_Subset
<1>8. IsFiniteSet(now) /\ Cardinality(now) = n
  <2>1. IsFiniteSet(Members) /\ IsFiniteSet({c}) /\ Cardinality({c}) = 1
    BY RosterType, CountType, FS_Singleton
  <2>2. Cardinality(now) = Cardinality(Members) * 1 /\ IsFiniteSet(now)
    BY <2>1, FS_Product
  <2> QED BY <1>1, <2>2, WithinRounds
<1> HIDE DEF left, now, n
<1>9. Cardinality(DepositsHeld) = Cardinality(left) + n
  <2>1. Cardinality(left \cup now) = Cardinality(left) + Cardinality(now) - Cardinality({})
    BY <1>5, <1>7, <1>8, FS_Union
  <2> QED BY <1>5, <1>7, <1>8, <2>1, FS_EmptySet, FS_CardinalityType
<1>10. Cardinality(left) \in Nat /\ n \in Nat
  BY <1>7, <1>8, FS_CardinalityType
<1>11. contribution_amount * (Cardinality(left) + n)
           = contribution_amount * Cardinality(left) + contribution_amount * n
  BY <1>10, ConfigurationType
<1>12. Held' = contribution_amount * Cardinality(left)
  BY <1>6 DEF Held
<1>13. Held = Held' + Pool
  BY <1>1, <1>9, <1>11, <1>12 DEF Held, n
<1> QED
  BY <1>10, <1>12, <1>13, ConfigurationType, TimesType

LEMMA PayoutSpendsTheDeposits ==
    ASSUME TypeInv, TypeInv', CourseInv, ProcessPayout(creator)
    PROVE  /\ Held' \in Nat /\ Held = Held' + Pool
           /\ distribution_threshold = Total => Held' = 0
<1>1. CASE distribution_threshold = Total
  <2>1. Held = Pool /\ Held' = 0 /\ Held \in Nat
    BY <1>1, SpendsTheCycle, HeldType
  <2>2. Held = 0 + Pool
    BY <2>1
  <2> QED BY <2>1, <2>2
<1>2. CASE distribution_threshold # Total
  BY <1>2, SpendsTheRound
<1> QED
  BY <1>1, <1>2

\* What a payout sends or credits is owed before it: the deposits it spends
\* are next to everything else, the creator's lock included.
LEMMA PayoutIsCovered ==
    ASSUME TypeInv, TypeInv', CourseInv, ProcessPayout(creator)
    PROVE  /\ OwedNow \in Nat
           /\ Owed >= total_pending_payouts + OwedNow
                      + (IF IsLastRound THEN creator_lock_amount ELSE 0)
<1> DEFINE L    == MEMBER_LOCKED_AMOUNTS
           pen  == total_penalties_collected
           fees == total_platform_fees_collected
<1>1. circle_status = "Running" /\ Missing = {} /\ Payout \in Nat /\ PlatformFee \in Nat
      /\ Pool = Payout + PlatformFee
  BY PayoutIsShared
<1>2. LocksAfter = L /\ PenaltiesAfter = pen
  BY <1>1, NobodyIsCharged DEF CourseInv
<1>3. PICK kept \in Nat : Held = kept + Payout
  <2>1. PICK kept \in Nat : kept = Held'
    BY PayoutSpendsTheDeposits
  <2>2. Held = kept + (Payout + PlatformFee)
    BY <1>1, <2>1, PayoutSpendsTheDeposits
  <2>3. Held = (kept + PlatformFee) + Payout /\ kept + PlatformFee \in Nat
    BY <1>1, <2>2
  <2> QED BY <2>3
<1>4. /\ total_pending_payouts \in Nat /\ fees \in Nat /\ SumOf(L) \in Nat
      /\ creator_lock_amount \in Nat /\ pen \in Nat
  BY AmountsType
<1>5. Owed = Claims + Stakes
  BY <1>1, OwedIs DEF Closed
<1>6. OwedNow = Payout + (IF IsLastRound THEN SumOf(L) + pen ELSE 0)
  BY <1>2 DEF OwedNow
<1> HIDE DEF L, pen, fees
<1>7. Owed = total_pending_payouts + fees + (SumOf(L) + creator_lock_amount + pen + (kept + Payout))
  BY <1>3, <1>5 DEF Claims, Stakes, L, pen, fees
<1> QED
  BY <1>1, <1>3, <1>4, <1>6, <1>7

\* On any balance that covers what is owed, the creator has all of its lock
\* back.
LEMMA RefundIsTheLock ==
    ASSUME TypeInv, TypeInv', CourseInv, ProcessPayout(creator), IsLastRound,
           NEW funds \in Nat, funds >= Owed
    PROVE  AtMost(Saturating(Saturating(funds, total_pending_payouts), OwedNow),
                  creator_lock_amount) = creator_lock_amount
<1>1. OwedNow \in Nat /\ funds >= total_pending_payouts + OwedNow + creator_lock_amount
  <2>1. OwedNow \in Nat /\ Owed >= total_pending_payouts + OwedNow + creator_lock_amount
    BY PayoutIsCovered
  <2>2. Owed \in Nat
    BY BooksType DEF BooksTypeOK
  <2> QED BY <2>1, <2>2, AmountsType
<1>2. total_pending_payouts \in Nat /\ creator_lock_amount \in Nat
  BY AmountsType
<1>3. Saturating(funds, total_pending_payouts) = funds - total_pending_payouts
  BY <1>1, <1>2 DEF Saturating
<1>4. Saturating(funds - total_pending_payouts, OwedNow) = funds - total_pending_payouts - OwedNow
  BY <1>1, <1>2 DEF Saturating
<1> QED
  BY <1>1, <1>2, <1>3, <1>4 DEF AtMost

LEMMA CreatorIsRefunded ==
    ASSUME TypeInv, TypeInv', CourseInv, Spare >= 0, ProcessPayout(creator), IsLastRound
    PROVE  CreatorRefund = creator_lock_amount
<1>1. bank \in Nat /\ bank >= Owed
  BY BooksType DEF BooksTypeOK, Spare
<1>2. LocksAfter[creator] = 0
  BY PayoutIsShared, NobodyIsCharged DEF CourseInv, CrewInv
<1> QED
  BY <1>1, <1>2, RefundIsTheLock DEF CreatorRefund, Spendable

\* What the last payout credits, in all: everything but the platform fees.
LEMMA FinalCreditsAre ==
    ASSUME TypeInv, TypeInv', CourseInv, Spare >= 0, ProcessPayout(creator), IsLastRound
    PROVE  SumOf(FinalCredits) = Payout + SumOf(MEMBER_LOCKED_AMOUNTS)
                                 + total_penalties_collected + creator_lock_amount
<1> DEFINE L     == MEMBER_LOCKED_AMOUNTS
           pen   == total_penalties_collected
           share == EqualSplit(pen, Members)
           back  == [m \in Addr |-> IF m = creator THEN CreatorRefund ELSE 0]
           some  == [m \in Addr |-> RoundCredits[m] + L[m]]
           more  == [m \in Addr |-> some[m] + share[m]]
<1>1. /\ Missing = {} /\ Payees = Members /\ Payout \in Nat
      /\ RoundCredits \in [Addr -> Nat] /\ SumOf(RoundCredits) = Payout
  BY PayoutIsShared
<1>2. LocksAfter = L /\ PenaltiesAfter = pen
  BY <1>1, NobodyIsCharged DEF CourseInv
<1>3. creator \in Members /\ RosterInv
  BY DEF CourseInv, CrewInv, TypeInv
<1>4. CreatorRefund = creator_lock_amount /\ creator_lock_amount \in Nat
  BY CreatorIsRefunded, AmountsType
<1>5. share \in [Addr -> Nat] /\ SumOf(share) = pen
  <2>1. Members \subseteq Members /\ Members # {} /\ pen \in Nat
    BY <1>3, AmountsType
  <2> QED BY <1>3, <2>1, EqualSplitGivesAll
<1>6. back \in [Addr -> Nat] /\ SumOf(back) = creator_lock_amount
  <2>1. back = [m \in Addr |-> IF m = creator THEN creator_lock_amount ELSE 0]
    BY <1>4
  <2> HIDE DEF back
  <2> QED BY <1>4, <2>1, ConfigurationType, SumOfOne
<1>7. L \in [Addr -> Nat] /\ IsFiniteSet(Addr)
  BY AmountsType, ConfigurationType
<1>8. FinalCredits = [m \in Addr |-> more[m] + back[m]]
  BY <1>1, <1>2, <1>3 DEF FinalCredits
<1> HIDE DEF L, pen, share, back
<1>9. some \in [Addr -> Nat] /\ SumOf(some) = Payout + SumOf(L)
  BY <1>1, <1>7, SumOfPlus
<1> HIDE DEF some
<1>10. more \in [Addr -> Nat] /\ SumOf(more) = Payout + SumOf(L) + pen
  BY <1>5, <1>7, <1>9, SumOfPlus
<1> HIDE DEF more
<1>11. SumOf(FinalCredits) = Payout + SumOf(L) + pen + creator_lock_amount
  BY <1>6, <1>7, <1>8, <1>10, SumOfPlus
<1> QED
  BY <1>11 DEF L, pen

\* The books of the last payout, which leaves unowed the deposits of rounds
\* that no payout has paid out, and of any other.
LEMMA LastPayoutConserves ==
    ASSUME TypeInv, TypeInv', CourseInv, Spare >= 0, ProcessPayout(creator), IsLastRound
    PROVE  Conserves
<1> DEFINE L    == MEMBER_LOCKED_AMOUNTS
           pen  == total_penalties_collected
           fees == total_platform_fees_collected
<1>1. circle_status = "Running" /\ Payout \in Nat /\ PlatformFee \in Nat
      /\ Pool = Payout + PlatformFee
  BY PayoutIsShared
<1>2. /\ circle_status' = "Finalizing" /\ total_platform_fees_collected' = 0
      /\ total_pending_payouts' = total_pending_payouts + SumOf(FinalCredits)
      /\ bank' = bank - (fees + PlatformFee)
  BY DEF ProcessPayout, FinalizeCircle, CreditPending, Send
<1>3. PICK rest \in Nat : /\ Held = rest + (Payout + PlatformFee)
                          /\ distribution_threshold = Total => rest = 0
  BY <1>1, PayoutSpendsTheDeposits
<1>4. /\ bank \in Nat /\ total_pending_payouts \in Nat /\ fees \in Nat /\ SumOf(L) \in Nat
      /\ creator_lock_amount \in Nat /\ pen \in Nat
  BY AmountsType
<1>5. SumOf(FinalCredits) = Payout + SumOf(L) + pen + creator_lock_amount
  BY FinalCreditsAre
<1>6. Claims' = total_pending_payouts + (Payout + SumOf(L) + pen + creator_lock_amount) + 0
  BY <1>2, <1>5 DEF Claims
<1>7. Claims = total_pending_payouts + fees
      /\ Stakes = SumOf(L) + creator_lock_amount + pen + (rest + (Payout + PlatformFee))
  BY <1>3 DEF Claims, Stakes
<1> HIDE DEF L, pen, fees
<1>8. bank' + Claims + Stakes = bank + Claims' + rest
  BY <1>1, <1>2, <1>3, <1>4, <1>6, <1>7
<1>9. Exact' => rest = 0
  BY <1>2, <1>3 DEF Exact, Closed
<1> QED
  BY <1>1, <1>2, <1>3, <1>8, <1>9, BooksClose DEF Closed

LEMMA PayoutConserves ==
    ASSUME TypeInv, TypeInv', CourseInv, ProcessPayout(creator), ~IsLastRound
    PROVE  Conserves
<1> DEFINE L    == MEMBER_LOCKED_AMOUNTS
           pen  == total_penalties_collected
           fees == total_platform_fees_collected
<1>1. circle_status = "Running" /\ Missing = {} /\ Payout \in Nat /\ PlatformFee \in Nat
      /\ Pool = Payout + PlatformFee /\ SumOf(RoundCredits) = Payout
  BY PayoutIsShared
<1>2. /\ UNCHANGED <<circle_status, creator_lock_amount, bank>>
      /\ MEMBER_LOCKED_AMOUNTS' = L /\ total_penalties_collected' = pen
      /\ total_platform_fees_collected' = fees + PlatformFee
      /\ total_pending_payouts' = total_pending_payouts + Payout
  BY <1>1, NobodyIsCharged DEF ProcessPayout, PayRound, CreditPending, CourseInv
<1>3. PICK rest \in Nat : rest = Held' /\ Held = rest + (Payout + PlatformFee)
  BY <1>1, PayoutSpendsTheDeposits
<1>4. /\ bank \in Nat /\ total_pending_payouts \in Nat /\ fees \in Nat /\ SumOf(L) \in Nat
      /\ creator_lock_amount \in Nat /\ pen \in Nat
  BY AmountsType
<1>5. Claims' = (total_pending_payouts + Payout) + (fees + PlatformFee)
      /\ Stakes' = SumOf(L) + creator_lock_amount + pen + rest
  BY <1>2, <1>3 DEF Claims, Stakes
<1>6. Claims = total_pending_payouts + fees
      /\ Stakes = SumOf(L) + creator_lock_amount + pen + (rest + (Payout + PlatformFee))
  BY <1>3 DEF Claims, Stakes
<1> HIDE DEF L, pen, fees
<1>7. bank' + Claims + Stakes = bank + Claims' + Stakes'
  BY <1>1, <1>2, <1>3, <1>4, <1>5, <1>6
<1> QED
  BY <1>1, <1>2, <1>7, OpenBooksMove DEF Closed

LEMMA KeepsPaying ==
    ASSUME InTime, TypeInv, TypeInv', CourseInv, Spare >= 0, ProcessPayout(creator)
    PROVE  CourseInv' /\ Conserves
<1> DEFINE n == Len(members_list)
           c == current_cycle_index
<1>1. /\ circle_status = "Running" /\ Playing /\ RoundOver /\ Missing = {}
      /\ PAYOUTS' = PAYOUTS \cup {c} /\ cycles_completed' = cycles_completed + 1
      /\ Members' = Members /\ Len(members_list') = n
      /\ UNCHANGED <<DEPOSITS, BLOCKED_MEMBERS, members_at_start>>
  BY PayoutIsShared
<1>2. CASE IsLastRound
  <2>1. /\ circle_status' = "Finalizing" /\ MEMBER_LOCKED_AMOUNTS' = Nothing
        /\ total_platform_fees_collected' = 0
    BY <1>2 DEF ProcessPayout, FinalizeCircle
  <2>2. CrewInv'
    BY <1>1, <2>1, ConfigurationType DEF CourseInv, CrewInv, Nothing
  <2>3. FormInv' /\ PlayInv' /\ CycleInv'
    BY <2>1 DEF FormInv, PlayInv, CycleInv, Forming, Playing
  <2>4. OverInv'
    BY <1>2, <2>1, PayoutIsOfACycle DEF OverInv
  <2> QED BY <1>2, <2>2, <2>3, <2>4, LastPayoutConserves DEF CourseInv
<1>3. CASE ~IsLastRound
  <2>1. UNCHANGED circle_status /\ MEMBER_LOCKED_AMOUNTS' = MEMBER_LOCKED_AMOUNTS
        /\ NextRound /\ c' = c + 1
    BY <1>1, <1>3, NobodyIsCharged DEF ProcessPayout, PayRound, NextRound, CourseInv
  <2>2. CrewInv' /\ FormInv' /\ OverInv'
    BY <1>1, <2>1 DEF CourseInv, CrewInv, FormInv, OverInv, Forming, Settled
  <2>3. PlayInv'
    BY <1>1, <2>1, NextRoundPlays
  <2>4. ASSUME distribution_threshold = Total  PROVE CycleInv'
    <3>1. n \in Nat \ {0} /\ PaidRounds \in Nat /\ cycles_completed \in Nat
          /\ total_cycles \in Nat /\ cycles_completed < total_cycles
      BY <1>1, <2>4, WithinCycle
    <3>2. c = PaidRounds + n /\ PaidRounds' = c /\ cycles_completed' # total_cycles
      BY <1>3, <2>4, PayoutIsOfACycle
    <3>3. cycles_completed' < total_cycles /\ c \in Nat
      BY <1>1, <3>1, <3>2
    <3>4. PAYOUTS' \subseteq 1..c /\ c \in PAYOUTS'
      <4>1. PAYOUTS \subseteq 1..PaidRounds
        BY <1>1, <2>4 DEF CourseInv, CycleInv
      <4>2. 1..PaidRounds \subseteq 1..c /\ c \in 1..c
        BY <3>1, <3>2
      <4> QED BY <1>1, <4>1, <4>2
    <3>5. c' \in (c + 1)..(c + n) /\ (c + 1)..(c' - 1) = {}
      BY <2>1, <3>1, <3>3
    <3> QED BY <1>1, <3>2, <3>3, <3>4, <3>5 DEF CycleInv
  <2>5. CycleInv'
    BY <2>4 DEF CycleInv
  <2> QED BY <1>3, <2>2, <2>3, <2>5, PayoutConserves DEF CourseInv
<1> QED
  BY <1>2, <1>3

---------------------------------------------------------------------------
(* The steps *)

\* What the people of a circle do keeps the course and conserves the money,
\* as long as the balance covers what this circle is owed.
LEMMA CallsKeep ==
    ASSUME InTime, TypeInv, CourseInv, Spare >= 0, CoopCalls
    PROVE  TypeInv' /\ CourseInv' /\ Conserves
<1>0. TypeInv'
  BY CoopNextIsNext, TypeInvNext DEF CoopNext
<1>1. ASSUME NEW m \in Addr, JoinCircle(m) \/ DepositContribution(m) \/ Withdraw(m)
      PROVE  CourseInv' /\ Conserves
  BY <1>0, <1>1, KeepsJoining, KeepsDepositing, KeepsWithdrawal
<1>2. ASSUME NEW m \in Addr \ {creator}, LeaveBeforeStart(m)  PROVE CourseInv' /\ Conserves
  BY <1>0, <1>2, KeepsLeaving
<1>3. ASSUME NEW m \in Invited, InviteMember(m)  PROVE CourseInv' /\ Conserves
  BY <1>0, <1>3, KeepsQuiet DEF InviteMember, terms, deposits
<1>4. CASE StartCircle \/ CancelBeforeStart
  BY <1>0, <1>4, KeepsStart, KeepsCancelling
<1>5. CASE KeeperPays \/ KeeperAdvances
  BY <1>0, <1>5, KeepsPaying, KeepsAdvancing DEF KeeperPays, KeeperAdvances
<1>6. CASE PauseCircle \/ UnpauseCircle
  BY <1>0, <1>6, KeepsQuiet DEF PauseCircle, UnpauseCircle, SwitchStatus, roster, terms, deposits
<1>7. ASSUME NEW reward \in Rewards, DepositCreatorReward(reward)  PROVE CourseInv' /\ Conserves
  BY <1>0, <1>7, KeepsReward
<1>8. CASE TimelyTick
  BY <1>0, <1>8, KeepsTick
<1> QED
  BY <1>0, <1>1, <1>2, <1>3, <1>4, <1>5, <1>6, <1>7, <1>8 DEF CoopCalls

LEMMA SweepKeeps ==
    ASSUME TypeInv, CourseInv, SweepDust
    PROVE  TypeInv' /\ CourseInv' /\ bank' = bank /\ Owed' = bank
<1>0. TypeInv'
  BY CoopNextIsNext, TypeInvNext DEF CoopNext
<1> QED
  BY <1>0, KeepsSweep

\* What other circles do to the balance changes nothing of this circle.
LEMMA OthersMove ==
    ASSUME TypeInv, CourseInv, bank' \in Nat,
           UNCHANGED <<circle_status, roster, terms, schedule, deposits, misses, locks, claims, pools>>
    PROVE  TypeInv' /\ CourseInv' /\ Owed' = Owed /\ (Exact' <=> Exact)
<1>1. UNCHANGED <<circle_status, members_list, pending_members, payout_order_list, BLOCKED_MEMBERS,
                  members_at_start, max_missed_payments_allowed, current_cycle_index,
                  cycles_completed, elapsed, PAYOUTS, DEPOSITS, MEMBER_LAST_DEPOSITED_CYCLE,
                  missed_count, last_missed_cycle, MEMBER_ACCUMULATED_LATE_FEES,
                  MEMBER_LOCKED_AMOUNTS, creator_lock_amount, total_amount_locked,
                  PENDING_PAYOUTS, total_pending_payouts, total_penalties_collected,
                  total_platform_fees_collected, CREATOR_REWARDS_CREDITED>>
  BY DEF roster, terms, schedule, deposits, misses, locks, claims, pools
<1>2. TypeInv'
  BY <1>1 DEF TypeInv, LedgerInv, LedgerTypeOK, PendingTotalMatches, DepositsInv,
              RosterInv, TermsInv,
              ScheduleInv, RecordsInv, Members
<1>3. CourseInv'
  BY <1>1, CourseUnchanged DEF schedule, Forming, Playing, Settled
<1>4. UNCHANGED <<Claims, Stakes>>
  BY <1>1, HeldUnchanged DEF Claims, Stakes
<1>5. Owed' = Owed
  BY <1>1, <1>4, OwedIs, OwedNextIs
<1> QED
  BY <1>1, <1>2, <1>3, <1>5 DEF Exact, Settled

---------------------------------------------------------------------------
(* The invariant *)

LEMMA CourseInvCreated == CreatedCircle => CourseInv
<1> SUFFICES ASSUME CreatedCircle  PROVE CourseInv
  OBVIOUS
<1>1. creator \in Members
  BY ConfigurationType DEF CreatedCircle, Members
<1> QED
  BY <1>1, ConfigurationType
     DEF CreatedCircle, Nothing, CourseInv, CrewInv, FormInv, PlayInv, CycleInv, OverInv,
         Forming, Playing, Settled

\* At first the circle owes the creator its lock.
LEMMA OwedAtFirst == CreatedCircle => Owed = creator_lock_amount
<1> SUFFICES ASSUME CreatedCircle  PROVE Owed = creator_lock_amount
  OBVIOUS
<1>1. Held = 0
  <2>1. DepositsHeld = {}
    BY DEF CreatedCircle, DepositsHeld
  <2> QED BY <2>1, FS_EmptySet, ConfigurationType DEF Held
<1>2. SumOf(MEMBER_LOCKED_AMOUNTS) = 0
  BY SumOfNothing DEF CreatedCircle, Nothing
<1>3. creator_lock_amount \in Nat
  BY ConfigurationType DEF CreatedCircle, compute_creator_lock
<1> QED
  BY <1>1, <1>2, <1>3, OwedIs DEF CreatedCircle, Claims, Stakes, Closed

LEMMA CoopInvInit ==
    ASSUME InTime, Init
    PROVE  TypeInv /\ CoopInv
<1>1. CreatedCircle /\ bank = compute_creator_lock(contribution_amount) + 0
  BY DEF Init, InTime
<1>2. bank = Owed /\ bank \in Nat
  BY <1>1, OwedAtFirst, ConfigurationType DEF CreatedCircle, compute_creator_lock
<1> QED
  BY <1>1, <1>2, TypeInvInit, CourseInvCreated DEF CoopInv, BooksInv, Spare

LEMMA CoopInvNext ==
    ASSUME InTime, TypeInv, CoopInv, [CoopNext]_vars
    PROVE  TypeInv' /\ CoopInv'
<1>1. ASSUME TypeInv', CourseInv', Conserves  PROVE TypeInv' /\ CoopInv'
  <2>1. PICK before \in Int : before = Spare
    BY SpareType
  <2>2. PICK after \in Int : after = Spare'
    BY <1>1, SpareTypeNext
  <2>3. after >= 0
    BY <1>1, <2>1, <2>2 DEF CoopInv, BooksInv, Conserves
  <2>4. Exact' => after = 0
    BY <1>1, <2>2 DEF CoopInv, BooksInv, Conserves
  <2> QED BY <1>1, <2>2, <2>3, <2>4 DEF CoopInv, BooksInv
<1>2. CASE CoopCalls
  BY <1>1, <1>2, CallsKeep DEF CoopInv, BooksInv
<1>3. CASE SweepDust
  <2>1. TypeInv' /\ CourseInv' /\ bank' = bank /\ Owed' = bank /\ bank \in Nat
    BY <1>3, SweepKeeps, AmountsType DEF CoopInv
  <2>2. Spare' = 0
    BY <2>1 DEF Spare
  <2> QED BY <2>1, <2>2 DEF CoopInv, BooksInv
<1>4. CASE UNCHANGED vars
  <2>1. TypeInv'
    BY <1>4, TypeInvNext
  <2> QED BY <1>1, <1>4, <2>1, KeepsQuiet DEF CoopInv, vars, roster, terms, deposits
<1> QED
  BY <1>2, <1>3, <1>4 DEF CoopNext

LEMMA CoopInvAlways ==
    ASSUME InTime
    PROVE  CoopSafety => [](TypeInv /\ CoopInv)
<1>1. Init => TypeInv /\ CoopInv
  BY CoopInvInit
<1>2. TypeInv /\ CoopInv /\ [CoopNext]_vars => TypeInv' /\ CoopInv'
  BY CoopInvNext
<1> QED
  BY <1>1, <1>2, PTL DEF CoopSafety

---------------------------------------------------------------------------
(* The theorems *)

\* The books of a circle balance to the last coin, in every state before its
\* end and for every threshold, and at its end a Total circle holds what it
\* owes and nothing else.
THEOREM BooksBalance ==
    ASSUME InTime
    PROVE  CoopSafety => []AccountsBalance
<1>1. TypeInv /\ CoopInv => AccountsBalance
  <2> SUFFICES ASSUME TypeInv, CoopInv  PROVE AccountsBalance
    OBVIOUS
  <2>1. ASSUME Exact  PROVE bank = Owed
    BY <2>1, BooksType DEF CoopInv, BooksInv, BooksTypeOK, Spare
  <2>2. ASSUME Settled, distribution_threshold = Total  PROVE bank = total_pending_payouts
    <3>1. Exact /\ circle_status \in Closed /\ total_platform_fees_collected = 0
      BY <2>2 DEF Exact, Settled, Closed, CoopInv, CourseInv, OverInv
    <3> QED BY <2>1, <3>1, OwedIs, AmountsType DEF Claims
  <2> QED BY <2>1, <2>2 DEF AccountsBalance, Exact, Settled
<1> QED
  BY <1>1, CoopInvAlways, PTL

\* A Total circle that settled has paid every one of its cycles, although
\* nothing compares the two counters.
THEOREM EveryCycleIsRun ==
    ASSUME InTime
    PROVE  CoopSafety => []CompletedRanEveryCycle
<1>1. CoopInv => CompletedRanEveryCycle
  BY DEF CoopInv, CourseInv, OverInv, Settled, CompletedRanEveryCycle
<1> QED
  BY <1>1, CoopInvAlways, PTL

\* Only the keeper's payout writes a payout record.
LEMMA OnlyTheKeeperPays ==
    ASSUME [CoopNext]_vars, PAYOUTS' # PAYOUTS
    PROVE  ProcessPayout(creator)
<1>1. ASSUME NEW m \in Addr, JoinCircle(m) \/ DepositContribution(m) \/ Withdraw(m)
      PROVE  FALSE
  BY <1>1 DEF JoinCircle, StartRunning, DepositContribution, Withdraw, schedule
<1>2. ASSUME NEW m, LeaveBeforeStart(m) \/ InviteMember(m)  PROVE FALSE
  BY <1>2 DEF LeaveBeforeStart, ExitCircle, ExitBeforeStart, ExitAfterStart, InviteMember, schedule
<1>3. CASE StartCircle \/ CancelBeforeStart
  BY <1>3 DEF StartCircle, StartRunning, CancelBeforeStart, schedule
<1>4. CASE KeeperAdvances
  BY <1>4 DEF KeeperAdvances, AdvanceRound
<1>5. CASE PauseCircle \/ UnpauseCircle \/ SweepDust
  BY <1>5 DEF PauseCircle, UnpauseCircle, SwitchStatus, SweepDust, schedule
<1>6. ASSUME NEW reward, DepositCreatorReward(reward)  PROVE FALSE
  BY <1>6 DEF DepositCreatorReward, schedule
<1>7. CASE TimelyTick \/ UNCHANGED vars
  BY <1>7 DEF TimelyTick, Tick, vars, schedule
<1>8. CASE KeeperPays
  BY <1>8 DEF KeeperPays
<1> QED
  BY <1>1, <1>2, <1>3, <1>4, <1>5, <1>6, <1>7, <1>8 DEF CoopNext, CoopCalls

\* What one member is credited by it.
LEMMA CreditsAreFair ==
    ASSUME TypeInv, TypeInv', CourseInv, ProcessPayout(creator), distribution_threshold = Total,
           NEW m \in Members
    PROVE  LET n   == Len(members_list)
               net == contribution_amount * n * n
           IN  n * (PENDING_PAYOUTS'[m] - PENDING_PAYOUTS[m] + 1)
                   > net - (net * platform_fee_percent) \div BasisPoints
<1> DEFINE n     == Len(members_list)
           got   == PENDING_PAYOUTS'[m] - PENDING_PAYOUTS[m]
           split == EqualSplit(Payout, Members)
<1>1. /\ Cardinality(Members) = n /\ Pool = contribution_amount * n * n
      /\ Payout \in Nat /\ RoundCredits = split /\ Payees = Members /\ Playing
  BY PayoutIsShared, PayoutIsOfACycle
<1>2. /\ split \in [Addr -> Nat] /\ n * (split[m] + 1) > Payout
  <2>1. Members \subseteq Members /\ Members # {} /\ RosterInv
    BY DEF TypeInv
  <2> QED BY <1>1, <2>1, EqualSplitGivesAll
<1>3. m \in Addr /\ PENDING_PAYOUTS \in [Addr -> Nat] /\ RoundCredits[m] \in Nat
  BY <1>1, <1>2, RosterType, AmountsType
<1>4. PICK more \in Nat : got = split[m] + more
  <2>1. CASE IsLastRound
    <3>1. PENDING_PAYOUTS'[m] = PENDING_PAYOUTS[m] + FinalCredits[m]
      BY <1>3, <2>1 DEF ProcessPayout, FinalizeCircle, CreditPending
    <3>2. LocksAfter[m] \in Nat /\ EqualSplit(PenaltiesAfter, Payees)[m] \in Nat
      <4>1. PenaltiesAfter \in Nat /\ LocksAfter \in [Addr -> Nat]
        BY PenaltiesType, ChargesType DEF TypeInv
      <4> QED BY <1>3, <4>1, RosterType, EqualSplitType
    <3>3. CreatorRefund \in Nat
      <4>1. Saturating(Spendable, OwedNow) \in Int /\ creator_lock_amount \in Nat
        BY AmountsType, PayoutType, PenaltiesType
           DEF Saturating, Spendable, OwedNow, TypeInv
      <4>2. Saturating(Spendable, OwedNow) \in Nat
        BY <4>1, AmountsType, PayoutType, PenaltiesType
           DEF Saturating, Spendable, OwedNow, TypeInv
      <4> QED BY <4>1, <4>2 DEF CreatorRefund, AtMost
    <3>4. FinalCredits[m] = RoundCredits[m] + LocksAfter[m]
              + EqualSplit(PenaltiesAfter, Payees)[m]
              + (IF m = creator /\ m \in Payees THEN CreatorRefund ELSE 0)
      BY <1>3 DEF FinalCredits
    <3>5. \E more \in Nat : FinalCredits[m] = RoundCredits[m] + more
      <4> DEFINE more == LocksAfter[m] + EqualSplit(PenaltiesAfter, Payees)[m]
                         + (IF m = creator /\ m \in Payees THEN CreatorRefund ELSE 0)
      <4>1. more \in Nat /\ FinalCredits[m] = RoundCredits[m] + more
        BY <1>3, <3>2, <3>3, <3>4
      <4> QED BY <4>1
    <3> QED BY <1>1, <1>3, <3>1, <3>5
  <2>2. CASE ~IsLastRound
    <3>1. PENDING_PAYOUTS'[m] = PENDING_PAYOUTS[m] + RoundCredits[m]
      BY <1>3, <2>2 DEF ProcessPayout, PayRound, CreditPending
    <3>2. got = split[m] + 0
      BY <1>1, <1>3, <3>1
    <3> QED BY <3>2
  <2> QED BY <2>1, <2>2
<1>5. n \in Nat \ {0}
  BY <1>1, WithinRounds
<1>6. n * (got + 1) > Payout
  <2>1. split[m] \in Nat /\ n * more \in Nat
    BY <1>2, <1>3, <1>4, <1>5, TimesType
  <2>2. n * (split[m] + more + 1) = n * (split[m] + 1) + n * more
    BY <1>4, <1>5, <2>1
  <2>3. n * (split[m] + 1) \in Nat
    BY <1>5, <2>1, TimesType
  <2>4. n * (split[m] + more + 1) > Payout
    BY <1>1, <1>2, <2>1, <2>2, <2>3
  <2> QED BY <1>4, <2>1, <2>4
<1>7. Payout = contribution_amount * n * n
                 - ((contribution_amount * n * n) * platform_fee_percent) \div BasisPoints
  BY <1>1 DEF Payout, PlatformFee
<1> QED
  BY <1>6, <1>7

\* A payout gives every member of a Total circle what it put into the cycle,
\* less its part of the platform fee and less than one unit of rounding,
\* for every number of members and every contribution.
THEOREM PayoutsAreShared ==
    ASSUME InTime
    PROVE  CoopSafety => SharesAreFair
<1> DEFINE Fair == distribution_threshold = Total /\ PAYOUTS' # PAYOUTS =>
                       LET n   == Len(members_list)
                           net == contribution_amount * n * n
                       IN  \A m \in Members :
                               n * (PENDING_PAYOUTS'[m] - PENDING_PAYOUTS[m] + 1)
                                   > net - (net * platform_fee_percent) \div BasisPoints
<1>1. TypeInv /\ CoopInv /\ [CoopNext]_vars => Fair
  BY CoopInvNext, OnlyTheKeeperPays, CreditsAreFair DEF CoopInv
<1>2. SharesAreFair <=> [][Fair]_vars
  BY DEF SharesAreFair
<1> HIDE DEF Fair
<1> QED
  BY <1>1, <1>2, CoopInvAlways, PTL DEF CoopSafety
=============================================================================
