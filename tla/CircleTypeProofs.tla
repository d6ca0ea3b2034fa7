-------------------------- MODULE CircleTypeProofs --------------------------
(***************************************************************************)
(* The rest of the type invariant, and what rests on the roster: the round *)
(* stays within the configured rounds, no member is listed twice, the      *)
(* payout order follows the roster, and payouts are funded.                *)
(***************************************************************************)
EXTENDS CircleProofs

\* The lists of the roster.  The order need not repeat the roster: create_circle
\* takes any order of the right length.
RosterInv ==
    /\ members_list \in Seq(Addr) /\ IsInjective(members_list)
    /\ Len(members_list) <= max_members
    /\ pending_members \subseteq Addr
    /\ payout_order_list # None => payout_order_list \in Seq(Addr)
    /\ BLOCKED_MEMBERS \in [Addr -> Nat \cup {None}]

---------------------------------------------------------------------------
(* Ejection *)

LEMMA MembersAreListed ==
    ASSUME members_list \in Seq(Addr)
    PROVE  /\ Members = ToSet(members_list)
           /\ Len(members_list) \in Nat
           /\ \A m \in Members : Seat(m) \in 1..Len(members_list) /\ members_list[Seat(m)] = m
<1>1. DOMAIN members_list = 1..Len(members_list) /\ Len(members_list) \in Nat
      /\ \A i \in DOMAIN members_list : members_list[i] \in Addr
  OBVIOUS
<1>2. ASSUME NEW m \in Members
      PROVE  Seat(m) \in DOMAIN members_list /\ members_list[Seat(m)] = m
  <2>1. PICK i \in DOMAIN members_list : members_list[i] = m
    BY DEF Members
  <2> QED BY <2>1 DEF Seat
<1> QED
  BY <1>1, <1>2 DEF Members, ToSet

\* The members that the loop over S has ejected when it is past the first
\* seats exist, whatever order the ejections tighten the limit in.
LEMMA EjectedFromIs ==
    ASSUME members_list \in Seq(Addr), NEW S, S \subseteq Members, NEW failing
    PROVE  /\ EjectedFrom(S, failing) \subseteq S
           /\ \A m \in S : m \in EjectedFrom(S, failing) <=>
                  m \in failing[Cardinality({x \in EjectedFrom(S, failing) : Seat(x) < Seat(m)})]
<1> DEFINE n == Len(members_list)
           Earlier(E, m) == {x \in E : Seat(x) < Seat(m)}
           Past(E, k) == /\ E \subseteq {m \in S : Seat(m) <= k}
                         /\ \A m \in S : Seat(m) <= k =>
                                (m \in E <=> m \in failing[Cardinality(Earlier(E, m))])
           T == {k \in Nat : \E E : Past(E, k)}
<1>1. n \in Nat /\ \A m \in S : Seat(m) \in 1..n
  BY MembersAreListed
<1>2. 0 \in T
  <2>1. Past({}, 0)
    BY <1>1
  <2> QED BY <2>1
<1>3. ASSUME NEW k \in Nat, k \in T  PROVE k + 1 \in T
  <2>1. PICK E : Past(E, k)
    BY <1>3
  <2> DEFINE F == E \cup {m \in S : Seat(m) = k + 1 /\ m \in failing[Cardinality(E)]}
  <2>2. E \subseteq S /\ \A m \in E : Seat(m) <= k
    BY <2>1
  <2>3. F \subseteq {m \in S : Seat(m) <= k + 1}
    BY <1>1, <2>2
  <2>4. ASSUME NEW m \in S, Seat(m) <= k
        PROVE  m \in F <=> m \in failing[Cardinality(Earlier(F, m))]
    <3>1. Earlier(F, m) = Earlier(E, m)
      BY <1>1, <2>2, <2>4
    <3>2. m \in F <=> m \in E
      BY <1>1, <2>4
    <3> QED BY <2>1, <2>4, <3>1, <3>2
  <2>5. ASSUME NEW m \in S, Seat(m) = k + 1
        PROVE  m \in F <=> m \in failing[Cardinality(Earlier(F, m))]
    <3>1. Earlier(F, m) = E
      BY <1>1, <2>2, <2>5
    <3>2. m \notin E
      BY <1>1, <2>2, <2>5
    <3> QED BY <2>5, <3>1, <3>2
  <2> HIDE DEF F, Earlier
  <2>6. ASSUME NEW m \in S, Seat(m) <= k + 1
        PROVE  m \in F <=> m \in failing[Cardinality(Earlier(F, m))]
    BY <1>1, <2>4, <2>5, <2>6
  <2>7. Past(F, k + 1)
    BY <2>3, <2>6
  <2> QED BY <2>7
<1> HIDE DEF T
<1>4. n \in T
  BY <1>1, <1>2, <1>3, SetInduction
<1>5. PICK E : Past(E, n)
  BY <1>4 DEF T
<1>6. E \in SUBSET S /\ \A m \in S : m \in E <=> m \in failing[Cardinality(Earlier(E, m))]
  BY <1>1, <1>5
<1> QED
  BY <1>6 DEF EjectedFrom

\* Who is ejected is a member, and a counted one.
LEMMA EjectedAreMembers ==
    ASSUME RosterInv
    PROVE  /\ InDefault \subseteq Members /\ Cardinality(InDefault) \in Nat
           /\ Defaulters \subseteq Missing /\ Cardinality(Defaulters) \in Nat
<1>1. Missing \subseteq Members /\ Members \subseteq Addr
  BY DEF Missing, Active, Members
<1>2. InDefault \subseteq Members
  BY EjectedFromIs DEF InDefault, RosterInv
<1>3. Defaulters \subseteq Missing
  BY <1>1, EjectedFromIs DEF Defaulters, RosterInv
<1> QED
  BY <1>1, <1>2, <1>3, CountType

---------------------------------------------------------------------------
(* The roster *)

\* The order a start gives the circle: the one chosen at creation, or one that
\* names the members of the list, each once.
LEMMA GeneratedOrder ==
    ASSUME NEW list \in Seq(Addr), IsInjective(list), GeneratePayoutOrder(list)
    PROVE  \/ payout_order_list # None /\ payout_order_list' = payout_order_list
           \/ /\ payout_order_list = None
              /\ payout_order_list' \in Seq(Addr) /\ IsInjective(payout_order_list')
              /\ ToSet(payout_order_list') = ToSet(list)
<1>1. ASSUME NEW seed \in 0..(Len(list) - 1), payout_order_list' = Shuffled(list, seed)
      PROVE  /\ payout_order_list' \in Seq(Addr) /\ IsInjective(payout_order_list')
             /\ ToSet(payout_order_list') = ToSet(list)
  BY <1>1, ShuffleKeepsTheMembers
<1> QED
  BY <1>1 DEF GeneratePayoutOrder

\* A list that gets longer by somebody who was not in it.
LEMMA AppendMember ==
    ASSUME RosterInv, NEW m \in Addr, m \notin Members
    PROVE  /\ Append(members_list, m) \in Seq(Addr) /\ IsInjective(Append(members_list, m))
           /\ Len(Append(members_list, m)) = Len(members_list) + 1
           /\ ToSet(Append(members_list, m)) = Members \cup {m}
<1>1. members_list \in Seq(Addr) /\ IsInjective(members_list) /\ m \notin ToSet(members_list)
      /\ ToSet(members_list) = Members
  BY MembersAreListed DEF RosterInv
<1> QED
  BY <1>1, AppendNames

LEMMA WithoutMembers ==
    ASSUME RosterInv, NEW S
    PROVE  /\ Without(members_list, S) \in Seq(Addr) /\ IsInjective(Without(members_list, S))
           /\ Len(Without(members_list, S)) <= max_members
           /\ Len(Without(members_list, S)) \in Nat
           /\ ToSet(Without(members_list, S)) = Members \ S
           /\ payout_order_list # None => Without(payout_order_list, S) \in Seq(Addr)
<1>1. /\ members_list \in Seq(Addr) /\ IsInjective(members_list)
      /\ Len(members_list) <= max_members /\ Len(members_list) \in Nat
      /\ ToSet(members_list) = Members
      /\ payout_order_list # None => payout_order_list \in Seq(Addr)
  BY MembersAreListed DEF RosterInv
<1>2. /\ Without(members_list, S) \in Seq(Addr) /\ IsInjective(Without(members_list, S))
      /\ Len(Without(members_list, S)) <= Len(members_list)
      /\ ToSet(Without(members_list, S)) = Members \ S
  BY <1>1, WithoutKeeps
<1>3. payout_order_list # None => Without(payout_order_list, S) \in Seq(Addr)
  BY <1>1, WithoutKeeps
<1>4. Len(Without(members_list, S)) \in Nat
  BY <1>2
<1> QED
  BY <1>1, <1>2, <1>3, <1>4, CreateCircleAccepts

LEMMA EjectKeepsRoster ==
    ASSUME RosterInv, current_cycle_index \in Nat, NEW E, EjectMembers(E)
    PROVE  RosterInv'
<1>1. BLOCKED_MEMBERS' \in [Addr -> Nat \cup {None}]
  BY DEF EjectMembers, RosterInv
<1>2. payout_order_list' # None => payout_order_list' \in Seq(Addr)
  BY WithoutMembers DEF EjectMembers
<1> QED
  BY <1>1, <1>2, WithoutMembers DEF EjectMembers, RosterInv

LEMMA RosterInvCreated == CreatedCircle => RosterInv
<1> SUFFICES ASSUME CreatedCircle  PROVE RosterInv
  OBVIOUS
<1>1. creator \in Addr /\ max_members \in Nat \ {0}
      /\ (create_order # None => create_order \in Seq(Addr))
  BY CreateCircleAccepts
<1>2. members_list = <<creator>>
  BY DEF CreatedCircle
<1>3. members_list \in Seq(Addr) /\ Len(members_list) = 1 /\ IsInjective(members_list)
  BY <1>1, <1>2 DEF IsInjective
<1> QED
  BY <1>1, <1>3 DEF CreatedCircle, RosterInv

LEMMA RosterInvNext ==
    ASSUME RosterInv, current_cycle_index \in Nat, [Next]_vars
    PROVE  RosterInv'
<1>0. Invited \subseteq Addr /\ Added \subseteq Addr /\ Blocked \subseteq Addr
  BY BoundsAreNatural
<1>same. ASSUME UNCHANGED roster  PROVE RosterInv'
  BY <1>same DEF roster, RosterInv
<1>1. ASSUME NEW m \in Addr, JoinCircle(m)  PROVE RosterInv'
  <2>1. /\ m \notin Members /\ Len(members_list) < max_members
        /\ members_list' = Append(members_list, m)
        /\ pending_members' = pending_members \ {m} /\ UNCHANGED BLOCKED_MEMBERS
        /\ \/ GeneratePayoutOrder(Append(members_list, m)) \/ UNCHANGED payout_order_list
    BY <1>1 DEF JoinCircle, StartRunning
  <2>2. /\ members_list' \in Seq(Addr) /\ IsInjective(members_list')
        /\ Len(members_list') = Len(members_list) + 1
    BY <2>1, AppendMember
  <2>3. payout_order_list' # None => payout_order_list' \in Seq(Addr)
    <3>1. CASE GeneratePayoutOrder(Append(members_list, m))
      BY <2>1, <2>2, <3>1, GeneratedOrder DEF RosterInv
    <3> QED BY <2>1, <3>1 DEF RosterInv
  <2>4. Len(members_list') <= max_members
    BY <2>1, <2>2, MembersAreListed, CreateCircleAccepts DEF RosterInv
  <2> QED BY <2>1, <2>2, <2>3, <2>4 DEF RosterInv
<1>2. ASSUME NEW m \in Addr, ExitCircle(m)  PROVE RosterInv'
  <2>1. /\ members_list' = Without(members_list, {m})
        /\ UNCHANGED <<pending_members, BLOCKED_MEMBERS>>
        /\ \/ UNCHANGED payout_order_list
           \/ payout_order_list' = IF payout_order_list = None THEN None
                                   ELSE Without(payout_order_list, {m})
    BY <1>2 DEF ExitCircle, ExitBeforeStart, ExitAfterStart
  <2> QED BY <2>1, WithoutMembers DEF RosterInv
<1>3. ASSUME NEW m \in Invited, InviteMember(m)  PROVE RosterInv'
  BY <1>0, <1>3 DEF InviteMember, RosterInv
<1>4. ASSUME NEW m \in Added, AddPrivateMember(m)  PROVE RosterInv'
  <2>1. /\ m \in Addr /\ m \notin Members /\ Len(members_list) < max_members
        /\ members_list' = Append(members_list, m)
        /\ UNCHANGED <<pending_members, payout_order_list, BLOCKED_MEMBERS>>
    BY <1>0, <1>4 DEF AddPrivateMember
  <2>2. /\ members_list' \in Seq(Addr) /\ IsInjective(members_list')
        /\ Len(members_list') = Len(members_list) + 1
    BY <2>1, AppendMember
  <2>3. Len(members_list') <= max_members
    BY <2>1, <2>2, MembersAreListed, CreateCircleAccepts DEF RosterInv
  <2> QED BY <2>1, <2>2, <2>3 DEF RosterInv
<1>5. ASSUME NEW m \in Blocked, BlockMember(m)  PROVE RosterInv'
  <2>1. BLOCKED_MEMBERS' \in [Addr -> Nat \cup {None}]
    BY <1>0, <1>5 DEF BlockMember, RosterInv
  <2> QED BY <1>5, <2>1 DEF BlockMember, RosterInv
<1>6. CASE StartCircle
  <2>1. /\ GeneratePayoutOrder(members_list)
        /\ UNCHANGED <<members_list, pending_members, BLOCKED_MEMBERS>>
    BY <1>6 DEF StartCircle, StartRunning
  <2>2. payout_order_list' # None => payout_order_list' \in Seq(Addr)
    BY <2>1, GeneratedOrder DEF RosterInv
  <2> QED BY <2>1, <2>2 DEF RosterInv
<1>7. CASE CheckAndEject
  BY <1>7, EjectKeepsRoster DEF CheckAndEject
<1>8. ASSUME NEW m \in Addr, ProcessPayout(m) \/ AdvanceRound(m)  PROVE RosterInv'
  BY <1>8, EjectKeepsRoster DEF ProcessPayout, AdvanceRound, ChargeMissing
<1>9. ASSUME NEW m \in Addr, DepositContribution(m) \/ Withdraw(m)  PROVE RosterInv'
  BY <1>9, <1>same DEF DepositContribution, Withdraw
<1>10. CASE CancelCircle \/ WithdrawPlatformFees \/ SweepDust
  BY <1>10, <1>same DEF CancelCircle, CancelBeforeStart, CancelRunning, WithdrawPlatformFees,
                        SweepDust
<1>11. ASSUME NEW x, DepositCreatorReward(x) \/ DistributeBlockedFunds(x)  PROVE RosterInv'
  BY <1>11, <1>same DEF DepositCreatorReward, DistributeBlockedFunds
<1>12. CASE PauseCircle \/ UnpauseCircle \/ EmergencyStop \/ Tick \/ UNCHANGED vars
  BY <1>12, <1>same DEF PauseCircle, UnpauseCircle, EmergencyStop, SwitchStatus, Tick, vars
<1> QED
  BY <1>1, <1>2, <1>3, <1>4, <1>5, <1>6, <1>7, <1>8, <1>9, <1>10, <1>11, <1>12 DEF Next

---------------------------------------------------------------------------
(* The snapshot at the start and the limit on missed rounds *)

TermsInv ==
    /\ members_at_start \in (0..max_members) \cup {None}
    /\ max_missed_payments_allowed \in Nat \ {0}

\* The limit is positive, for however few members remain: nobody is ejected
\* for having missed nothing.
LEMMA LimitIsPositive ==
    ASSUME NEW start \in Nat, NEW remaining \in Int, NEW rounds \in Int
    PROVE  cap_max_missed_by_rounds(
               compute_max_missed_scaled(exit_penalty_percent, late_fee_percent, start, remaining),
               rounds) \in Nat \ {0}
<1> DEFINE base   == compute_max_missed_base(exit_penalty_percent, late_fee_percent)
           scaled == compute_max_missed_scaled(exit_penalty_percent, late_fee_percent, start,
                                               remaining)
<1>1. base \in Nat \ {0}
  <2>1. /\ exit_penalty_percent \in Nat /\ late_fee_percent \in Nat \ {0}
        /\ exit_penalty_percent + late_fee_percent <= BasisPoints
    BY CreateCircleAccepts
  <2>2. compute_max_missed_base(exit_penalty_percent, late_fee_percent) \in Nat \ {0}
    BY <2>1, LimitCoversTheLock
  <2> QED BY <2>2
<1>2. CASE start = 0
  <2>1. scaled = base
    BY <1>2 DEF compute_max_missed_scaled
  <2> HIDE DEF base, scaled
  <2>2. cap_max_missed_by_rounds(scaled, rounds) \in Nat \ {0}
    BY <1>1, <2>1 DEF cap_max_missed_by_rounds, AtMost, AtLeast
  <2> QED BY <2>2 DEF scaled
<1>3. CASE start \in Nat \ {0}
  <2>1. scaled = AtLeast((base * remaining) \div start, 1)
    BY <1>3 DEF compute_max_missed_scaled
  <2> HIDE DEF base
  <2>2. base * remaining \in Int
    BY <1>1
  <2>3. (base * remaining) \div start \in Int
    BY <1>3, <2>2
  <2>4. scaled \in Nat \ {0}
    BY <2>1, <2>3 DEF AtLeast
  <2> HIDE DEF scaled
  <2>5. cap_max_missed_by_rounds(scaled, rounds) \in Nat \ {0}
    BY <2>4 DEF cap_max_missed_by_rounds, AtMost, AtLeast
  <2> QED BY <2>5 DEF scaled
<1> QED
  BY <1>2, <1>3

LEMMA RoundsType ==
    /\ max_members * total_cycles \in Nat \ {0}
    /\ \A n \in 0..max_members :
           n * total_cycles \in Nat /\ n * total_cycles <= max_members * total_cycles
BY CreateCircleAccepts

LEMMA TotalRoundsType ==
    ASSUME TermsInv
    PROVE  TotalRounds \in Nat /\ TotalRounds <= max_members * total_cycles
<1>1. max_members \in 0..max_members
  BY CreateCircleAccepts
<1> QED
  BY <1>1, RoundsType DEF TermsInv, TotalRounds

LEMMA MaxMissedType ==
    ASSUME TermsInv, NEW remaining \in Int, NEW rounds \in Int
    PROVE  MaxMissed(remaining, rounds) \in Nat \ {0}
<1>1. (IF members_at_start = None THEN 0 ELSE members_at_start) \in Nat
  BY CreateCircleAccepts DEF TermsInv
<1> QED
  BY <1>1, LimitIsPositive DEF MaxMissed

LEMMA EjectKeepsTerms ==
    ASSUME TermsInv, RosterInv, NEW E, Cardinality(E) \in Nat, EjectMembers(E)
    PROVE  TermsInv'
<1>1. Len(members_list) - Cardinality(E) \in Int /\ TotalRounds \in Int
  BY MembersAreListed, TotalRoundsType DEF RosterInv
<1>2. LimitAfter(Cardinality(E)) \in Nat \ {0}
  BY <1>1, MaxMissedType DEF LimitAfter, TermsInv
<1> QED
  BY <1>2 DEF EjectMembers, TermsInv

LEMMA StartKeepsTerms ==
    ASSUME NEW list \in Seq(Addr), Len(list) <= max_members, StartRunning(list)
    PROVE  TermsInv'
<1>1. Len(list) \in 0..max_members
  BY CreateCircleAccepts
<1>2. Len(list) * total_cycles \in Int
  BY <1>1, RoundsType
<1>3. cap_max_missed_by_rounds(
          compute_max_missed_scaled(exit_penalty_percent, late_fee_percent, Len(list), Len(list)),
          Len(list) * total_cycles) \in Nat \ {0}
  <2>1. Len(list) \in Nat /\ Len(list) \in Int
    BY <1>1, CreateCircleAccepts
  <2> QED BY <1>2, <2>1, LimitIsPositive
<1>4. max_missed_payments_allowed' \in Nat \ {0}
  BY <1>3 DEF StartRunning
<1> QED
  BY <1>1, <1>4 DEF StartRunning, TermsInv

LEMMA TermsInvCreated == CreatedCircle => TermsInv
<1> SUFFICES ASSUME CreatedCircle  PROVE TermsInv
  OBVIOUS
<1>1. max_members * total_cycles \in Int
  BY RoundsType
<1>2. cap_max_missed_by_rounds(
          compute_max_missed_scaled(exit_penalty_percent, late_fee_percent, 0, 0),
          max_members * total_cycles) \in Nat \ {0}
  BY <1>1, LimitIsPositive
<1>3. max_missed_payments_allowed \in Nat \ {0}
  BY <1>2 DEF CreatedCircle, compute_max_missed_scaled
<1> QED
  BY <1>3 DEF CreatedCircle, TermsInv

LEMMA TermsInvNext ==
    ASSUME TermsInv, RosterInv, [Next]_vars
    PROVE  TermsInv'
<1>same. ASSUME UNCHANGED terms  PROVE TermsInv'
  BY <1>same DEF terms, TermsInv
<1>1. ASSUME NEW m \in Addr, JoinCircle(m)  PROVE TermsInv'
  <2>1. CASE StartRunning(Append(members_list, m))
    <3>1. /\ Append(members_list, m) \in Seq(Addr)
          /\ Len(Append(members_list, m)) = Len(members_list) + 1
      BY <1>1, AppendMember DEF JoinCircle
    <3>2. Len(Append(members_list, m)) <= max_members
      BY <1>1, <3>1, MembersAreListed, CreateCircleAccepts DEF JoinCircle, RosterInv
    <3> QED BY <2>1, <3>1, <3>2, StartKeepsTerms
  <2> QED BY <1>1, <1>same, <2>1 DEF JoinCircle
<1>2. ASSUME NEW m \in Addr, ExitCircle(m)  PROVE TermsInv'
  <2>1. CASE ExitAfterStart(m)
    <3>1. Len(members_list) - 1 \in Int /\ max_members * total_cycles \in Int
      BY MembersAreListed, RoundsType DEF RosterInv
    <3>2. max_missed_payments_allowed' \in Nat \ {0} /\ UNCHANGED members_at_start
      BY <2>1, <3>1, MaxMissedType DEF ExitAfterStart
    <3> QED BY <3>2 DEF TermsInv
  <2> QED BY <1>2, <1>same, <2>1 DEF ExitCircle, ExitBeforeStart
<1>3. CASE StartCircle
  BY <1>3, StartKeepsTerms DEF StartCircle, RosterInv
<1>4. CASE CheckAndEject
  BY <1>4, EjectedAreMembers, EjectKeepsTerms DEF CheckAndEject
<1>5. ASSUME NEW m \in Addr, ProcessPayout(m) \/ AdvanceRound(m)  PROVE TermsInv'
  BY <1>5, EjectedAreMembers, EjectKeepsTerms DEF ProcessPayout, AdvanceRound, ChargeMissing
<1>6. ASSUME NEW m \in Addr, DepositContribution(m) \/ Withdraw(m)  PROVE TermsInv'
  BY <1>6, <1>same DEF DepositContribution, Withdraw
<1>7. ASSUME NEW m, InviteMember(m) \/ AddPrivateMember(m) \/ BlockMember(m)  PROVE TermsInv'
  BY <1>7, <1>same DEF InviteMember, AddPrivateMember, BlockMember
<1>8. CASE CancelCircle \/ WithdrawPlatformFees \/ SweepDust
  BY <1>8, <1>same DEF CancelCircle, CancelBeforeStart, CancelRunning, WithdrawPlatformFees,
                       SweepDust
<1>9. ASSUME NEW x, DepositCreatorReward(x) \/ DistributeBlockedFunds(x)  PROVE TermsInv'
  BY <1>9, <1>same DEF DepositCreatorReward, DistributeBlockedFunds
<1>10. CASE PauseCircle \/ UnpauseCircle \/ EmergencyStop \/ Tick \/ UNCHANGED vars
  BY <1>10, <1>same DEF PauseCircle, UnpauseCircle, EmergencyStop, SwitchStatus, Tick, vars
<1> QED
  BY <1>1, <1>2, <1>3, <1>4, <1>5, <1>6, <1>7, <1>8, <1>9, <1>10 DEF Next

---------------------------------------------------------------------------
(* The schedule and the records *)

ScheduleInv ==
    /\ circle_status \in Status
    /\ current_cycle_index \in Rounds
    /\ cycles_completed \in Nat
    /\ elapsed \in (0..MaxElapsed) \cup {None}
    /\ PAYOUTS \subseteq Rounds

RecordsInv ==
    /\ DEPOSITS \in [Addr -> SUBSET Rounds]
    /\ MEMBER_LAST_DEPOSITED_CYCLE \in [Addr -> Rounds \cup {None}]
    /\ last_missed_cycle \in [Addr -> Rounds \cup {None}]

\* Both guards on the last round stop within the configured rounds, although one
\* counts max_members and the other the members at the start.
LEMMA RoundStaysWithin ==
    ASSUME TermsInv, ScheduleInv, RoundsLeft \/ ~IsLastRound
    PROVE  current_cycle_index + 1 \in Rounds
<1>1. current_cycle_index \in Nat /\ max_members * total_cycles \in Nat
  BY RoundsType DEF ScheduleInv, Rounds
<1>2. current_cycle_index < max_members * total_cycles
  BY <1>1, TotalRoundsType DEF RoundsLeft, IsLastRound
<1> QED
  BY <1>1, <1>2 DEF Rounds

LEMMA NextRoundKeeps ==
    ASSUME TermsInv, ScheduleInv, RoundsLeft \/ ~IsLastRound, RoundOver, NextRound
    PROVE  /\ current_cycle_index' \in Rounds
           /\ elapsed' \in (0..MaxElapsed) \cup {None}
<1>1. CycleDuration \in Nat /\ MaxElapsed \in Nat /\ None \notin Nat
  BY CreateCircleAccepts, BoundsAreNatural
<1>2. CASE elapsed = None
  BY <1>2, RoundStaysWithin DEF NextRound
<1>3. CASE elapsed # None
  <2>1. elapsed \in 0..MaxElapsed /\ elapsed >= CycleDuration
    BY <1>3 DEF RoundOver, ScheduleInv
  <2> QED BY <1>1, <1>3, <2>1, RoundStaysWithin DEF NextRound
<1> QED
  BY <1>2, <1>3

LEMMA StartKeepsSchedule ==
    ASSUME ScheduleInv, NEW list, StartRunning(list)
    PROVE  ScheduleInv'
<1>1. 1 \in Rounds /\ 0 \in 0..MaxElapsed
  BY RoundsType, BoundsAreNatural DEF Rounds
<1> QED
  BY <1>1 DEF StartRunning, ScheduleInv, Status

LEMMA ScheduleInvCreated == CreatedCircle => ScheduleInv /\ RecordsInv
<1>1. 0 \in Rounds
  BY RoundsType DEF Rounds
<1> QED
  BY <1>1 DEF CreatedCircle, ScheduleInv, RecordsInv, Status

LEMMA ScheduleInvNext ==
    ASSUME TermsInv, ScheduleInv, [Next]_vars
    PROVE  ScheduleInv'
<1>same. ASSUME UNCHANGED schedule, circle_status' \in Status  PROVE ScheduleInv'
  BY <1>same DEF schedule, ScheduleInv
<1>0. circle_status \in Status
  BY DEF ScheduleInv
<1>1. ASSUME NEW m \in Addr, JoinCircle(m)  PROVE ScheduleInv'
  <2>1. CASE StartRunning(Append(members_list, m))
    BY <2>1, StartKeepsSchedule
  <2>2. CASE circle_status' \in {"Full", "Open"} /\ UNCHANGED schedule
    BY <2>2, <1>same DEF Status
  <2> QED BY <1>1, <2>1, <2>2 DEF JoinCircle
<1>2. ASSUME NEW m \in Addr, ExitCircle(m)  PROVE ScheduleInv'
  <2>1. CASE ExitBeforeStart(m)
    <3>1. UNCHANGED schedule /\ circle_status' \in {circle_status, "Cancelled", "Draft", "Open"}
      BY <2>1 DEF ExitBeforeStart
    <3> QED BY <1>0, <1>same, <3>1 DEF Status
  <2>2. CASE ExitAfterStart(m)
    BY <1>0, <1>same, <2>2 DEF ExitAfterStart
  <2> QED BY <1>2, <2>1, <2>2 DEF ExitCircle
<1>3. ASSUME NEW m \in Addr, ProcessPayout(m)  PROVE ScheduleInv'
  <2>1. /\ PAYOUTS' = PAYOUTS \cup {current_cycle_index}
        /\ cycles_completed' = cycles_completed + 1
        /\ circle_status = "Running" /\ RoundOver
        /\ IF IsLastRound THEN FinalizeCircle ELSE PayRound
    BY <1>3 DEF ProcessPayout
  <2>2. PAYOUTS' \subseteq Rounds /\ cycles_completed' \in Nat
    BY <2>1 DEF ScheduleInv
  <2>3. CASE FinalizeCircle
    BY <2>2, <2>3 DEF FinalizeCircle, ScheduleInv, Status
  <2>4. CASE ~IsLastRound /\ PayRound
    <3>1. /\ current_cycle_index' \in Rounds
          /\ elapsed' \in (0..MaxElapsed) \cup {None}
      BY <2>1, <2>4, NextRoundKeeps DEF PayRound
    <3> QED BY <1>0, <2>2, <2>4, <3>1 DEF PayRound, ScheduleInv
  <2> QED BY <2>1, <2>3, <2>4
<1>4. ASSUME NEW m \in Addr, AdvanceRound(m)  PROVE ScheduleInv'
  <2>1. /\ RoundsLeft /\ RoundOver /\ NextRound
        /\ UNCHANGED <<circle_status, cycles_completed, PAYOUTS>>
    BY <1>4 DEF AdvanceRound
  <2>2. /\ current_cycle_index' \in Rounds
        /\ elapsed' \in (0..MaxElapsed) \cup {None}
    BY <2>1, NextRoundKeeps
  <2> QED BY <2>1, <2>2 DEF ScheduleInv
<1>5. CASE StartCircle
  BY <1>5, StartKeepsSchedule DEF StartCircle
<1>6. ASSUME NEW m \in Addr, DepositContribution(m) \/ Withdraw(m)  PROVE ScheduleInv'
  BY <1>0, <1>6, <1>same DEF DepositContribution, Withdraw, Status
<1>7. ASSUME NEW m, InviteMember(m) \/ AddPrivateMember(m) \/ BlockMember(m)  PROVE ScheduleInv'
  BY <1>0, <1>7, <1>same DEF InviteMember, AddPrivateMember, BlockMember, Status
<1>8. CASE CancelCircle \/ CheckAndEject \/ WithdrawPlatformFees \/ SweepDust
  BY <1>0, <1>8, <1>same DEF CancelCircle, CancelBeforeStart, CancelRunning, CheckAndEject,
                             WithdrawPlatformFees, SweepDust, Status
<1>9. ASSUME NEW x, DepositCreatorReward(x) \/ DistributeBlockedFunds(x)  PROVE ScheduleInv'
  BY <1>0, <1>9, <1>same DEF DepositCreatorReward, DistributeBlockedFunds
<1>10. CASE PauseCircle \/ UnpauseCircle \/ EmergencyStop \/ UNCHANGED vars
  BY <1>0, <1>10, <1>same DEF PauseCircle, UnpauseCircle, EmergencyStop, SwitchStatus, Status, vars
<1>11. CASE Tick
  <2>1. elapsed' \in (0..MaxElapsed) \cup {None}
    BY <1>11, BoundsAreNatural DEF Tick, ScheduleInv
  <2> QED BY <1>11, <2>1 DEF Tick, ScheduleInv
<1> QED
  BY <1>1, <1>2, <1>3, <1>4, <1>5, <1>6, <1>7, <1>8, <1>9, <1>10, <1>11 DEF Next

LEMMA RecordsInvNext ==
    ASSUME RecordsInv, ScheduleInv, [Next]_vars
    PROVE  RecordsInv'
<1>0. current_cycle_index \in Rounds
  BY DEF ScheduleInv
<1>same. ASSUME UNCHANGED <<deposits, last_missed_cycle>>  PROVE RecordsInv'
  BY <1>same DEF deposits, RecordsInv
<1>1. ASSUME NEW m \in Addr, DepositContribution(m)  PROVE RecordsInv'
  <2>1. DEPOSITS' \in [Addr -> SUBSET Rounds]
    BY <1>0, <1>1 DEF DepositContribution, RecordsInv
  <2>2. MEMBER_LAST_DEPOSITED_CYCLE' \in [Addr -> Rounds \cup {None}]
    BY <1>0, <1>1 DEF DepositContribution, RecordsInv
  <2>3. last_missed_cycle' \in [Addr -> Rounds \cup {None}]
    BY <1>1 DEF DepositContribution, ForgiveMisses, misses, RecordsInv
  <2> QED BY <2>1, <2>2, <2>3 DEF RecordsInv
<1>2. ASSUME NEW m \in Addr, ProcessPayout(m) \/ AdvanceRound(m)  PROVE RecordsInv'
  <2>1. ChargeMissing
    BY <1>2 DEF ProcessPayout, AdvanceRound
  <2>2. DepositsAfter \in [Addr -> SUBSET Rounds]
    BY <1>0 DEF DepositsAfter, RecordsInv
  <2>3. last_missed_cycle' \in [Addr -> Rounds \cup {None}]
    BY <1>0, <2>1 DEF ChargeMissing, RecordsInv
  <2> QED BY <2>1, <2>2, <2>3 DEF ChargeMissing, RecordsInv
<1>3. CASE CheckAndEject
  <2>1. last_missed_cycle' \in [Addr -> Rounds \cup {None}] /\ UNCHANGED deposits
    BY <1>0, <1>3 DEF CheckAndEject, RecordsInv
  <2> QED BY <2>1 DEF deposits, RecordsInv
<1>4. ASSUME NEW m \in Addr, JoinCircle(m) \/ ExitCircle(m) \/ Withdraw(m)  PROVE RecordsInv'
  BY <1>4, <1>same DEF JoinCircle, ExitCircle, ExitBeforeStart, ExitAfterStart, Withdraw, misses
<1>5. ASSUME NEW m, InviteMember(m) \/ AddPrivateMember(m) \/ BlockMember(m)  PROVE RecordsInv'
  BY <1>5, <1>same DEF InviteMember, AddPrivateMember, BlockMember, misses
<1>6. CASE StartCircle \/ CancelCircle \/ WithdrawPlatformFees \/ SweepDust
  BY <1>6, <1>same DEF StartCircle, CancelCircle, CancelBeforeStart, CancelRunning,
                       WithdrawPlatformFees, SweepDust, misses
<1>7. ASSUME NEW x, DepositCreatorReward(x) \/ DistributeBlockedFunds(x)  PROVE RecordsInv'
  BY <1>7, <1>same DEF DepositCreatorReward, DistributeBlockedFunds, misses
<1>8. CASE PauseCircle \/ UnpauseCircle \/ EmergencyStop \/ Tick \/ UNCHANGED vars
  BY <1>8, <1>same DEF PauseCircle, UnpauseCircle, EmergencyStop, SwitchStatus, Tick, vars, misses
<1> QED
  BY <1>1, <1>2, <1>3, <1>4, <1>5, <1>6, <1>7, <1>8 DEF Next

---------------------------------------------------------------------------
(* The type invariant *)

TypeInv == LedgerInv /\ RosterInv /\ TermsInv /\ ScheduleInv /\ RecordsInv

LEMMA TypeInvCreated == CreatedCircle /\ bank \in Nat => TypeInv
BY LedgerInvCreated, RosterInvCreated, TermsInvCreated, ScheduleInvCreated DEF TypeInv

LEMMA TypeInvInit == Init => TypeInv
BY InitIsCreated, TypeInvCreated

LEMMA TypeInvNext == TypeInv /\ [Next]_vars => TypeInv'
BY LedgerInvNext, RosterInvNext, TermsInvNext, ScheduleInvNext, RecordsInvNext
   DEF TypeInv, LedgerInv

LEMMA TypeInvImplies == TypeInv => TypeOK
<1>1. RosterInv => Cardinality(Members) = Len(members_list)
  BY MembersAreListed, LengthIsCount DEF RosterInv
<1> QED
  BY <1>1 DEF TypeInv, LedgerInv, RosterInv, TermsInv, ScheduleInv, RecordsInv, TypeOK

\* The type invariant: the round never passes the configured rounds and the
\* roster never repeats a member or exceeds max_members, whoever is added,
\* ejected or leaves, and whatever the emergency stop brings back.
THEOREM CircleIsTyped == Spec => []TypeOK
BY TypeInvInit, TypeInvNext, TypeInvImplies, PTL DEF Spec

---------------------------------------------------------------------------
(* Payouts are funded *)

LEMMA PayoutsFundedNext ==
    ASSUME TypeInv, [Next]_vars, NEW r \in PAYOUTS' \ PAYOUTS, NEW m \in ToSet(members_list'),
           BLOCKED_MEMBERS'[m] # None => BLOCKED_MEMBERS'[m] > r
    PROVE  r \in DEPOSITS'[m]
<1>same. ASSUME UNCHANGED PAYOUTS  PROVE FALSE
  BY <1>same
<1>1. ASSUME NEW x \in Addr, ProcessPayout(x)  PROVE r \in DEPOSITS'[m]
  <2>1. r = current_cycle_index
    BY <1>1 DEF ProcessPayout
  <2>2. members_list' = Without(members_list, Defaulters)
    BY <1>1 DEF ProcessPayout, ChargeMissing, EjectMembers
  <2>3. m \in Members \ Defaulters
    BY <2>2, WithoutMembers DEF TypeInv
  <2>4. m \in Addr /\ BLOCKED_MEMBERS'[m] = BLOCKED_MEMBERS[m]
    BY <1>1, <2>3 DEF ProcessPayout, ChargeMissing, EjectMembers, Members
  <2>5. m \in Payees
    BY <2>1, <2>3, <2>4 DEF Payees, Active, Unblocked
  <2> QED BY <1>1, <2>1, <2>5 DEF ProcessPayout, ChargeMissing, AllHaveDeposited
<1>2. ASSUME NEW x \in Addr, JoinCircle(x) \/ ExitCircle(x)  PROVE FALSE
  BY <1>2, <1>same DEF JoinCircle, StartRunning, ExitCircle, ExitBeforeStart, ExitAfterStart,
                       schedule
<1>3. ASSUME NEW x \in Addr, DepositContribution(x) \/ AdvanceRound(x) \/ Withdraw(x)
      PROVE  FALSE
  BY <1>3, <1>same DEF DepositContribution, AdvanceRound, Withdraw, schedule
<1>4. ASSUME NEW x, InviteMember(x) \/ AddPrivateMember(x) \/ BlockMember(x)  PROVE FALSE
  BY <1>4, <1>same DEF InviteMember, AddPrivateMember, BlockMember, schedule
<1>5. CASE StartCircle \/ CancelCircle
  BY <1>5, <1>same DEF StartCircle, StartRunning, CancelCircle, CancelBeforeStart, CancelRunning,
                       schedule
<1>6. CASE CheckAndEject \/ WithdrawPlatformFees \/ SweepDust
  BY <1>6, <1>same DEF CheckAndEject, WithdrawPlatformFees, SweepDust, schedule
<1>7. ASSUME NEW x, DepositCreatorReward(x) \/ DistributeBlockedFunds(x)  PROVE FALSE
  BY <1>7, <1>same DEF DepositCreatorReward, DistributeBlockedFunds, schedule
<1>8. CASE PauseCircle \/ UnpauseCircle \/ EmergencyStop \/ Tick \/ UNCHANGED vars
  BY <1>8, <1>same DEF PauseCircle, UnpauseCircle, EmergencyStop, SwitchStatus, Tick, vars,
                       schedule
<1> QED
  BY <1>1, <1>2, <1>3, <1>4, <1>5, <1>6, <1>7, <1>8 DEF Next

\* No payout counts a contribution that was not made: every member that is
\* listed and not blocked after the call has a record for the round it pays, in
\* whatever order the call ejected the defaulters and drew the locks.
THEOREM EveryPayoutIsFunded == Spec => PayoutsAreFullyFunded
<1> DEFINE Funded == \A r \in PAYOUTS' \ PAYOUTS : \A m \in ToSet(members_list') :
                         (BLOCKED_MEMBERS'[m] # None => BLOCKED_MEMBERS'[m] > r) => r \in DEPOSITS'[m]
<1>1. TypeInv /\ [Next]_vars => Funded
  BY PayoutsFundedNext
<1>2. PayoutsAreFullyFunded <=> [][Funded]_vars
  BY DEF PayoutsAreFullyFunded
<1> HIDE DEF Funded
<1> QED
  BY <1>1, <1>2, TypeInvInit, TypeInvNext, PTL DEF Spec

---------------------------------------------------------------------------
(* The order follows the roster *)

\* A payout order given at creation names nobody twice, and no circle comes
\* back to life.
OrderNamesOnce ==
    (create_order # None => IsInjective(create_order)) /\ Added = {} /\ ~emergency_stop_enabled

\* The order is generated at the start.
OrderIsGenerated == create_order = None /\ Added = {} /\ ~emergency_stop_enabled

\* Whenever the circle can start it has the order of its creation, so a start
\* can never take over an order of a roster that has changed since.  An order
\* given at creation has max_members names: when all of them joined it names
\* every member, and whoever leaves the list later leaves it too.
OrderInv ==
    /\ circle_status \in {"Draft", "Open", "Full"} => payout_order_list = create_order
    /\ circle_status \in {"Running", "Paused"} /\ payout_order_list # None =>
           /\ IsInjective(payout_order_list)
           /\ create_order = None \/ ToSet(payout_order_list) \subseteq Members =>
                  ToSet(payout_order_list) = Members

LEMMA MembersAreNamesNext ==
    ASSUME NEW list \in Seq(Addr), members_list' = list
    PROVE  Members' = ToSet(list)
<1>1. DOMAIN list = 1..Len(list) /\ \A i \in DOMAIN list : list[i] \in Addr
  OBVIOUS
<1> QED BY <1>1 DEF Members, ToSet

LEMMA StartOrders ==
    ASSUME OrderNamesOnce, payout_order_list = create_order,
           NEW list \in Seq(Addr), IsInjective(list), Len(list) <= max_members,
           StartRunning(list), members_list' = list
    PROVE  OrderInv'
<1>1. Members' = ToSet(list)
  BY MembersAreNamesNext
<1>2. CASE create_order = None
  <2>1. IsInjective(payout_order_list') /\ ToSet(payout_order_list') = ToSet(list)
    BY <1>2, GeneratedOrder DEF StartRunning
  <2> QED BY <1>1, <2>1 DEF StartRunning, OrderInv
<1>3. CASE create_order # None
  <2>1. /\ create_order \in Seq(Addr) /\ IsInjective(create_order)
        /\ Len(create_order) = max_members /\ max_members \in Nat
    BY <1>3, CreateCircleAccepts DEF OrderNamesOnce
  <2>2. payout_order_list' = create_order /\ circle_status' = "Running"
    BY <1>3 DEF StartRunning, GeneratePayoutOrder
  <2>3. /\ IsFiniteSet(ToSet(list)) /\ Cardinality(ToSet(list)) <= max_members
        /\ Cardinality(ToSet(create_order)) = max_members
    BY <2>1, LengthIsCount
  <2>4. ASSUME ToSet(create_order) \subseteq ToSet(list)
        PROVE  ToSet(create_order) = ToSet(list)
    <3>1. /\ Cardinality(ToSet(create_order)) <= Cardinality(ToSet(list))
          /\ Cardinality(ToSet(create_order)) = Cardinality(ToSet(list)) =>
                 ToSet(create_order) = ToSet(list)
      BY <2>3, <2>4, FS_Subset
    <3>2. Cardinality(ToSet(list)) \in Nat
      BY <2>3, FS_CardinalityType
    <3> QED BY <2>1, <2>3, <3>1, <3>2
  <2> QED BY <1>1, <1>3, <2>1, <2>2, <2>4 DEF OrderInv
<1> QED
  BY <1>2, <1>3

\* Whoever leaves the list leaves the order in the same call.
LEMMA LeavingKeepsOrder ==
    ASSUME RosterInv, OrderInv, circle_status \in {"Running", "Paused"},
           NEW S, S \subseteq Members,
           members_list' = Without(members_list, S),
           payout_order_list' = IF payout_order_list = None THEN None
                                ELSE Without(payout_order_list, S),
           circle_status' \notin {"Draft", "Open", "Full"}
    PROVE  OrderInv'
<1>1. Members' = Members \ S
  <2>1. Without(members_list, S) \in Seq(Addr) /\ ToSet(Without(members_list, S)) = Members \ S
    BY WithoutMembers
  <2> QED BY <2>1, MembersAreNamesNext
<1>2. CASE payout_order_list = None
  BY <1>2 DEF OrderInv
<1>3. CASE payout_order_list # None
  <2> DEFINE names == ToSet(payout_order_list)
  <2>1. /\ payout_order_list \in Seq(Addr) /\ IsInjective(payout_order_list)
        /\ create_order = None \/ names \subseteq Members => names = Members
    BY <1>3 DEF RosterInv, OrderInv
  <2>2. /\ ToSet(payout_order_list') = names \ S
        /\ IsInjective(payout_order_list')
    BY <1>3, <2>1, WithoutKeeps
  <2>3. create_order = None \/ names \ S \subseteq Members \ S => names \ S = Members \ S
    BY <2>1
  <2> QED BY <1>1, <2>2, <2>3 DEF OrderInv
<1> QED
  BY <1>2, <1>3

LEMMA OrderInvNext ==
    ASSUME OrderNamesOnce, RosterInv, OrderInv, [Next]_vars
    PROVE  OrderInv'
<1>same. ASSUME UNCHANGED <<members_list, payout_order_list>>,
                \/ circle_status' = circle_status
                \/ circle_status \in {"Running", "Paused"} /\ circle_status' \in {"Running", "Paused"}
                \/ circle_status' \notin {"Draft", "Open", "Full", "Running", "Paused"}
         PROVE  OrderInv'
  BY <1>same DEF OrderInv, Members
<1>1. ASSUME NEW m \in Addr, JoinCircle(m)  PROVE OrderInv'
  <2>1. /\ payout_order_list = create_order /\ m \notin Members
        /\ members_list' = Append(members_list, m) /\ Len(members_list) < max_members
    BY <1>1 DEF JoinCircle, OrderInv
  <2>2. CASE StartRunning(Append(members_list, m))
    <3>1. /\ Append(members_list, m) \in Seq(Addr) /\ IsInjective(Append(members_list, m))
          /\ Len(Append(members_list, m)) <= max_members
      BY <2>1, AppendMember, CreateCircleAccepts DEF RosterInv
    <3> QED BY <2>1, <2>2, <3>1, StartOrders
  <2>3. CASE circle_status' \in {"Full", "Open"} /\ UNCHANGED payout_order_list
    BY <2>1, <2>3 DEF OrderInv
  <2> QED BY <1>1, <2>2, <2>3 DEF JoinCircle
<1>2. ASSUME NEW m \in Addr, ExitBeforeStart(m)  PROVE OrderInv'
  <2>1. /\ circle_status \notin {"Running", "Paused"} /\ UNCHANGED payout_order_list
        /\ \/ circle_status' = circle_status \/ circle_status' = "Cancelled"
           \/ circle_status \in {"Open", "Full"}
    BY <1>2 DEF ExitBeforeStart
  <2>2. circle_status' \notin {"Running", "Paused"}
    BY <1>2, <2>1 DEF ExitBeforeStart
  <2> QED BY <2>1, <2>2 DEF OrderInv
<1>3. ASSUME NEW m \in Addr, ExitAfterStart(m)  PROVE OrderInv'
  BY <1>3, LeavingKeepsOrder DEF ExitAfterStart
<1>4. CASE StartCircle
  <2>1. payout_order_list = create_order /\ UNCHANGED members_list /\ StartRunning(members_list)
    BY <1>4 DEF StartCircle, OrderInv
  <2> QED BY <2>1, StartOrders DEF RosterInv
<1>5. CASE CheckAndEject
  BY <1>5, EjectedAreMembers, LeavingKeepsOrder DEF CheckAndEject, EjectMembers
<1>6. ASSUME NEW m \in Addr, ProcessPayout(m) \/ AdvanceRound(m)  PROVE OrderInv'
  <2>1. circle_status = "Running" /\ EjectMembers(Defaulters)
        /\ circle_status' \in {"Running", "Finalizing"}
    BY <1>6 DEF ProcessPayout, AdvanceRound, ChargeMissing, FinalizeCircle, PayRound
  <2>2. Defaulters \subseteq Members
    BY EjectedAreMembers DEF Missing, Active
  <2> QED BY <2>1, <2>2, LeavingKeepsOrder DEF EjectMembers
<1>7. ASSUME NEW m \in Addr, DepositContribution(m) \/ Withdraw(m)  PROVE OrderInv'
  BY <1>7, <1>same DEF DepositContribution, Withdraw, roster
<1>8. ASSUME NEW m, InviteMember(m) \/ BlockMember(m)  PROVE OrderInv'
  BY <1>8, <1>same DEF InviteMember, BlockMember
<1>9. CASE CancelCircle \/ WithdrawPlatformFees \/ SweepDust
  BY <1>9, <1>same DEF CancelCircle, CancelBeforeStart, CancelRunning, WithdrawPlatformFees,
                       SweepDust, roster
<1>10. ASSUME NEW x, DepositCreatorReward(x) \/ DistributeBlockedFunds(x)  PROVE OrderInv'
  BY <1>10, <1>same DEF DepositCreatorReward, DistributeBlockedFunds, roster
<1>11. CASE PauseCircle \/ UnpauseCircle \/ Tick \/ UNCHANGED vars
  BY <1>11, <1>same DEF PauseCircle, UnpauseCircle, SwitchStatus, Tick, vars, roster
<1>12. ~EmergencyStop /\ ~\E m \in Added : AddPrivateMember(m)
  BY DEF OrderNamesOnce, EmergencyStop
<1> QED
  BY <1>1, <1>2, <1>3, <1>4, <1>5, <1>6, <1>7, <1>8, <1>9, <1>10, <1>11, <1>12
     DEF Next, ExitCircle

LEMMA OrderInvAlways ==
    ASSUME OrderNamesOnce
    PROVE  Spec => [](TypeInv /\ OrderInv)
<1>1. Init => OrderInv
  BY DEF Init, CreatedCircle, OrderInv
<1>2. TypeInv /\ OrderInv /\ [Next]_vars => OrderInv'
  BY OrderInvNext DEF TypeInv
<1> QED
  BY <1>1, <1>2, TypeInvInit, TypeInvNext, PTL DEF Spec

\* The payout order of a running circle names its members, each once, however
\* many have left, were ejected or came and went before the start.
THEOREM OrderFollowsRoster ==
    ASSUME OrderIsGenerated
    PROVE  Spec => []OrderMatchesRoster
<1>1. TypeInv /\ OrderInv => OrderMatchesRoster
  <2>1. ASSUME RosterInv, payout_order_list # None, IsInjective(payout_order_list),
               ToSet(payout_order_list) = Members
        PROVE  Len(payout_order_list) = Len(members_list)
    <3>1. Cardinality(ToSet(payout_order_list)) = Len(payout_order_list)
      BY <2>1, LengthIsCount DEF RosterInv
    <3>2. Cardinality(Members) = Len(members_list)
      BY <2>1, MembersAreListed, LengthIsCount DEF RosterInv
    <3> QED BY <2>1, <3>1, <3>2
  <2> QED BY <2>1 DEF TypeInv, OrderInv, OrderMatchesRoster, OrderIsGenerated
<1>2. OrderNamesOnce
  BY DEF OrderIsGenerated, OrderNamesOnce
<1> QED
  BY <1>1, <1>2, OrderInvAlways, PTL
=============================================================================
