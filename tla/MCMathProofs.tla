---------------------------- MODULE MCMathProofs ----------------------------
(***************************************************************************)
(* The properties of the grid of MCMath hold on every grid: with any step  *)
(* between two rates, any number of members and any number of rounds.      *)
(***************************************************************************)
EXTENDS MCMath, CircleMathProofs

vars == <<exit, late, active, index>>

\* Every point of the grid is an input that create_circle accepts.
GridInv ==
    /\ exit \in Nat /\ late \in Nat \ {0} /\ exit + late <= BasisPoints
    /\ active \in Nat \ {0} /\ index \in Nat

LEMMA GridInvAlways == Spec => []GridInv
<1>1. Init => GridInv
  BY GridIsPositive DEF Init, GridInv, BasisPoints
<1>2. GridInv /\ [Next]_vars => GridInv'
  <2> SUFFICES ASSUME GridInv, [Next]_vars  PROVE GridInv'
    OBVIOUS
  <2>1. Step \in Nat \ {0} /\ BasisPoints \in Nat
    BY GridIsPositive DEF BasisPoints
  <2> QED BY <2>1 DEF GridInv, Next, vars
<1> QED
  BY <1>1, <1>2, PTL DEF Spec, vars

---------------------------------------------------------------------------
\* The limit on missed rounds is what the lock covers, for all rates.
THEOREM LimitsCoverTheLock == Spec => []LimitIsWhatTheLockCovers
<1>1. GridInv => LimitIsWhatTheLockCovers
  BY LimitCoversTheLock DEF GridInv, LimitIsWhatTheLockCovers
<1> QED
  BY <1>1, GridInvAlways, PTL

\* Every seat of the payout order has its turn, in order and in every cycle,
\* for all numbers of members and rounds.
THEOREM EverySeatHasItsTurn == Spec => []EveryRoundHasItsSeat
<1>1. ASSUME GridInv  PROVE EveryRoundHasItsSeat
  <2>1. /\ round_in_cycle(index + 1, active) \in 1..active
        /\ round_in_cycle(index + 1 + active, active) = round_in_cycle(index + 1, active)
        /\ \A seat \in 1..active : \E k \in 1..active : round_in_cycle(index + k, active) = seat
    BY <1>1, SeatsTakeTurns DEF GridInv
  <2>2. ASSUME NEW k \in 1..active  PROVE round_in_cycle(index + k, active) \in 1..active
    <3>1. PICK i \in Nat : index + k = i + 1
      <4>1. index + k - 1 \in Nat /\ index + k = (index + k - 1) + 1
        BY <1>1 DEF GridInv
      <4> QED BY <4>1
    <3> QED BY <1>1, <3>1, SeatsTakeTurns DEF GridInv
  <2>3. {round_in_cycle(index + k, active) : k \in 1..active} = 1..active
    BY <2>1, <2>2
  <2>4. index < active => round_in_cycle(index + 1, active) = index + 1
    <3>1. ASSUME index < active  PROVE round_in_cycle(active * 0 + (index + 1), active) = index + 1
      BY <1>1, <3>1, RoundOfCycle DEF GridInv
    <3>2. active * 0 + (index + 1) = index + 1
      BY <1>1 DEF GridInv
    <3> QED BY <3>1, <3>2
  <2> QED BY <2>1, <2>3, <2>4 DEF EveryRoundHasItsSeat
<1> QED
  BY <1>1, GridInvAlways, PTL

\* The random payout order names every member once, for all numbers of
\* members and all seeds.
THEOREM OrdersArePermutations == Spec => []ShuffleIsPermutation
<1>1. ASSUME GridInv  PROVE ShuffleIsPermutation
  <2> DEFINE seats == [i \in 1..active |-> i]
  <2>1. active \in Nat /\ index \in Nat
    BY <1>1 DEF GridInv
  <2>2. seats \in Seq(Nat) /\ DOMAIN seats = 1..active
    BY <2>1
  <2>3. ToSet(seats) = 1..active
    BY <2>1, <2>2 DEF ToSet
  <2>4. ToSet(Shuffled(seats, index)) = ToSet(seats)
    <3> HIDE DEF seats
    <3> QED BY <2>1, <2>2, ShuffleKeepsTheMembers
  <2> QED BY <2>3, <2>4 DEF ShuffleIsPermutation
<1> QED
  BY <1>1, GridInvAlways, PTL
=============================================================================
