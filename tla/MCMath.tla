------------------------------ MODULE MCMath ------------------------------
(***************************************************************************)
(* The arithmetic of CircleMath against its reference definitions, over    *)
(* every combination of inputs on a grid.                                  *)
(***************************************************************************)
EXTENDS CircleMath, SequencesExt

CONSTANTS Step,              \* basis points between two rates
          MaxActive, MaxIndex

ASSUME GridIsPositive == Step \in 1..BasisPoints /\ MaxActive \in Nat \ {0} /\ MaxIndex \in Nat

VARIABLES exit, late,        \* the two rates, in basis points
          active, index      \* members, and a round (or a shuffle's seed)

Init == exit = 0 /\ late = Step /\ active = 1 /\ index = 0

Next ==
    \/ exit + late + Step <= BasisPoints /\ exit' = exit + Step /\ UNCHANGED <<late, active, index>>
    \/ exit + late + Step <= BasisPoints /\ late' = late + Step /\ UNCHANGED <<exit, active, index>>
    \/ active < MaxActive /\ active' = active + 1 /\ UNCHANGED <<exit, late, index>>
    \/ index < MaxIndex /\ index' = index + 1 /\ UNCHANGED <<exit, late, active>>

Spec == Init /\ [][Next]_<<exit, late, active, index>>

\* The limit on missed rounds is the number of late fees that, with the exit
\* penalty, the lock still covers: one more exceeds it.
LimitIsWhatTheLockCovers ==
    LET limit == compute_max_missed_base(exit, late)
    IN  /\ compute_exit_penalty(BasisPoints, exit) + limit * late <= BasisPoints
        /\ compute_exit_penalty(BasisPoints, exit) + (limit + 1) * late > BasisPoints

\* The rounds of a cycle run through 1..active in order, also across cycles:
\* every seat of the payout order has its turn.
EveryRoundHasItsSeat ==
    /\ round_in_cycle(index + 1, active) \in 1..active
    /\ {round_in_cycle(index + k, active) : k \in 1..active} = 1..active
    /\ round_in_cycle(index + 1 + active, active) = round_in_cycle(index + 1, active)
    /\ index < active => round_in_cycle(index + 1, active) = index + 1

\* For every seed the random payout order names every member exactly once.
ShuffleIsPermutation ==
    LET seats == [i \in 1..active |-> i]
    IN  ToSet(Shuffled(seats, index)) = 1..active
===========================================================================
