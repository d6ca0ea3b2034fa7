---------------------------- MODULE CircleMath ----------------------------
(***************************************************************************)
(* The pure arithmetic of the savings circle: the compute_* helpers of     *)
(* execute.rs, the distribution threshold, the payout shuffle, what is     *)
(* left of a list without some members, and the sum of a ledger.  Nothing  *)
(* here reads the state, so every operator can be checked against a        *)
(* reference definition and proved about on its own.                       *)
(***************************************************************************)
EXTENDS Integers, Sequences, FiniteSets

BasisPoints == 10000

AtMost(a, b)     == IF a < b THEN a ELSE b
AtLeast(a, b)    == IF a > b THEN a ELSE b
Saturating(a, b) == IF a > b THEN a - b ELSE 0

(***************************************************************************)
(* Fees, penalties and the limit on missed rounds.  Rates are in basis     *)
(* points; every division rounds down, as Uint128::multiply_ratio and the  *)
(* integer division of the source do.                                      *)
(***************************************************************************)
compute_creator_lock(contribution) == 2 * contribution

compute_late_fee_per_round(contribution, late) ==
    (contribution * late) \div BasisPoints

compute_exit_penalty(locked, exit) == (locked * exit) \div BasisPoints

\* Mutant: ejection is free.
MaxMissedIgnoringPenalty(exit, late) == BasisPoints \div late

\* late = 0 (u32::MAX in the source) cannot be configured: see CircleState.
compute_max_missed_base(exit, late) == Saturating(BasisPoints, exit) \div late

\* start = 0 stands for both None and Some(0): neither scales the base.
compute_max_missed_scaled(exit, late, start, active) ==
    LET base == compute_max_missed_base(exit, late)
    IN  IF start = 0 THEN base ELSE AtLeast((base * active) \div start, 1)

cap_max_missed_by_rounds(max_missed, total_rounds) ==
    AtMost(max_missed, AtLeast(total_rounds - 1, 1))

(***************************************************************************)
(* The distribution threshold: Total stands for None and Total{}, a        *)
(* positive number for MinMembers{count}.                                  *)
(***************************************************************************)
Total == 0

distribution_min_round_for_active(threshold, active) ==
    IF threshold = Total THEN active ELSE AtMost(threshold, active)

(***************************************************************************)
(* ((current_cycle_index - 1) % active_count) + 1 in u32 arithmetic: the   *)
(* release profile does not check overflow, so round 0 reads 2^32 - 1,     *)
(* written here as 2 * (2^31 - 1) + 1 to stay inside TLC's integers.       *)
(***************************************************************************)
\* Mutant: rounds counted from 0.
round_in_cycle_from_zero(index, active) == index % active

round_in_cycle(index, active) ==
    IF index > 0
    THEN ((index - 1) % active) + 1
    ELSE ((2 * (2147483647 % active) + 1) % active) + 1

(***************************************************************************)
(* generate_payout_order for RandomOrder: for i in 0..n-1, swap i with     *)
(* (seed + 7 i) % n.  The seed is block time plus circle id.               *)
(***************************************************************************)
\* Mutant: the first element is lost.
SwapOverwrites(s, i, j) == [s EXCEPT ![i] = s[j]]

Swap(s, i, j) == [s EXCEPT ![i] = s[j], ![j] = s[i]]

Shuffled(s, seed) ==
    LET n == Len(s)
        after[i \in 0..n] ==
            IF i = 0
            THEN s
            ELSE Swap(after[i - 1], i, ((seed + 7 * (i - 1)) % n) + 1)
    IN  after[n]

(***************************************************************************)
(* Vec::retain(|m| !S.contains(m)), and the filter of an iterator.         *)
(***************************************************************************)
Without(list, S) ==
    LET kept[i \in 0..Len(list)] ==
            IF i = 0 THEN <<>>
            ELSE IF list[i] \in S THEN kept[i - 1] ELSE Append(kept[i - 1], list[i])
    IN  kept[Len(list)]

(***************************************************************************)
(* The sum of a ledger f \in [S -> Nat], as the number of its coins: coin  *)
(* <<m, k>> is the k-th unit held under m.  Sums of storage maps appear in *)
(* the source as running totals; here they are definitions.                *)
(***************************************************************************)
Coins(f) == UNION {{m} \X (1..f[m]) : m \in DOMAIN f}
SumOf(f) == Cardinality(Coins(f))
===========================================================================
