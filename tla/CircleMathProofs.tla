------------------------- MODULE CircleMathProofs -------------------------
(***************************************************************************)
(* What the arithmetic of the circle guarantees for every input: its       *)
(* results are natural numbers, a fee is a part of what it is taken from,  *)
(* the sum of a ledger follows the credits and debits of its entries, and  *)
(* a list keeps its members through the shuffle, all but those taken out.  *)
(***************************************************************************)
EXTENDS CircleMath, SequencesExt, FiniteSetTheorems, WellFoundedInduction, TLAPS

\* The helpers on two numbers.
LEMMA AtMostType ==
    ASSUME NEW a \in Nat, NEW b \in Nat
    PROVE  AtMost(a, b) \in Nat /\ AtMost(a, b) <= a /\ AtMost(a, b) <= b
BY DEF AtMost

LEMMA SaturatingType ==
    ASSUME NEW a \in Nat, NEW b \in Nat
    PROVE  /\ Saturating(a, b) \in Nat
           /\ a >= b => Saturating(a, b) = a - b
BY DEF Saturating

\* Division rounds down.
LEMMA DivType ==
    ASSUME NEW a \in Nat, NEW b \in Nat \ {0}
    PROVE  a \div b \in Nat /\ a % b \in Nat /\ a = b * (a \div b) + (a % b)
OBVIOUS

LEMMA TimesType ==
    ASSUME NEW a \in Nat, NEW b \in Nat
    PROVE  a * b \in Nat
OBVIOUS

\* compute_late_fee_per_round and compute_exit_penalty: rates are numbers.
LEMMA RateType ==
    ASSUME NEW amount \in Nat, NEW rate \in Nat
    PROVE  /\ compute_late_fee_per_round(amount, rate) \in Nat
           /\ compute_exit_penalty(amount, rate) \in Nat
BY TimesType, DivType DEF compute_late_fee_per_round, compute_exit_penalty, BasisPoints

\* A platform fee below the whole is at most the amount it is taken from, and
\* leaves something of it.
LEMMA RateIsAPart ==
    ASSUME NEW amount \in Nat, NEW rate \in 0..(BasisPoints - 1)
    PROVE  /\ (amount * rate) \div BasisPoints \in Nat
           /\ amount - ((amount * rate) \div BasisPoints) \in Nat
           /\ amount > 0 => amount - ((amount * rate) \div BasisPoints) > 0
<1>1. amount * rate \in Nat
  BY TimesType DEF BasisPoints
<1>2. amount * rate <= BasisPoints * amount
  BY DEF BasisPoints
<1> DEFINE q == (amount * rate) \div BasisPoints
<1>3. q \in Nat /\ BasisPoints * q <= amount * rate
  <2>1. BasisPoints \in Nat \ {0}
    BY DEF BasisPoints
  <2>2. q \in Nat /\ (amount * rate) % BasisPoints \in Nat
        /\ amount * rate = BasisPoints * q + ((amount * rate) % BasisPoints)
    BY <1>1, <2>1, DivType
  <2>3. BasisPoints * q \in Nat
    BY <2>1, <2>2, TimesType
  <2> HIDE DEF q
  <2> QED BY <2>2, <2>3
<1> HIDE DEF q
<1>4. BasisPoints * q <= BasisPoints * amount
  <2>1. BasisPoints * q \in Nat /\ BasisPoints * amount \in Nat
    BY <1>3, TimesType DEF BasisPoints
  <2> QED BY <1>1, <1>2, <1>3, <2>1
<1>5. q <= amount
  BY <1>3, <1>4 DEF BasisPoints
<1>6. amount > 0 => q # amount
  <2>1. amount > 0 => amount * rate < BasisPoints * amount
    BY DEF BasisPoints
  <2> QED BY <1>1, <1>3, <2>1 DEF BasisPoints
<1> QED
  BY <1>3, <1>5, <1>6 DEF q

\* The limit on missed rounds is the number of late fees that, with the exit
\* penalty, a lock of 10000 parts still covers: one more exceeds it.  Holds for
\* all rates that create_circle accepts, and decides who is ejected.
THEOREM LimitCoversTheLock ==
    ASSUME NEW exit \in Nat, NEW late \in Nat \ {0}, exit + late <= BasisPoints
    PROVE  LET limit == compute_max_missed_base(exit, late)
           IN  /\ limit \in Nat \ {0}
               /\ compute_exit_penalty(BasisPoints, exit) + limit * late <= BasisPoints
               /\ compute_exit_penalty(BasisPoints, exit) + (limit + 1) * late > BasisPoints
<1> DEFINE rest  == BasisPoints - exit
           limit == rest \div late
<1>1. rest \in Nat /\ rest >= late /\ exit + rest = BasisPoints
  BY DEF BasisPoints
<1>2. compute_max_missed_base(exit, late) = limit
  BY <1>1 DEF compute_max_missed_base, Saturating, BasisPoints
<1>3. compute_exit_penalty(BasisPoints, exit) = exit
  BY DEF compute_exit_penalty, BasisPoints
<1> HIDE DEF rest
<1>4. limit \in Nat /\ late * limit <= rest /\ rest < late * limit + late
  <2>1. limit \in Nat /\ rest % late \in Nat /\ rest = late * limit + (rest % late)
    BY <1>1, DivType
  <2>2. rest % late < late
    BY <1>1
  <2>3. late * limit \in Nat
    BY <2>1, TimesType
  <2> HIDE DEF limit
  <2> QED BY <1>1, <2>1, <2>2, <2>3
<1> HIDE DEF limit
<1>5. limit # 0
  <2> SUFFICES ASSUME limit = 0  PROVE FALSE
    OBVIOUS
  <2> QED BY <1>1, <1>4
<1>6. limit * late = late * limit /\ (limit + 1) * late = late * limit + late /\ late * limit \in Nat
  BY <1>4, TimesType
<1> QED
  BY <1>1, <1>2, <1>3, <1>4, <1>5, <1>6 DEF BasisPoints

---------------------------------------------------------------------------
(* The rounds of a cycle *)

\* Division is unique: what it leaves is what is above the last whole multiple.
LEMMA RemainderIs ==
    ASSUME NEW n \in Nat \ {0}, NEW k \in Nat, NEW r \in 0..(n - 1)
    PROVE  (n * k + r) % n = r
<1> DEFINE a == n * k + r
           q == a \div n
<1>1. n * k \in Nat /\ a \in Nat
  BY TimesType
<1>2. q \in Nat /\ a % n \in Nat /\ a = n * q + (a % n) /\ a % n < n
  <2> HIDE DEF a
  <2> QED BY <1>1, DivType
<1>3. a = n * k + r
  OBVIOUS
<1> HIDE DEF a, q
<1>4. n * q \in Nat
  BY <1>2, TimesType
<1>5. CASE q = k
  BY <1>1, <1>2, <1>3, <1>4, <1>5
<1>6. CASE q < k
  <2>1. PICK d \in Nat : k = q + 1 + d
    <3>1. k - q - 1 \in Nat /\ k = q + 1 + (k - q - 1)
      BY <1>2, <1>6
    <3> QED BY <3>1
  <2>2. n * k = n * q + n + n * d
    BY <1>2, <2>1
  <2>3. n * d \in Nat
    BY <2>1, TimesType
  <2> QED BY <1>1, <1>2, <1>3, <1>4, <2>2, <2>3
<1>7. CASE k < q
  <2>1. PICK d \in Nat : q = k + 1 + d
    <3>1. q - k - 1 \in Nat /\ q = k + 1 + (q - k - 1)
      BY <1>2, <1>7
    <3> QED BY <3>1
  <2>2. n * q = n * k + n + n * d
    BY <1>2, <2>1
  <2>3. n * d \in Nat
    BY <2>1, TimesType
  <2> QED BY <1>1, <1>2, <1>3, <1>4, <2>2, <2>3
<1> QED
  BY <1>2, <1>5, <1>6, <1>7 DEF a

\* The s-th round of a cycle, after k cycles.
LEMMA RoundOfCycle ==
    ASSUME NEW n \in Nat \ {0}, NEW k \in Nat, NEW s \in 1..n
    PROVE  round_in_cycle(n * k + s, n) = s
<1>1. n * k \in Nat
  BY TimesType
<1>2. (n * k + (s - 1)) % n = s - 1
  BY RemainderIs
<1>3. n * k + s > 0 /\ n * k + s - 1 = n * k + (s - 1)
  BY <1>1
<1> QED
  BY <1>2, <1>3 DEF round_in_cycle

\* Every round lies in a cycle.
LEMMA CycleOfRound ==
    ASSUME NEW n \in Nat \ {0}, NEW round \in Nat \ {0}
    PROVE  \E k \in Nat, s \in 1..n : round = n * k + s
<1>1. /\ (round - 1) \div n \in Nat /\ (round - 1) % n \in Nat
      /\ round - 1 = n * ((round - 1) \div n) + ((round - 1) % n)
      /\ (round - 1) % n < n
  BY DivType
<1>2. ((round - 1) % n) + 1 \in 1..n
  BY <1>1
<1>3. n * ((round - 1) \div n) \in Nat
  BY <1>1, TimesType
<1>4. round = n * ((round - 1) \div n) + (((round - 1) % n) + 1)
  BY <1>1, <1>3
<1> QED
  BY <1>1, <1>2, <1>4

\* The rounds of a cycle run through 1..active in order, and start again: for
\* every number of members and every round, each seat of the payout order has
\* its turn, once in any active rounds on end.
THEOREM SeatsTakeTurns ==
    ASSUME NEW active \in Nat \ {0}, NEW index \in Nat
    PROVE  /\ round_in_cycle(index + 1, active) \in 1..active
           /\ round_in_cycle(index + 1 + active, active) = round_in_cycle(index + 1, active)
           /\ \A seat \in 1..active :
                  \E k \in 1..active : round_in_cycle(index + k, active) = seat
<1>1. PICK c \in Nat, s \in 1..active : index + 1 = active * c + s
  <2>1. index + 1 \in Nat \ {0}
    OBVIOUS
  <2> QED BY <2>1, CycleOfRound
<1>2. round_in_cycle(index + 1, active) = s
  BY <1>1, RoundOfCycle
<1>3. round_in_cycle(index + 1 + active, active) = s
  <2>1. active * (c + 1) = active * c + active /\ active * c \in Nat
    BY TimesType
  <2>2. index + 1 + active = active * (c + 1) + s
    BY <1>1, <2>1
  <2> QED BY <2>2, RoundOfCycle
<1>4. ASSUME NEW seat \in 1..active
      PROVE  \E k \in 1..active : round_in_cycle(index + k, active) = seat
  <2>0. active * c \in Nat
    BY TimesType
  <2>1. CASE seat >= s
    <3>1. seat - s + 1 \in 1..active /\ index + (seat - s + 1) = active * c + seat
      BY <1>1, <2>0, <2>1
    <3> QED BY <3>1, RoundOfCycle
  <2>2. CASE seat < s
    <3>1. active * (c + 1) = active * c + active
      OBVIOUS
    <3>2. seat - s + 1 + active \in 1..active
      BY <2>2
    <3>3. index + (seat - s + 1 + active) = active * (c + 1) + seat
      BY <1>1, <2>0, <3>1
    <3>4. c + 1 \in Nat
      OBVIOUS
    <3>5. round_in_cycle(index + (seat - s + 1 + active), active) = seat
      BY <3>3, <3>4, RoundOfCycle
    <3> QED BY <3>2, <3>5
  <2> QED BY <2>1, <2>2
<1> QED
  BY <1>2, <1>3, <1>4
---------------------------------------------------------------------------
(* Sums of ledgers *)

\* A ledger of finitely many members holds finitely many coins.
LEMMA CoinsAreFinite ==
    ASSUME NEW S, IsFiniteSet(S), NEW f \in [S -> Nat]
    PROVE  IsFiniteSet(Coins(f))
<1> DEFINE piles == {{m} \X (1..f[m]) : m \in S}
           pile  == [m \in S |-> {m} \X (1..f[m])]
<1>1. pile \in Surjection(S, piles)
  BY DEF Surjection
<1>2. IsFiniteSet(piles)
  <2> HIDE DEF pile, piles
  <2> QED BY <1>1, FS_Surjection
<1>3. ASSUME NEW m \in S  PROVE IsFiniteSet({m} \X (1..f[m]))
  <2>1. IsFiniteSet({m})
    BY FS_Singleton
  <2>2. f[m] \in Int /\ 1 \in Int
    OBVIOUS
  <2>3. IsFiniteSet(1..f[m])
    BY <2>2, FS_Interval
  <2> QED BY <2>1, <2>3, FS_Product
<1>4. Coins(f) = UNION piles
  BY DEF Coins
<1> QED
  BY <1>2, <1>3, <1>4, FS_UNION

LEMMA SumOfType ==
    ASSUME NEW S, IsFiniteSet(S), NEW f \in [S -> Nat]
    PROVE  SumOf(f) \in Nat
BY CoinsAreFinite, FS_CardinalityType DEF SumOf

\* The coins of a ledger, named one by one.
LEMMA CoinsAre ==
    ASSUME NEW S, NEW f \in [S -> Nat]
    PROVE  /\ \A c \in Coins(f) : c[1] \in S /\ c[2] \in 1..f[c[1]] /\ c = <<c[1], c[2]>>
           /\ \A m \in S : \A k \in 1..f[m] : <<m, k>> \in Coins(f)
BY DEF Coins

\* A sum of entries is a sum of sums: the coins of g lie on top of those of f.
LEMMA SumOfPlus ==
    ASSUME NEW S, IsFiniteSet(S), NEW f \in [S -> Nat], NEW g \in [S -> Nat]
    PROVE  SumOf([m \in S |-> f[m] + g[m]]) = SumOf(f) + SumOf(g)
<1> DEFINE h     == [m \in S |-> f[m] + g[m]]
           shift == [c \in Coins(g) |-> <<c[1], f[c[1]] + c[2]>>]
           top   == {shift[c] : c \in Coins(g)}
<1>1. h \in [S -> Nat]
  OBVIOUS
<1>2. shift \in Bijection(Coins(g), top)
  <2>1. shift \in Surjection(Coins(g), top)
    BY DEF Surjection
  <2>2. ASSUME NEW c \in Coins(g), NEW d \in Coins(g), shift[c] = shift[d]
        PROVE  c = d
    <3>1. c[1] = d[1] /\ f[c[1]] + c[2] = f[d[1]] + d[2]
      BY <2>2
    <3>2. /\ c[1] \in S /\ c[2] \in 1..g[c[1]] /\ c = <<c[1], c[2]>>
          /\ d[1] \in S /\ d[2] \in 1..g[d[1]] /\ d = <<d[1], d[2]>>
      BY CoinsAre
    <3>3. c[2] = d[2]
      BY <3>1, <3>2
    <3> QED BY <3>1, <3>2, <3>3
  <2> QED BY <2>1, <2>2 DEF Bijection, Injection, IsInjective, Surjection
<1>3. IsFiniteSet(top) /\ Cardinality(top) = SumOf(g)
  <2>1. IsFiniteSet(Coins(g))
    BY CoinsAreFinite
  <2>2. ExistsBijection(Coins(g), top)
    BY <1>2 DEF ExistsBijection
  <2> HIDE DEF top
  <2> QED BY <2>1, <2>2, FS_Bijection DEF SumOf
<1>4. Coins(h) = Coins(f) \cup top
  <2>1. ASSUME NEW c \in Coins(h)  PROVE c \in Coins(f) \cup top
    <3>1. c[1] \in S /\ c[2] \in 1..h[c[1]] /\ c = <<c[1], c[2]>>
      BY <1>1, CoinsAre
    <3>2. CASE c[2] <= f[c[1]]
      BY <3>1, <3>2, CoinsAre
    <3>3. CASE c[2] > f[c[1]]
      <4> DEFINE d == <<c[1], c[2] - f[c[1]]>>
      <4>1. c[2] - f[c[1]] \in 1..g[c[1]]
        BY <3>1, <3>3
      <4>2. d \in Coins(g)
        BY <3>1, <4>1, CoinsAre
      <4>3. shift[d] = <<c[1], f[c[1]] + (c[2] - f[c[1]])>>
        BY <4>2
      <4>4. f[c[1]] + (c[2] - f[c[1]]) = c[2]
        BY <3>1
      <4> QED BY <3>1, <4>2, <4>3, <4>4
    <3> QED BY <3>1, <3>2, <3>3
  <2>2. ASSUME NEW c \in Coins(f)  PROVE c \in Coins(h)
    <3>1. c[1] \in S /\ c[2] \in 1..f[c[1]] /\ c = <<c[1], c[2]>>
      BY CoinsAre
    <3>2. c[2] \in 1..h[c[1]]
      BY <3>1
    <3> QED BY <1>1, <3>1, <3>2, CoinsAre
  <2>3. ASSUME NEW c \in Coins(g)  PROVE shift[c] \in Coins(h)
    <3>1. c[1] \in S /\ c[2] \in 1..g[c[1]]
      BY CoinsAre
    <3>2. f[c[1]] + c[2] \in 1..h[c[1]]
      BY <3>1
    <3> QED BY <1>1, <3>1, <3>2, CoinsAre
  <2> QED BY <2>1, <2>2, <2>3
<1>5. Coins(f) \cap top = {}
  <2> SUFFICES ASSUME NEW c \in Coins(g), shift[c] \in Coins(f)  PROVE FALSE
    OBVIOUS
  <2>1. c[1] \in S /\ c[2] \in 1..g[c[1]]
    BY CoinsAre
  <2>2. f[c[1]] + c[2] \in 1..f[c[1]]
    BY CoinsAre
  <2> QED BY <2>1, <2>2
<1>6. IsFiniteSet(Coins(f)) /\ Cardinality(Coins(f)) \in Nat
  BY CoinsAreFinite, FS_CardinalityType
<1> HIDE DEF top, h
<1>7. Cardinality(Coins(h)) = Cardinality(Coins(f)) + Cardinality(top)
  <2>1. Cardinality(top) \in Nat
    BY <1>3, SumOfType
  <2>2. Cardinality(Coins(f) \cap top) = 0
    BY <1>5, FS_EmptySet
  <2>3. Cardinality(Coins(h)) = Cardinality(Coins(f)) + Cardinality(top) - 0
    BY <1>3, <1>4, <1>6, <2>2, FS_Union
  <2> QED BY <1>6, <2>1, <2>3
<1> QED
  BY <1>3, <1>7 DEF SumOf, h

\* One entry alone, and none.
LEMMA SumOfOne ==
    ASSUME NEW S, NEW m \in S, NEW a \in Nat
    PROVE  SumOf([x \in S |-> IF x = m THEN a ELSE 0]) = a
<1> DEFINE f == [x \in S |-> IF x = m THEN a ELSE 0]
<1>1. Coins(f) = {m} \X (1..a)
  BY DEF Coins
<1>2. IsFiniteSet({m}) /\ Cardinality({m}) = 1
  BY FS_Singleton
<1>3. IsFiniteSet(1..a) /\ Cardinality(1..a) = a
  <2>1. 1 \in Int /\ a \in Int
    OBVIOUS
  <2>2. IsFiniteSet(1..a) /\ Cardinality(1..a) = IF 1 > a THEN 0 ELSE a - 1 + 1
    BY <2>1, FS_Interval
  <2> QED BY <2>2
<1> HIDE DEF f
<1>4. Cardinality({m} \X (1..a)) = 1 * a
  BY <1>2, <1>3, FS_Product
<1>5. Cardinality(Coins(f)) = a
  BY <1>1, <1>4
<1> QED
  BY <1>5 DEF SumOf, f

LEMMA SumOfNothing ==
    ASSUME NEW S
    PROVE  SumOf([x \in S |-> 0]) = 0
<1>1. Coins([x \in S |-> 0]) = {}
  BY DEF Coins
<1> QED
  BY <1>1, FS_EmptySet DEF SumOf

\* Emptying an entry takes it off the sum.
LEMMA SumOfWithout ==
    ASSUME NEW S, IsFiniteSet(S), NEW f \in [S -> Nat], NEW m \in S
    PROVE  /\ SumOf([f EXCEPT ![m] = 0]) = SumOf(f) - f[m]
           /\ f[m] <= SumOf(f)
<1> DEFINE rest == [f EXCEPT ![m] = 0]
           one  == [x \in S |-> IF x = m THEN f[m] ELSE 0]
<1>1. rest \in [S -> Nat] /\ one \in [S -> Nat] /\ f[m] \in Nat
  OBVIOUS
<1>2. f = [x \in S |-> rest[x] + one[x]]
  OBVIOUS
<1>3. SumOf(one) = f[m]
  BY SumOfOne
<1> HIDE DEF rest, one
<1>4. SumOf(f) = SumOf(rest) + f[m]
  BY <1>1, <1>2, <1>3, SumOfPlus
<1>5. SumOf(rest) \in Nat
  BY <1>1, SumOfType
<1> QED
  BY <1>1, <1>4, <1>5 DEF rest

---------------------------------------------------------------------------
(* Induction.  It rests on the least element of a set of naturals. *)

\* The order of the naturals, as a relation.
Before == {p \in Nat \X Nat : p[1] < p[2]}

\* Every non-empty set of naturals has a least element.
LEMMA LeastNatural ==
    ASSUME NEW T, T \subseteq Nat, T # {}
    PROVE  \E x \in T : \A y \in T : x <= y
<1>1. IsWellFoundedOn(Before, Nat)
  BY NatLessThanWellFounded DEF OpToRel, Before
<1>2. PICK x \in T : \A y \in T : ~ (<<y, x>> \in Before)
  BY <1>1, WFMin
<1>3. ASSUME NEW y \in T  PROVE x <= y
  <2>1. <<y, x>> \in Nat \X Nat /\ <<y, x>>[1] = y /\ <<y, x>>[2] = x
    OBVIOUS
  <2> QED BY <1>2, <2>1 DEF Before
<1> QED
  BY <1>3

\* A bounded set of natural numbers has a greatest element.
LEMMA GreatestNatural ==
    ASSUME NEW S, S \subseteq Nat, S # {}, NEW bound \in Nat, \A s \in S : s <= bound
    PROVE  Max(S) \in S /\ \A s \in S : s <= Max(S)
<1> DEFINE U == {u \in Nat : \A s \in S : s <= u}
<1>1. PICK top \in U : \A u \in U : top <= u
  <2>1. bound \in U
    OBVIOUS
  <2> QED BY <2>1, LeastNatural
<1>2. top \in S
  <2> SUFFICES ASSUME top \notin S  PROVE FALSE
    OBVIOUS
  <2>1. PICK s \in S : TRUE
    OBVIOUS
  <2>2. top - 1 \in Nat
    BY <1>1, <2>1
  <2>3. top - 1 \in U
    BY <1>1, <2>2
  <2> QED BY <1>1, <2>2, <2>3
<1>3. \E x \in S : \A s \in S : x >= s
  BY <1>1, <1>2
<1> QED
  BY <1>3 DEF Max

\* Induction, for the members of a set.
LEMMA SetInduction ==
    ASSUME NEW T, 0 \in T, \A n \in Nat : n \in T => n + 1 \in T
    PROVE  Nat \subseteq T
<1> SUFFICES ASSUME ~(Nat \subseteq T)  PROVE FALSE
  OBVIOUS
<1>1. PICK x \in Nat \ T : \A y \in Nat \ T : x <= y
  BY LeastNatural
<1>2. x - 1 \in Nat /\ x - 1 \notin Nat \ T
  BY <1>1
<1> QED
  BY <1>1, <1>2

\* The first n values of step, iterated from x0.
Iterates(f, X, x0, step, n) ==
    /\ f \in [0..n -> X]
    /\ f[0] = x0
    /\ \A i \in 1..n : f[i] = step[<<f[i - 1], i>>]

\* A recursive definition has a solution: a step iterated n times from x0.
LEMMA RecursionExists ==
    ASSUME NEW X, NEW x0 \in X, NEW step \in [X \X Nat -> X], NEW n \in Nat
    PROVE  \E f : Iterates(f, X, x0, step, n)
<1> DEFINE Defines(f, k) == /\ f[0] = x0
                            /\ \A i \in 1..k : f[i] = step[<<f[i - 1], i>>]
           T == {k \in Nat : \E f \in [0..k -> X] : Defines(f, k)}
<1>1. 0 \in T
  <2>1. [i \in 0..0 |-> x0] \in [0..0 -> X] /\ Defines([i \in 0..0 |-> x0], 0)
    OBVIOUS
  <2> QED BY <2>1
<1>2. ASSUME NEW k \in Nat, k \in T  PROVE k + 1 \in T
  <2>1. PICK f \in [0..k -> X] : Defines(f, k)
    BY <1>2
  <2> DEFINE g == [i \in 0..(k + 1) |-> IF i = k + 1 THEN step[<<f[k], k + 1>>] ELSE f[i]]
  <2>2. step[<<f[k], k + 1>>] \in X
    OBVIOUS
  <2>3. g \in [0..(k + 1) -> X]
    BY <2>2
  <2>4. g[0] = x0
    BY <2>1
  <2>5. ASSUME NEW i \in 1..(k + 1)  PROVE g[i] = step[<<g[i - 1], i>>]
    <3>1. g[i - 1] = f[i - 1]
      OBVIOUS
    <3>2. CASE i = k + 1
      BY <3>1, <3>2
    <3>3. CASE i \in 1..k
      <4>1. f[i] = step[<<f[i - 1], i>>]
        BY <2>1, <3>3
      <4>2. g[i] = f[i]
        BY <3>3
      <4> QED BY <3>1, <4>1, <4>2
    <3> QED BY <3>2, <3>3
  <2> HIDE DEF g
  <2> QED BY <2>3, <2>4, <2>5
<1> HIDE DEF T
<1>3. n \in T
  BY <1>1, <1>2, SetInduction
<1> QED
  BY <1>3 DEF T, Iterates

---------------------------------------------------------------------------
(* Without, the list that Vec::retain leaves *)

\* What is kept of the first i elements of list, for every i.
Retains(kept, A, list, S) ==
    /\ kept \in [0..Len(list) -> Seq(A)]
    /\ kept[0] = <<>>
    /\ \A i \in 1..Len(list) :
           kept[i] = IF list[i] \in S THEN kept[i - 1] ELSE Append(kept[i - 1], list[i])
    /\ Without(list, S) = kept[Len(list)]

\* Without is the last value of its own recursion.
LEMMA WithoutIs ==
    ASSUME NEW A, NEW list \in Seq(A), NEW S
    PROVE  \E kept : Retains(kept, A, list, S)
<1> DEFINE n == Len(list)
           next(t, i) == IF i \in 1..n /\ list[i] \notin S THEN Append(t, list[i]) ELSE t
           step == [p \in Seq(A) \X Nat |-> next(p[1], p[2])]
           value(f, i) == IF i = 0 THEN <<>>
                          ELSE IF list[i] \in S THEN f[i - 1] ELSE Append(f[i - 1], list[i])
           Defines(f) == f = [i \in 0..n |-> value(f, i)]
<1>1. n \in Nat /\ <<>> \in Seq(A) /\ \A i \in 1..n : list[i] \in A
  OBVIOUS
<1>2. step \in [Seq(A) \X Nat -> Seq(A)]
  <2>1. ASSUME NEW t \in Seq(A), NEW i \in Nat  PROVE next(t, i) \in Seq(A)
    BY <1>1
  <2> QED BY <2>1
<1>3. \A t \in Seq(A), i \in Nat : step[<<t, i>>] = next(t, i)
  OBVIOUS
<1> HIDE DEF n, step, next, value, Defines
<1>4. PICK f : Iterates(f, Seq(A), <<>>, step, n)
  BY <1>1, <1>2, RecursionExists
<1>5. /\ f \in [0..n -> Seq(A)] /\ f[0] = <<>>
      /\ \A i \in 1..n : f[i] = step[<<f[i - 1], i>>]
  BY <1>4 DEF Iterates
<1>6. ASSUME NEW i \in 0..n  PROVE f[i] = value(f, i)
  <2>1. CASE i = 0
    BY <1>5, <2>1 DEF value
  <2>2. CASE i \in 1..n
    <3>1. f[i - 1] \in Seq(A) /\ i \in Nat
      BY <1>1, <1>5, <2>2
    <3>2. f[i] = next(f[i - 1], i)
      BY <1>3, <1>5, <2>2, <3>1
    <3> QED BY <2>2, <3>2 DEF next, value
  <2> QED BY <1>1, <2>1, <2>2
<1>7. Defines(f)
  BY <1>5, <1>6 DEF Defines
<1> DEFINE kept == CHOOSE g : Defines(g)
<1>8. Defines(kept)
  BY <1>7
<1>9. Without(list, S) = kept[n]
  BY DEF Without, n, Defines, value
<1> HIDE DEF kept
<1>14. kept = [i \in 0..n |-> value(kept, i)]
  BY <1>8 DEF Defines
<1>10. kept[0] = <<>> /\ \A i \in 1..n : kept[i] = value(kept, i)
  <2>1. \A i \in 0..n : kept[i] = value(kept, i)
    BY <1>14
  <2>2. value(kept, 0) = <<>>
    BY DEF value
  <2> QED BY <1>1, <2>1, <2>2
<1> DEFINE T == {i \in Nat : i \in 0..n => kept[i] \in Seq(A)}
<1>11. 0 \in T
  BY <1>1, <1>10
<1>12. ASSUME NEW i \in Nat, i \in T  PROVE i + 1 \in T
  <2>1. CASE i + 1 \in 1..n
    <3>1. kept[i] \in Seq(A) /\ list[i + 1] \in A
      BY <1>1, <1>12, <2>1
    <3>2. kept[i + 1] = value(kept, i + 1)
      BY <1>10, <2>1
    <3>3. (i + 1) - 1 = i /\ i + 1 # 0 /\ i + 1 \in Nat
      OBVIOUS
    <3>4. kept[i + 1] \in Seq(A)
      BY <3>1, <3>2, <3>3 DEF value
    <3> QED BY <3>3, <3>4 DEF T
  <2> QED BY <1>1, <2>1 DEF T
<1> HIDE DEF T
<1>13. \A i \in 0..n : kept[i] \in Seq(A)
  <2>1. Nat \subseteq T
    BY <1>11, <1>12, SetInduction
  <2> QED BY <1>1, <2>1 DEF T
<1>15. kept \in [0..n -> Seq(A)]
  BY <1>13, <1>14
<1> QED
  BY <1>9, <1>10, <1>15 DEF n, value, Retains

\* Append, as a set of names.
LEMMA AppendNames ==
    ASSUME NEW A, NEW t \in Seq(A), NEW x \in A
    PROVE  /\ Append(t, x) \in Seq(A) /\ Len(Append(t, x)) = Len(t) + 1
           /\ ToSet(Append(t, x)) = ToSet(t) \cup {x}
           /\ IsInjective(t) /\ x \notin ToSet(t) => IsInjective(Append(t, x))
<1> DEFINE u == Append(t, x)
<1>1. /\ u \in Seq(A) /\ Len(u) = Len(t) + 1 /\ Len(t) \in Nat
      /\ u[Len(t) + 1] = x /\ \A i \in 1..Len(t) : u[i] = t[i]
  OBVIOUS
<1>2. DOMAIN u = 1..(Len(t) + 1) /\ DOMAIN t = 1..Len(t)
  BY <1>1
<1> HIDE DEF u
<1>3. ToSet(u) = ToSet(t) \cup {x}
  BY <1>1, <1>2 DEF ToSet
<1>4. ASSUME IsInjective(t), x \notin ToSet(t)  PROVE IsInjective(u)
  <2>1. ASSUME NEW i \in DOMAIN u, NEW j \in DOMAIN u, u[i] = u[j]  PROVE i = j
    <3>1. \A k \in 1..Len(t) : t[k] # x
      BY <1>2, <1>4 DEF ToSet
    <3>2. CASE i = Len(t) + 1
      BY <1>1, <1>2, <2>1, <3>1, <3>2
    <3>3. CASE j = Len(t) + 1
      BY <1>1, <1>2, <2>1, <3>1, <3>3
    <3>4. CASE i \in 1..Len(t) /\ j \in 1..Len(t)
      BY <1>1, <1>2, <1>4, <2>1, <3>4 DEF IsInjective
    <3> QED BY <1>1, <1>2, <3>2, <3>3, <3>4
  <2> QED BY <2>1 DEF IsInjective
<1> QED
  BY <1>1, <1>3, <1>4 DEF u

\* Without takes the names of S out of a list and repeats none: a member that
\* is ejected or exits leaves every place of the roster and the payout order.
LEMMA WithoutKeeps ==
    ASSUME NEW A, NEW list \in Seq(A), NEW S
    PROVE  /\ Without(list, S) \in Seq(A) /\ Len(Without(list, S)) <= Len(list)
           /\ ToSet(Without(list, S)) = ToSet(list) \ S
           /\ IsInjective(list) => IsInjective(Without(list, S))
<1> DEFINE n == Len(list)
           Seen(i) == {list[k] : k \in 1..i}
<1>1. n \in Nat /\ DOMAIN list = 1..n /\ \A i \in 1..n : list[i] \in A
  OBVIOUS
<1>0. PICK kept : Retains(kept, A, list, S)
  BY WithoutIs
<1>2. /\ kept \in [0..n -> Seq(A)] /\ kept[0] = <<>>
      /\ \A i \in 1..n : kept[i] = IF list[i] \in S THEN kept[i - 1]
                                    ELSE Append(kept[i - 1], list[i])
      /\ Without(list, S) = kept[n]
  BY <1>0 DEF Retains
<1> DEFINE P(i) == /\ Len(kept[i]) <= i /\ ToSet(kept[i]) = Seen(i) \ S
                   /\ IsInjective(list) => IsInjective(kept[i])
           T == {i \in Nat : i \in 0..n => P(i)}
<1> HIDE DEF n
<1>3. 0 \in T
  <2>1. ToSet(kept[0]) = {} /\ IsInjective(kept[0]) /\ Len(kept[0]) = 0
    BY <1>2 DEF ToSet, IsInjective
  <2> QED BY <2>1
<1>4. ASSUME NEW i \in Nat, i \in T  PROVE i + 1 \in T
  <2> SUFFICES ASSUME i + 1 \in 1..n  PROVE P(i + 1)
    BY <1>1
  <2>1. i \in 0..n /\ P(i) /\ kept[i] \in Seq(A) /\ list[i + 1] \in A
    BY <1>1, <1>2, <1>4
  <2>2. kept[i + 1] = IF list[i + 1] \in S THEN kept[i] ELSE Append(kept[i], list[i + 1])
    BY <1>2, (i + 1) - 1 = i
  <2>3. Seen(i + 1) = Seen(i) \cup {list[i + 1]}
    <3>1. 1..(i + 1) = (1..i) \cup {i + 1}
      OBVIOUS
    <3> QED BY <3>1
  <2>4. IsInjective(list) => list[i + 1] \notin Seen(i)
    <3>1. ASSUME IsInjective(list), NEW k \in 1..i, list[i + 1] = list[k]  PROVE FALSE
      <4>1. k \in 1..n /\ k # i + 1
        BY <1>1, <2>1
      <4> QED BY <1>1, <3>1, <4>1 DEF IsInjective
    <3> QED BY <3>1
  <2>5. Len(kept[i]) \in Nat
    BY <2>1
  <2>6. CASE list[i + 1] \in S
    BY <2>1, <2>2, <2>3, <2>5, <2>6
  <2>7. CASE list[i + 1] \notin S
    <3> HIDE DEF Seen
    <3>1. kept[i + 1] = Append(kept[i], list[i + 1])
      BY <2>2, <2>7
    <3>2. /\ Len(kept[i + 1]) = Len(kept[i]) + 1
          /\ ToSet(kept[i + 1]) = ToSet(kept[i]) \cup {list[i + 1]}
          /\ IsInjective(kept[i]) /\ list[i + 1] \notin ToSet(kept[i]) => IsInjective(kept[i + 1])
      BY <2>1, <3>1, AppendNames
    <3> QED BY <2>1, <2>3, <2>4, <2>5, <2>7, <3>2
  <2> QED BY <2>6, <2>7
<1> HIDE DEF T, P
<1>5. P(n)
  <2>1. n \in T
    BY <1>1, <1>3, <1>4, SetInduction
  <2> QED BY <1>1, <2>1 DEF T
<1>6. Seen(n) = ToSet(list)
  BY <1>1 DEF ToSet
<1> QED
  BY <1>1, <1>2, <1>5, <1>6 DEF n, P

\* A list that names nobody of S stays as it is.
LEMMA WithoutNobody ==
    ASSUME NEW A, NEW list \in Seq(A), NEW S, ToSet(list) \cap S = {}
    PROVE  Without(list, S) = list
<1> DEFINE n == Len(list)
<1>1. n \in Nat /\ DOMAIN list = 1..n /\ \A i \in 1..n : list[i] \in A /\ list[i] \notin S
  <2>1. \A i \in 1..n : list[i] \in ToSet(list)
    BY DEF ToSet
  <2> QED BY <2>1
<1>0. PICK kept : Retains(kept, A, list, S)
  BY WithoutIs
<1>2. /\ kept \in [0..n -> Seq(A)] /\ kept[0] = <<>>
      /\ \A i \in 1..n : kept[i] = Append(kept[i - 1], list[i])
      /\ Without(list, S) = kept[n]
  BY <1>0, <1>1 DEF Retains
<1> DEFINE P(i) == Len(kept[i]) = i /\ \A k \in 1..i : kept[i][k] = list[k]
           T == {i \in Nat : i \in 0..n => P(i)}
<1> HIDE DEF n
<1>3. 0 \in T
  BY <1>2
<1>4. ASSUME NEW i \in Nat, i \in T  PROVE i + 1 \in T
  <2> SUFFICES ASSUME i + 1 \in 1..n  PROVE P(i + 1)
    BY <1>1
  <2>0. i \in 0..n /\ kept[i] \in Seq(A) /\ list[i + 1] \in A
    <3>1. i \in 0..n
      BY <1>1
    <3>2. kept[i] \in Seq(A)
      BY <1>2, <3>1
    <3>3. list[i + 1] \in A
      BY <1>1
    <3> QED BY <3>1, <3>2, <3>3
  <2>before. P(i)
    <3> HIDE DEF P
    <3> QED BY <1>4, <2>0
  <2>1. /\ kept[i] \in Seq(A) /\ list[i + 1] \in A
        /\ Len(kept[i]) = i /\ \A k \in 1..i : kept[i][k] = list[k]
    BY <2>0, <2>before
  <2>2. kept[i + 1] = Append(kept[i], list[i + 1])
    BY <1>2, (i + 1) - 1 = i
  <2>3. Len(kept[i + 1]) = i + 1 /\ kept[i + 1][i + 1] = list[i + 1]
    BY <2>1, <2>2
  <2>4. ASSUME NEW k \in 1..i  PROVE kept[i + 1][k] = list[k]
    BY <2>1, <2>2
  <2>5. 1..(i + 1) = (1..i) \cup {i + 1}
    OBVIOUS
  <2> QED BY <2>3, <2>4, <2>5
<1> HIDE DEF T, P
<1>5. P(n)
  <2>1. n \in T
    BY <1>1, <1>3, <1>4, SetInduction
  <2> QED BY <1>1, <2>1 DEF T
<1>6. kept[n] \in Seq(A) /\ Len(kept[n]) = Len(list) /\ \A k \in 1..Len(list) : kept[n][k] = list[k]
  BY <1>1, <1>2, <1>5 DEF P, n
<1>7. kept[n] = list
  BY <1>6
<1> QED
  BY <1>2, <1>7

---------------------------------------------------------------------------
(* The length of a list without repetitions *)

\* A list that repeats no name is as long as the number of its names.
LEMMA LengthIsCount ==
    ASSUME NEW A, NEW list \in Seq(A), IsInjective(list)
    PROVE  /\ IsFiniteSet(ToSet(list)) /\ Cardinality(ToSet(list)) = Len(list)
           /\ ToSet(list) \subseteq A
<1>1. Len(list) \in Nat /\ DOMAIN list = 1..Len(list) /\ list \in [1..Len(list) -> A]
  OBVIOUS
<1>2. list \in [1..Len(list) -> ToSet(list)] /\ ToSet(list) \subseteq A
  BY <1>1 DEF ToSet
<1>3. list \in Bijection(1..Len(list), ToSet(list))
  <2>1. list \in Injection(1..Len(list), ToSet(list))
    BY <1>1, <1>2 DEF Injection, IsInjective
  <2>2. \A x \in ToSet(list) : \E i \in 1..Len(list) : list[i] = x
    BY <1>1 DEF ToSet
  <2> QED BY <1>2, <2>1, <2>2 DEF Bijection, Surjection
<1>4. ExistsBijection(1..Len(list), ToSet(list))
  BY <1>3 DEF ExistsBijection
<1>5. Cardinality(ToSet(list)) = Len(list)
  BY <1>1, <1>4, FS_CountingElements
<1>6. IsFiniteSet(1..Len(list))
  BY <1>1, FS_Interval
<1>7. IsFiniteSet(ToSet(list))
  BY <1>4, <1>6, FS_Bijection
<1> QED
  BY <1>2, <1>5, <1>7

---------------------------------------------------------------------------
(* The payout shuffle *)

\* A swap keeps the names of a list, and each in one place.
LEMMA SwapKeeps ==
    ASSUME NEW A, NEW t \in Seq(A), NEW i \in 1..Len(t), NEW j \in 1..Len(t)
    PROVE  /\ Swap(t, i, j) \in Seq(A) /\ Len(Swap(t, i, j)) = Len(t)
           /\ ToSet(Swap(t, i, j)) = ToSet(t)
           /\ IsInjective(t) => IsInjective(Swap(t, i, j))
<1> DEFINE u == Swap(t, i, j)
<1>1. DOMAIN t = 1..Len(t) /\ Len(t) \in Nat /\ \A k \in 1..Len(t) : t[k] \in A
  OBVIOUS
<1>2. /\ u \in Seq(A) /\ Len(u) = Len(t) /\ DOMAIN u = 1..Len(t)
      /\ u[i] = t[j] /\ u[j] = t[i]
      /\ \A k \in (1..Len(t)) \ {i, j} : u[k] = t[k]
  BY <1>1 DEF Swap
<1> HIDE DEF u
<1>3. ToSet(u) = ToSet(t)
  <2>1. ASSUME NEW k \in 1..Len(t)  PROVE u[k] \in ToSet(t)
    BY <1>1, <1>2 DEF ToSet
  <2>2. ASSUME NEW k \in 1..Len(t)  PROVE t[k] \in ToSet(u)
    BY <1>2 DEF ToSet
  <2> QED BY <1>1, <1>2, <2>1, <2>2 DEF ToSet
<1>4. ASSUME IsInjective(t)  PROVE IsInjective(u)
  BY <1>1, <1>2, <1>4 DEF IsInjective
<1> QED
  BY <1>2, <1>3, <1>4 DEF u

\* The random payout order names the same members as the list it shuffles, and
\* each as often: whatever the seed, nobody is left out and nobody paid twice.
THEOREM ShuffleKeepsTheMembers ==
    ASSUME NEW A, NEW s \in Seq(A), NEW seed \in Nat
    PROVE  /\ Shuffled(s, seed) \in Seq(A) /\ Len(Shuffled(s, seed)) = Len(s)
           /\ ToSet(Shuffled(s, seed)) = ToSet(s)
           /\ IsInjective(s) => IsInjective(Shuffled(s, seed))
<1> DEFINE n == Len(s)
           Orders == {t \in Seq(A) : /\ Len(t) = n /\ ToSet(t) = ToSet(s)
                                     /\ IsInjective(s) => IsInjective(t)}
           other(i) == ((seed + 7 * (i - 1)) % n) + 1
           next(t, i) == IF i \in 1..n THEN Swap(t, i, other(i)) ELSE t
           step == [p \in Orders \X Nat |-> next(p[1], p[2])]
           value(f, i) == IF i = 0 THEN s ELSE Swap(f[i - 1], i, other(i))
           Defines(f) == f = [i \in 0..n |-> value(f, i)]
<1>1. n \in Nat /\ s \in Orders
  OBVIOUS
<1>2. ASSUME NEW i \in 1..n  PROVE other(i) \in 1..n
  <2>1. seed + 7 * (i - 1) \in Nat /\ n \in Nat \ {0}
    OBVIOUS
  <2>2. (seed + 7 * (i - 1)) % n \in 0..(n - 1)
    BY <2>1
  <2> QED BY <2>2
<1>3. ASSUME NEW t \in Orders, NEW i \in 1..n  PROVE Swap(t, i, other(i)) \in Orders
  <2>1. t \in Seq(A) /\ i \in 1..Len(t) /\ other(i) \in 1..Len(t)
    BY <1>2
  <2> HIDE DEF other
  <2> QED BY <2>1, SwapKeeps
<1> HIDE DEF other
<1>4. step \in [Orders \X Nat -> Orders]
  <2>1. ASSUME NEW t \in Orders, NEW i \in Nat  PROVE next(t, i) \in Orders
    BY <1>3
  <2> HIDE DEF next, Orders
  <2> QED BY <2>1
<1>5. \A t \in Orders, i \in Nat : step[<<t, i>>] = next(t, i)
  <2> HIDE DEF next, Orders
  <2> QED OBVIOUS
<1> HIDE DEF n, Orders, step, next, value, Defines
<1>6. PICK f : Iterates(f, Orders, s, step, n)
  BY <1>1, <1>4, RecursionExists
<1>7. /\ f \in [0..n -> Orders] /\ f[0] = s
      /\ \A i \in 1..n : f[i] = step[<<f[i - 1], i>>]
  BY <1>6 DEF Iterates
<1>8. ASSUME NEW i \in 0..n  PROVE f[i] = value(f, i)
  <2>1. CASE i = 0
    BY <1>7, <2>1 DEF value
  <2>2. CASE i \in 1..n
    <3>1. f[i - 1] \in Orders /\ i \in Nat /\ i # 0
      BY <1>1, <1>7, <2>2
    <3>2. f[i] = next(f[i - 1], i)
      BY <1>5, <1>7, <2>2, <3>1
    <3> QED BY <2>2, <3>1, <3>2 DEF next, value
  <2> QED BY <1>1, <2>1, <2>2
<1> DEFINE after == CHOOSE g : Defines(g)
<1>9. Defines(after)
  <2>1. Defines(f)
    BY <1>7, <1>8 DEF Defines
  <2> QED BY <2>1
<1>10. Shuffled(s, seed) = after[n]
  BY DEF Shuffled, n, Defines, value, other
<1> HIDE DEF after
<1>11. \A i \in 0..n : after[i] = value(after, i)
  <2>1. after = [i \in 0..n |-> value(after, i)]
    BY <1>9 DEF Defines
  <2> QED BY <2>1
<1> DEFINE T == {i \in Nat : i \in 0..n => after[i] \in Orders}
<1>12. 0 \in T
  <2>1. after[0] = s
    BY <1>1, <1>11 DEF value
  <2> QED BY <1>1, <2>1
<1>13. ASSUME NEW i \in Nat, i \in T  PROVE i + 1 \in T
  <2>1. CASE i + 1 \in 1..n
    <3>1. (i + 1) - 1 = i /\ i + 1 # 0 /\ i + 1 \in 0..n /\ i \in 0..n
      BY <1>1, <2>1
    <3>2. after[i + 1] = Swap(after[i], i + 1, other(i + 1))
      BY <1>11, <3>1 DEF value
    <3>3. after[i + 1] \in Orders
      BY <1>3, <1>13, <2>1, <3>1, <3>2
    <3> QED BY <3>3
  <2> QED BY <1>1, <2>1
<1> HIDE DEF T
<1>14. after[n] \in Orders
  <2>1. n \in T
    BY <1>1, <1>12, <1>13, SetInduction
  <2> QED BY <1>1, <2>1 DEF T
<1> QED
  BY <1>10, <1>14 DEF Orders, n
===========================================================================
