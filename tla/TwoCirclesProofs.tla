-------------------------- MODULE TwoCirclesProofs --------------------------
(***************************************************************************)
(* Two circles on one balance: as long as nobody sweeps one of them while  *)
(* the other is owed anything, it covers what both of them owe, and each   *)
(* runs as if it were alone, for every two thresholds, number of members,  *)
(* cycles and every contribution.  But for a sweep, a step of one circle   *)
(* never takes what it does not owe out of the balance, and leaves alone   *)
(* whatever the other one owes; CircleAloneProofs shows that once, for     *)
(* both.                                                                   *)
(***************************************************************************)
EXTENDS TwoCircles, CircleAloneProofs

\* The second circle is within CreateCircle's terms too.
LEMMA SecondIsACircle ==
    /\ Second!CreateCircleAccepts /\ Second!PlatformFeeBelowWhole
    /\ Second!FlagsAreBoolean /\ Second!BoundsAreNatural
<1>1. Second!CreateCircleAccepts
  BY CreateCircleAccepts, SecondCircleAccepted
     DEF Second!CreateCircleAccepts, Second!BasisPoints, BasisPoints
<1>2. Second!PlatformFeeBelowWhole
  BY PlatformFeeBelowWhole DEF Second!PlatformFeeBelowWhole, Second!BasisPoints, BasisPoints
<1>3. Second!FlagsAreBoolean
  BY FlagsAreBoolean DEF Second!FlagsAreBoolean
<1>4. Second!BoundsAreNatural
  BY BoundsAreNatural DEF Second!BoundsAreNatural, IsFiniteSet, Second!IsFiniteSet
<1> QED
  BY <1>1, <1>2, <1>3, <1>4

LEMMA SecondFacts == Second!SharedFacts
BY Second!SharedFactsHold, SecondIsACircle

LEMMA SecondInTime == InTime => Second!InTime
BY DEF InTime, Second!InTime

LEMMA SecondUnchanged == UNCHANGED second => UNCHANGED Second!own
BY DEF second, Second!own, Second!roster, Second!terms, Second!schedule, Second!deposits,
       Second!misses, Second!locks, Second!claims, Second!pools

---------------------------------------------------------------------------
(* What is known of the second circle *)

LEMMA SecondCreated ==
    Second!CreatedCircle /\ bank \in Nat =>
        Second!SharedInv /\ Second!Owed = creator_lock_amount_2
BY SecondFacts DEF Second!SharedFacts

LEMMA SecondAmounts == Second!SharedInv => Second!Owed \in Nat /\ bank \in Nat
BY SecondFacts DEF Second!SharedFacts

LEMMA SecondAmountsNext == Second!SharedInv' => (Second!Owed \in Nat /\ bank \in Nat)'
BY SecondAmounts, PTL

LEMMA SecondUnmoved ==
    UNCHANGED second =>
        /\ UNCHANGED Second!own
        /\ Second!Owed' = Second!Owed /\ (Second!Exact' <=> Second!Exact)
        /\ Second!SharedInv /\ bank' \in Nat => Second!SharedInv'
BY SecondFacts, SecondUnchanged DEF Second!SharedFacts

LEMMA SecondCall ==
    InTime /\ Second!SharedInv /\ Second!AllCovered /\ Owed' = Owed /\ Second!CoopCalls =>
        /\ Second!SharedInv' /\ Second!AllCovered'
        /\ Second!Exact' => /\ Second!Exact
                            /\ bank = Second!Owed + Owed => bank' = Second!Owed' + Owed'
        /\ circle_status_2 \notin Second!Closed => Second!Alone!CoopNext
BY SecondFacts, SecondInTime DEF Second!SharedFacts

LEMMA SecondSweep ==
    Second!SharedInv /\ Second!SweepDust =>
        Second!SharedInv' /\ bank' = bank /\ Second!Owed' = bank
BY SecondFacts DEF Second!SharedFacts

---------------------------------------------------------------------------
(* The inductive invariant *)

\* The balance covers what both circles owe, to the coin while the books of
\* both are exact.
JointBooks ==
    /\ bank >= Owed + Second!Owed
    /\ Exact /\ Second!Exact => bank = Owed + Second!Owed

JointInv == SharedInv /\ Second!SharedInv /\ others = Second!Owed /\ JointBooks

\* What is owed to the others is, for each of the two, what the other is owed.
LEMMA BothCovered == JointInv => AllCovered /\ Second!AllCovered
<1> SUFFICES ASSUME JointInv  PROVE AllCovered /\ Second!AllCovered
  OBVIOUS
<1>1. PICK one, two, now \in Nat : one = Owed /\ two = Second!Owed /\ now = bank
  BY SharedAmounts, SecondAmounts DEF JointInv
<1>2. now >= one + two /\ others = two
  BY <1>1 DEF JointInv, JointBooks
<1>3. now >= two + one
  BY <1>2
<1> QED
  BY <1>1, <1>2, <1>3 DEF AllCovered, Second!AllCovered

\* The books of both after a step of one.
LEMMA BooksAfter ==
    ASSUME (Owed \in Nat /\ bank \in Nat)', (Second!Owed \in Nat)',
           bank' >= Second!Owed' + Owed',
           Exact' /\ Second!Exact' => bank' = Second!Owed' + Owed'
    PROVE  JointBooks'
<1>1. PICK one, two, now \in Nat : one = Owed' /\ two = Second!Owed' /\ now = bank'
  OBVIOUS
<1>2. now >= one + two
  <2>1. now >= two + one
    BY <1>1
  <2> QED BY <2>1
<1>3. Exact' /\ Second!Exact' => now = one + two
  <2>1. Exact' /\ Second!Exact' => now = two + one
    BY <1>1
  <2> QED BY <2>1
<1> QED
  BY <1>1, <1>2, <1>3 DEF JointBooks

\* A step of one circle leaves the other its money.
LEMMA FirstKeeps ==
    ASSUME InTime, JointInv, CoopCalls, UNCHANGED <<second, others>>
    PROVE  JointInv' /\ (circle_status \notin Closed => Alone!CoopNext)
<1>1. Second!Owed' = Second!Owed /\ (Second!Exact' <=> Second!Exact)
  BY SecondUnmoved
<1>2. SharedInv /\ Second!SharedInv /\ AllCovered /\ others = Second!Owed
  BY BothCovered DEF JointInv
<1>3. /\ SharedInv' /\ AllCovered'
      /\ Exact' => Exact /\ (bank = Owed + others => bank' = Owed' + others')
  BY <1>2, SharedCall
<1>4. Second!SharedInv'
  BY <1>2, <1>3, SharedAmountsNext, SecondUnmoved
<1>5. Exact' /\ Second!Exact' => bank' = Owed' + Second!Owed'
  BY <1>1, <1>2, <1>3 DEF JointInv, JointBooks
<1>6. JointBooks'
  BY <1>1, <1>2, <1>3, <1>5 DEF AllCovered, JointBooks
<1>7. circle_status \notin Closed => Alone!CoopNext
  BY <1>2, SharedAlone
<1> QED
  BY <1>1, <1>2, <1>3, <1>4, <1>6, <1>7 DEF JointInv

LEMMA SecondKeeps ==
    ASSUME InTime, JointInv, Second!CoopCalls, UNCHANGED own, others' = Second!Owed'
    PROVE  JointInv' /\ (circle_status_2 \notin Second!Closed => Second!Alone!CoopNext)
<1>1. Owed' = Owed /\ (Exact' <=> Exact)
  BY SharedUnmoved
<1>2. SharedInv /\ Second!SharedInv /\ Second!AllCovered
  BY BothCovered DEF JointInv
<1>3. /\ Second!SharedInv' /\ Second!AllCovered'
      /\ Second!Exact' => /\ Second!Exact
                          /\ bank = Second!Owed + Owed => bank' = Second!Owed' + Owed'
      /\ circle_status_2 \notin Second!Closed => Second!Alone!CoopNext
  BY <1>1, <1>2, SecondCall
<1>4. SharedInv'
  BY <1>2, <1>3, SecondAmountsNext, SharedStands
<1>5. Exact' /\ Second!Exact' => bank' = Second!Owed' + Owed'
  <2>1. Owed \in Nat /\ Second!Owed \in Nat
    BY <1>2, SharedAmounts, SecondAmounts
  <2>2. Exact' /\ Second!Exact' => bank = Owed + Second!Owed
    BY <1>1, <1>3 DEF JointInv, JointBooks
  <2>3. Exact' /\ Second!Exact' => bank = Second!Owed + Owed
    BY <2>1, <2>2
  <2> QED BY <1>3, <2>3
<1>6. JointBooks'
  <2>1. bank' >= Second!Owed' + Owed'
    BY <1>3 DEF Second!AllCovered
  <2> QED BY <1>3, <1>4, <1>5, <2>1, SharedAmountsNext, SecondAmountsNext, BooksAfter
<1> QED
  BY <1>3, <1>4, <1>6 DEF JointInv

\* A sweep takes all of the balance, when nothing on it is the other's.
LEMMA FirstSweeps ==
    ASSUME JointInv, SweepDust, Second!Owed = 0, UNCHANGED <<second, others>>
    PROVE  JointInv'
<1>1. SharedInv' /\ bank' = bank /\ Owed' = bank /\ bank \in Nat
  BY SharedSweep, SharedAmounts DEF JointInv
<1>2. Second!SharedInv' /\ Second!Owed' = 0
  BY <1>1, SecondUnmoved DEF JointInv
<1> QED
  BY <1>1, <1>2 DEF JointInv, JointBooks

LEMMA SecondSweeps ==
    ASSUME JointInv, Second!SweepDust, Owed = 0, UNCHANGED own, others' = Second!Owed'
    PROVE  JointInv'
<1>1. Second!SharedInv' /\ bank' = bank /\ Second!Owed' = bank /\ bank \in Nat
  BY SecondSweep, SecondAmounts DEF JointInv
<1>2. SharedInv' /\ Owed' = 0
  BY <1>1, SharedStands, SharedUnmoved DEF JointInv
<1> QED
  BY <1>1, <1>2 DEF JointInv, JointBooks

LEMMA JointInvInit == InitBoth => JointInv
<1> SUFFICES ASSUME InitBoth  PROVE JointInv
  OBVIOUS
<1>1. /\ CreatedCircle /\ Second!CreatedCircle /\ others = Second!Owed
      /\ bank = creator_lock_amount + creator_lock_amount_2
  BY DEF InitBoth
<1>2. creator_lock_amount \in Nat /\ creator_lock_amount_2 \in Nat
  BY <1>1, CreateCircleAccepts
     DEF CreatedCircle, compute_creator_lock,
         Second!CreatedCircle, Second!compute_creator_lock
<1>3. SharedInv /\ Owed = creator_lock_amount
  BY <1>1, <1>2, SharedCreated
<1>4. Second!SharedInv /\ Second!Owed = creator_lock_amount_2
  BY <1>1, <1>2, SecondCreated
<1> QED
  BY <1>1, <1>2, <1>3, <1>4 DEF JointInv, JointBooks

LEMMA JointInvNext ==
    ASSUME InTime, JointInv, [NextOfFirst \/ NextOfSecond]_both, [SweepsWait]_both
    PROVE  JointInv'
<1>1. CASE NextOfFirst /\ SweepsWait
  BY <1>1, FirstKeeps, FirstSweeps DEF NextOfFirst, SweepsWait
<1>2. CASE NextOfSecond /\ SweepsWait
  BY <1>2, SecondKeeps, SecondSweeps DEF NextOfSecond, SweepsWait
<1>3. CASE UNCHANGED both
  <2>1. UNCHANGED <<own, second, bank, others>>
    BY <1>3 DEF both
  <2>2. SharedInv' /\ Owed' = Owed /\ (Exact' <=> Exact)
    BY <2>1, SharedStands, SharedUnmoved, SharedAmounts DEF JointInv
  <2>3. Second!SharedInv' /\ Second!Owed' = Second!Owed /\ (Second!Exact' <=> Second!Exact)
    BY <2>1, SecondUnmoved, SecondAmounts DEF JointInv
  <2> QED BY <2>1, <2>2, <2>3 DEF JointInv, JointBooks
<1> QED
  BY <1>1, <1>2, <1>3

---------------------------------------------------------------------------
(* The refinement: a step of one circle, on what the other is not owed *)

LEMMA FirstStepAlone ==
    ASSUME InTime, JointInv, [NextOfFirst \/ NextOfSecond]_both, circle_status \notin Closed
    PROVE  Alone!CoopNext \/ UNCHANGED own
<1>1. CASE NextOfFirst
  <2>1. CoopCalls /\ UNCHANGED <<second, others>>
    BY <1>1 DEF NextOfFirst, SweepDust, Closed
  <2> QED BY <2>1, FirstKeeps
<1>2. CASE NextOfSecond
  BY <1>2 DEF NextOfSecond
<1>3. CASE UNCHANGED both
  BY <1>3 DEF both
<1> QED
  BY <1>1, <1>2, <1>3

LEMMA SecondStepAlone ==
    ASSUME InTime, JointInv, [NextOfFirst \/ NextOfSecond]_both,
           circle_status_2 \notin Second!Closed
    PROVE  Second!Alone!CoopNext \/ UNCHANGED second
<1>1. CASE NextOfSecond
  <2>1. Second!CoopCalls /\ UNCHANGED own /\ others' = Second!Owed'
    BY <1>1 DEF NextOfSecond, Second!SweepDust, Second!Closed
  <2> QED BY <2>1, SecondKeeps
<1>2. CASE NextOfFirst
  BY <1>2 DEF NextOfFirst
<1>3. CASE UNCHANGED both
  BY <1>3 DEF both
<1> QED
  BY <1>1, <1>2, <1>3

---------------------------------------------------------------------------
(* The theorems *)

\* As long as nobody sweeps one of two circles while the contract owes the
\* other anything, the circles of one balance do not use each other's money:
\* it covers what both are owed in every state, to the coin until one of them is
\* over, although the solvency check and the creator's refund are measured
\* against the sum.  The hypothesis is about the callers: SweepDust itself is
\* open to anybody and takes all of the balance.
THEOREM MoneyIsKeptWhileSweepsWait ==
    ASSUME InTime
    PROVE  SafetyOfBoth /\ [][SweepsWait]_both => []JointAccounts
<1>1. JointInv => JointAccounts
  BY DEF JointInv, JointBooks, JointAccounts, Exact, Second!Exact, Closed, Second!Closed
<1>2. JointInv /\ [NextOfFirst \/ NextOfSecond]_both /\ [SweepsWait]_both => JointInv'
  BY JointInvNext
<1> QED
  BY <1>1, <1>2, JointInvInit, PTL DEF SafetyOfBoth

\* Under the same hypothesis each circle implements, up to and including its
\* settlement, a circle that is alone on what the other is not owed, for every
\* two thresholds and all of CreateCircle's terms: what its handlers see of the
\* other's money does not change what they do.
THEOREM EachStandsAloneWhileSweepsWait ==
    ASSUME InTime
    PROVE  SafetyOfBoth /\ [][SweepsWait]_both => EachStandsAlone
<1>1. JointInv /\ [NextOfFirst \/ NextOfSecond]_both /\ [SweepsWait]_both => JointInv'
  BY JointInvNext
<1>2. JointInv /\ [NextOfFirst \/ NextOfSecond]_both =>
          [circle_status \notin Closed => Alone!CoopNext]_own
  BY FirstStepAlone
<1>3. JointInv /\ [NextOfFirst \/ NextOfSecond]_both =>
          [circle_status_2 \notin Second!Closed => Second!Alone!CoopNext]_second
  BY SecondStepAlone
<1> QED
  BY <1>1, <1>2, <1>3, JointInvInit, PTL DEF SafetyOfBoth, EachStandsAlone
=============================================================================
