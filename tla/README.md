# A formal model of the Safrimba savings-circle contract

The repository is a CosmWasm contract for savings circles: a group puts in a
contribution every round, and rounds pay the pot out to one member or to
everybody. This directory holds a TLA+ model of a circle, instances of it for
TLC, and theorems about it proved with TLAPS. Line numbers are those of
`src/src/execute.rs` unless another file is named; `PROJECT.json` maps every
definition to the lines it stands for.

## 1. The system

The contract runs one message at a time, and a handler that returns `Err`
reverts everything it wrote, the funds that came with it included. So there are
no threads: what is concurrent is the *people*. Members, the creator, strangers,
the off-chain keeper that closes rounds, and the block clock act in any order,
repeat calls whose answer they did not see, act late, or stop acting.

| Component | State | Operations |
|---|---|---|
| circle arithmetic | none | late fee, exit penalty, creator's lock, limit on missed rounds, distribution round, round in a cycle, payout shuffle |
| circle state and creation | `Circle`, and the maps beside it: deposits, payouts, locks, claims, misses, late fees, blocks | `CreateCircle` |
| membership and lifecycle | `members_list`, `pending_members`, `payout_order_list`, `circle_status`, the snapshot at the start | `JoinCircle`, `AcceptInvite`, `InviteMember`, `AddPrivateMember`, `BlockMember`, `ExitCircle`, `StartCircle`, `CancelCircle` |
| savings rounds | `current_cycle_index`, `next_payout_date`, deposits, misses, locks, pools | `DepositContribution`, `AdvanceRound`, `ProcessPayout` (with the finalization), `CheckAndEject` |
| treasury and switches | claims, fees, the balance | `Withdraw`, `WithdrawPlatformFees`, `SweepDust`, `DepositCreatorReward`, `DistributeBlockedFunds`, `PauseCircle`, `UnpauseCircle`, `EmergencyStop` |
| several circles | the contract's balance, one per denomination | every handler that reads it |
| queries (`query.rs`) | none | deposit requirement, payouts, distribution calendar; members, penalties, balances, ... |
| instantiate, migrate (`contract.rs`) | platform configuration, the stored circles | `instantiate`, `migrate` |
| metadata | display fields, pseudonyms, events | `UpdateCircle`, `UpdateMemberPseudonym` |

How they interact. Membership fixes the roster and, at the start, takes a
snapshot of its size (`members_at_start`), from which the number of rounds and
the limit on missed rounds follow. The rounds read the roster, prune it by
ejecting, and move money between five places: deposits of the current cycle,
locks, penalties, platform fees, and claims (`PENDING_PAYOUTS`). Claims leave by
`Withdraw` only. The balance is never stored by the contract: handlers ask the
bank for it, and treat whatever is above the claims as spendable. Circles of the
same denomination share that balance. The keeper is not part of the contract: it
asks the calendar query whether a round distributes and makes the matching call.
An upgrade runs `migrate`, which rewrites the stored circles between two messages.

What is hard:

* *order of calls*: a late deposit races the keeper's call that would charge the
  miss; a cancellation comes between a round and the payout of its cycle; a
  member is added, blocked, ejected, or leaves at any moment;
* *two calls close rounds*: `AdvanceRound` those that do not distribute,
  `ProcessPayout` those that do. Each decides from the roster, and each may eject
  members on the way, which changes which rounds distribute;
* *numbers kept twice*: totals beside their maps, a roster beside the payout
  order, two "last rounds" (`max_members` and `members_at_start`), synthetic
  deposits that are both a deposit and a use of a lock;
* *status*: several handlers do not look at it (`AddPrivateMember`,
  `EmergencyStop`, `ExitCircle` of a settled circle), so a circle can go back;
* *end of life*: rounding leaves coins behind, and `Completed` requires that
  none are left, of this circle or of another;
* *answers computed twice*: the queries recompute what handlers decide (which
  round distributes and to whom), and people act on the answer a message later;
* *upgrade of live circles*: `migrate` may meet a circle in any status.

What makes each component correct:

* arithmetic: the limit on missed rounds is what the lock covers, every seat has
  its round, the shuffle is a permutation;
* membership: the order names exactly the roster; life goes forming, running,
  over, and is not called off after a payout;
* rounds: no payout counts a contribution that was not made; a deposit record
  stands for money; a member is charged once for a round; rounds are closed no
  faster than the clock, and do not overshoot;
* treasury: the total of the claims is their sum; only its owner takes a claim;
  a settled circle owes nothing else, a completed one holds nothing;
* queries: the calendar names the call that works and the recipient who is paid,
  every payout on record is returned;
* migrate: running it again changes nothing, and it leaves every ledger alone;
* all together: the books balance, shares are fair, a circle whose people keep
  to its rules completes, and two circles on one balance do not use each
  other's money (which a sweep can break, section 6).

## 2. The modules

```
CircleMath        arithmetic, without state
  CircleState       configuration, VARIABLES, Init, readers and writers of a ledger
    CircleMembership  CircleRounds  CircleTreasury      one action per handler
      Circle            Next, Spec, the properties; refines CircleLifecycle
        CircleQueries     what two queries answer, against the handlers
          CircleClock       Circle beside a clock that counts from the start
          CircleCoop        Circle restricted to people who keep to its rules
            CircleAlone       one of those on a balance it shares; Alone, on a part of it
              TwoCircles        two of those on one balance
          CircleUpgrade     Circle with migrate between any two messages
            CircleDocs        what comments and documents say and the code does not keep
CircleLifecycle   abstract: phase, round, rounds paid
MCMath MCCircle MCClock MCUpgrade MCCoop MCTwoCircles MCDocs     instances

CircleMathProofs      arithmetic, sums, lists, least elements
  MCMathProofs          the properties of MCMath on every grid
  CircleProofs          ledgers
    CircleTypeProofs      roster, terms, schedule, records, the payout order
      CircleSafetyProofs    locks, fees, claims, settlement, the calendar, the
                            refinement, charges, queries and migrate
      CircleCoopProofs      the books of CircleCoop
        CircleAloneProofs     a shared balance against a part of it
          TwoCirclesProofs      two circles on one balance
```

A handler is one action, enabled exactly when the handler returns `Ok` and
changes something, with the checks in its guard and the loops, ejections, credits
and saves in its primed variables. Names are the source's. What the data became:

* An address is a model value. A storage map without an entry is 0 for amounts
  and `None` otherwise.
* `next_payout_date` is kept as `elapsed`, block time minus that date plus a
  cycle; the handlers only compare differences. The date moves on by a whole
  cycle when a round closes, so `elapsed` may already be positive then.
  `None` before the start. The model assumes a circle created without a start
  date.
* `PAYOUTS` is the set of rounds with a record, `DEPOSITS` per member the rounds
  with a record, real or synthetic.
* `must_pay` is `Receive`: the funds are on the balance, with what the payer
  sent above the price. `BankMsg::Send` is `Send`: not enabled when the balance
  does not cover it, because then the whole message is reverted.
* The loop over the missing members ejects some, and each ejection tightens the
  limit for those after it. `EjectedFrom` is the set the loop ends with: the one
  that holds exactly the members that fail under the limit in force at their
  turn.
* The seed of the payout shuffle (block time plus circle id) is any number below
  the length, since the shuffle only uses it modulo the length.
* Sums of maps are definitions (`SumOf`), as the number of coins. The running
  totals of the source are variables, with their saturating subtractions.
* `round_in_cycle(0)` wraps in `u32`, as the release profile does.

`CircleQueries` has two queries as operators with the names of `query.rs`, and
compares each with what it announces: `query_distribution_calendar` with
the call that closes the round, `query_payouts` with the records. The comparison
is an invariant or an action property of `Circle`, so it meets every state and
every step. `query_deposit_requirement` is not modelled: it counts missed rounds
and fees by the same expression as the handler (`query.rs` 467-482, 1354-1371).

`CircleClock` adds one history variable, `since`, the ticks since the last start.
The contract keeps a single date, which every closing call moves; `since` is what
tells whether the rounds still follow the calendar.

`CircleCoop` has the same actions, fewer: once the circle runs, each member
deposits before the round ends and nobody leaves or is blocked, and the keeper
makes the call the calendar announces, in the rounds it lists, and no other. It
asks what the circle promises its honest users.

`CircleUpgrade` adds `Migrate`: the backfill of `members_at_start`, then the
healing of circles that count as past their last round. The other two backfills
(`distribution_threshold`, `denomination`) change nothing the model tells apart.

`TwoCircles` has every variable of a circle twice, but one `bank`, and a step is
a call to one of them. What it promises is stated by a refinement,
`EachStandsAlone`: with the other's debts taken off the balance, each is a
`CircleCoop` of its own. `CircleAlone` says that of one circle: `others` is what
the other circles are owed, `Alone` an `INSTANCE` of `CircleCoop` with `bank -
others` for its balance. In `TwoCircles` the first circle is a `CircleAlone`
whose `others`, an auxiliary variable that no guard reads, is kept equal to what
the second is owed; the second is an `INSTANCE` of it, taken together with its
lemmas (`CircleAloneProofs`), where `others` is what the first is owed.

Anybody may sweep in `NextOfFirst` and `NextOfSecond`, at any time, as in the code:
`SweepDust` takes the whole balance. Then the accounts of the other circle are gone,
so the properties have a hypothesis that the code does not see to, `SweepsWait`:
nobody sweeps one circle while the contract owes the other anything. `TwoSpec`, the
specification of the run, and the two theorems about `SafetyOfBoth` both state it.
The run also leaves out pauses (`NobodyPauses`); the theorems do not.

`CircleLifecycle` is the abstract specification: `Start`, `SkipPayout`, `PayOut`,
`CallOff` over three variables. The mapping is `Phase`, `current_cycle_index` and
`PAYOUTS`.

## 3. The runs

Deadlock is not checked: a circle that is over, or a clock at its bound, really
stops.

| Run | Instance | Question |
|---|---|---|
| `math` | rates in steps of 20%, up to 6 members, 20 rounds or seeds | is the arithmetic what its reference definitions say? |
| `lifecycle` | 3 members, `Total`, one cycle, late fee 20%, exit 60% | any order of join, leave, default, catch up, eject, pause, cancel: does it implement the lifecycle, with whole locks, funded payouts, one charge for a missed round, a calendar and a payout query that tell the truth? |
| `threshold` | 3 members, one payout a round from the second on, random order, starts itself, a member blocked at any time | does the order follow the roster, is every deposit record paid for, does the calendar name the recipient? |
| `upgrade` | 2 members, `Total`, two cycles, order given at creation, clock two rounds deep, emergency stop, `migrate` at any time | no fee without a miss across cycles? No payout without its deposits, also in round 0? Is a second `migrate` a no-op? |
| `readmission` | 2 members, one of them added again without a lock; emergency stop, overpayments, reward | the states nobody planned: do claims and settlement survive them, and do rounds keep to the clock? |
| `coop_total` | 3 members, `Total`, two cycles | do the books balance, are shares fair, does the circle complete? |
| `coop_threshold` | 3 members, random order, payouts from the second round | the same with dust: it completes after a sweep |
| `two_circles` | a `Total` and a `MinMembers` circle of 3 people on one balance | does either take or block the other's money, as long as sweeps wait? |
| `doc_*` | 2 members | each refutes one sentence of the repository, section 6 |

What they show. `LifeIsLinear` holds over 585,000 states in `lifecycle`: rounds
go one by one, none is paid twice, and no cancellation follows a payout, as long
as nobody is added directly and the emergency stop is off. There, too, a member
that deposits is asked for no late fee that was not charged, and is charged no
more than once a round (`MissesAreChargedOnce`). `readmission` drops
both conditions (1,226,000 states) and shows what remains true: the total of the
claims, who takes them, an empty settled circle, no more rounds closed than
cycles of the clock have passed. `threshold` (415,000 states) shows that the roster and
the payout order are pruned together by every handler but the exit after the
start (strict mode closes that one here; `OrderFollowsRoster` covers it), and
that no lock ever covers a round it cannot pay. In `upgrade` (1,295,000 states) a
circle that was stopped before its start is unpaused in round 0 and pays it:
deposits and claims survive that. The accounts
(`AccountsBalance`) hold to the coin for people who keep to the rules; they do not
for others, see section 6. `two_circles` (25,600 states) shows that they also hold
for two circles together (`JointAccounts`) as long as sweeps wait, and that up to
and including its settlement each behaves as if it were alone, although the
solvency check of a payout and the creator's refund are measured against the
common balance. After the settlement that ends: `Completed` waits for the other's
money, and a sweep that does not wait takes it (section 6).

`CalendarKept` is conditional, and says under which conditions the calendar is
right: the order lists the active members, the call that closes the round ejects
nobody, and the configured count is within the roster. Outside them it is not
(section 6).

Bounds, and why they are enough. They are constants of `CircleState` and guards
of the model, not of the code.

* Two members give every relation between the creator and a member; three give
  two members that default together (the order of the loop matters then), and
  a roster that shrinks and still runs.
* The contribution is 10 and rates are multiples of 5%, so that fees, shares and
  penalties differ, and divisions leave remainders (a pot of 90 less 5% does not
  divide by 3).
* The rates set the number of missed rounds to the limit: with 60% and 20% it is
  2, so that a member can miss, catch up, and miss again up to it.
* `MaxElapsed` is one whole round, where one tick is enough to tell before and
  after; in `lifecycle` and `readmission` it is two rounds, so that overdue rounds
  are closed one after the other; in `upgrade` it is 4, two rounds of two ticks, with a grace period of
  one: a keeper that is a whole round late, and the grace period before, at and
  after its end.
* `MaxBank` only bounds surplus and repeated rewards where it is small
  (`readmission`, 53: the creator's lock, both deposits and a refilled lock, with 3 left for overpayments), and is
  out of reach elsewhere. In `readmission` the loops of ejecting or cancelling
  and adding again are cut by `MaxPenalties`, `MaxMisses` and `MaxPending`. The
  bounds let a circle restart after a payout, and re-admit a member that was
  ejected; both states are reached.
* Members other than the creator are symmetric in `lifecycle`. No action tells
  them apart except by their seat, and the properties there are safety
  properties. Runs with liveness use no symmetry.

### Fairness

`CoopSpec`. Members retry a deposit and the keeper retries its calls; a pause can
disable them again and again, so their fairness is strong. Nobody but the owner
can disable a `Withdraw`, so weak fairness does. `UnpauseCircle` is weakly fair:
the assumption is a creator that does not leave a pause forever, without which
nothing completes. `SweepDust` is the creator's own money, weakly fair. The clock
is `TimelyTick`: time passes, and the members deposit before the round is over.
The code schedules nothing itself, so these are assumptions about people, and
`RunningCompletes` says no more than that the contract does not stand in their
way. The keeper's fairness is on the calls the calendar announces: a calendar
that named the wrong call would stop the circle.

`TwoSpec`. Nobody pauses there, so weak fairness does: while a circle runs or
owes claims, somebody of it (a depositing member, one with a claim, the keeper,
the clock) has an enabled step and eventually takes one. It is on the disjunction
of those steps, one for each circle, and assumes nothing about sweeps.

`KeeperSpec`, of `doc_progress`, assumes the keeper and the clock only: the
members may do anything.

## 4. The properties

| Property | Says | Relates |
|---|---|---|
| `TypeOK` | types, with what no code checks: the round stays within `max_members * total_cycles`, the roster within `max_members` and without duplicates | start snapshot, two guards on the last round |
| `PendingTotalMatches` | the total is the sum of the claims | six handlers that credit or debit |
| `LocksAreWhole` | a lock is a whole contribution or nothing | refills, uses, refunds, ejections |
| `FeesWithinMisses` | no more late fees on record than misses on record | catch-up, ejection, exit and cancellation, which drop one or both |
| `MissesAreChargedOnce` | the late fees a deposit asks for are on record, and there is at most one for each round closed | the deposit's own count of missed rounds, the two closing calls, the mark of the last miss |
| `SettledIsEmpty` | `Finalizing` owes only claims, `Completed` holds nothing | settlement, last withdrawal, revival |
| `OrderMatchesRoster` | the order of a running circle is its roster | shuffle, exit, ejection |
| `ClaimsOnlyWithdrawn` | a claim shrinks only by being sent whole to its owner | every handler |
| `RoundsFollowTheClock` | since the start no more rounds were closed than whole cycles have passed | both closing calls, start, pause, stop, the history of the clock |
| `PayoutsAreFullyFunded` | a paid round has a deposit of every active member | ejection and lock use in the same call |
| `DepositsArePaidFor` | a deposit record came with money or out of that member's lock | deposit, lock use |
| `LifeIsLinear` | the refinement | all handlers |
| `AccountsBalance` | the balance is the sum of the ledgers, to the coin | all handlers |
| `SharesAreFair` | a `Total` payout gives each its money back, less fee, within one unit | pool, split |
| `CompletedRanEveryCycle` | a completed `Total` circle ran all its cycles | two last rounds |
| `RunningCompletes`, `CreditsArePaid` | liveness | balance against claims at the end |
| `CalendarKept` | the calendar names the call that closes a round, and its recipient | query, roster, order, two handlers |
| `PayoutsQueryIsComplete` | every payout on record is returned | the round now, the rounds paid |
| `MigrateIsIdempotent` | `migrate` of a migrated circle changes nothing | backfill, healing |
| `JointAccounts` | as long as sweeps wait, the balance covers what both circles owe, and is exactly that while both are open | both circles, the balance |
| `EachStandsAlone` | as long as sweeps wait, each is a circle of its own on what the other does not owe | refinement |
| `BothSettle` | liveness: both get through their rounds and pay every claim | each against the other's money |

Each has a mutant in `PROJECT.json`, a plausible mistake in one definition under
which its run fails.

## 5. The proofs

The theorems hold for every finite set of addresses, every configuration, and
every sequence of messages. They use these assumptions and no other:

* `CreateCircleAccepts`, the checks of `execute_create_circle`;
* `PlatformFeeBelowWhole`: `instantiate` does not check the fee, and at 100% a
  payout of zero would leave no record;
* `BoundsAreNatural`: finite `Addr`, natural bounds;
* `SecondCircleAccepted`: the second threshold passed the check of
  `execute_create_circle` too;
* `GridIsPositive`: the grid of `MCMath` has a positive step.

Some theorems have a hypothesis of their own, each because the statement is false
without it:

* `InTime`, of the theorems about money (`BooksBalance`, `EveryCycleIsRun`,
  `PayoutsAreShared`, `MoneyIsKeptWhileSweepsWait`,
  `EachStandsAloneWhileSweepsWait`), says what
  keeping to the rules is: `Surplus = {0}`, nobody sends more than the price (what
  is sent above it no ledger knows), and `MaxElapsed < 2 * CycleDuration`, the
  keeper is never a whole round late. Were it later, the next round would begin
  with its time already over, and its members would be charged before they could
  deposit.
* `NoRevival == Added = {} /\ ~emergency_stop_enabled`, of
  `CircleImplementsLifecycle`, `EveryPayoutIsQueried` and
  `MissesAreChargedExactly`: with it false, a circle can go back to round 1.
* `[][SweepsWait]_both`, of `MoneyIsKeptWhileSweepsWait` and
  `EachStandsAloneWhileSweepsWait`: without it one sweep takes all that the other
  circle owns. It is an assumption about the callers, and the strongest of these.
* `OrderIsGenerated`, of `OrderFollowsRoster`, is `NoRevival` and `create_order =
  None`: an order given at creation lists `max_members` people whoever joins.
* `OrderNamesOnce`, of `CalendarIsKept`, is `NoRevival` and an order without
  duplicates, generated or given. `create_circle` checks the length of a given
  order (607-613) and nothing else: an order that names somebody twice is
  longer than the roster, and the calendar, which takes its cycle from the order,
  then goes another way than the handlers, which take it from the roster.

The argument. Nearly everything needs to know that the amounts are natural
numbers, because the code subtracts; and that, in turn, needs the sum of the
claims, because a debit must not exceed the total. So the inductive invariant is

    LedgerInv == LedgerTypeOK /\ current_cycle_index \in Nat /\ PendingTotalMatches

with one lemma for each handler (`KeepsJoin`, `KeepsDeposit`, ...). The round is
in it because the number of rounds a member missed is counted up to it. The rest
of the type invariant comes in four parts, each with its own step lemma:

    TypeInv == LedgerInv /\ RosterInv /\ TermsInv /\ ScheduleInv /\ RecordsInv

`RosterInv` needs that the loop of the ejections ends with some set at all
(`EjectedFromIs`: the set of those already passed is built seat by seat) and what
`Vec::retain` and the shuffle do to a list; `TermsInv` is why `ScheduleInv` holds:
`members_at_start` never exceeds `max_members`, so the round that the guard of
one closing call lets through is within the bound that the other one checks.

| Theorem | Invariant | Why it is needed |
|---|---|---|
| `LedgersAreNatural`, `PendingTotalIsTheSum` | `LedgerInv` | |
| `CircleIsTyped` | `TypeInv` | as above |
| `LocksStayWhole` | `LockInv == LedgerInv /\ LocksAreWhole` | a refill is a contribution less what is left, and a use is at most that |
| `EveryDepositIsPaidFor` | `LockInv` | a synthetic deposit needs a positive use; whole locks make it a whole contribution |
| `EveryPayoutIsFunded` | `TypeInv` | who is listed after the call was listed before it and not ejected by it |
| `FeesMatchMisses` | `FeesInv` | both are charged for the same members in the same call |
| `ClaimsAreOnlyWithdrawn` | `LedgerInv` | every credit is at least zero |
| `SettlementLeavesNothing` | `SettledInv` | a ledger sums to zero exactly when every entry is zero |
| `RoundsKeepTheCalendar` | `TypeInv /\ CalendarInv`: the rounds closed since the start, times their length, and `elapsed` make exactly `since` | a round is closed only with a whole cycle on `elapsed`, and takes one off it |
| `MissesAreChargedExactly` | `TypeInv /\ ChargesInv` | see below |
| `OrderFollowsRoster` | `OrderInv`: a circle that can start has the order of its creation, a running one names nobody twice, and all members unless somebody else is in it | a start never takes over an order of an earlier roster |
| `CalendarIsKept` | `TypeInv /\ OrderInv` | see below |
| `CircleImplementsLifecycle` | `LifeInv`: paid rounds lie in `1..current_cycle_index`, there are none while the circle forms, and a running circle is at least in round 1 | a cancellation searches only the rounds up to the current one |
| `EveryPayoutIsQueried` | `LifeInv` | the query searches the same rounds |
| `UpgradesKeepTheLedgers` | `UpgradeInv == TypeInv /\ LocksAreWhole /\ FeesWithinMisses` | `SettledIsEmpty` is not in it: `migrate` breaks it (section 6) |
| `MigratingAgainChangesNothing` | `UpgradeInv` | a length is never `None` |
| `CoopIsACircle` | none: step by step | so the invariants above hold of `CircleCoop` too |
| `BooksBalance`, `EveryCycleIsRun`, `PayoutsAreShared` | `TypeInv /\ CoopInv` | see below |
| `MoneyIsKeptWhileSweepsWait`, `EachStandsAloneWhileSweepsWait` | `JointInv` | see below |
| `LimitsCoverTheLock`, `EverySeatHasItsTurn`, `OrdersArePermutations` | `GridInv`: a point of the grid is what `create_circle` accepts | they apply `LimitCoversTheLock`, `SeatsTakeTurns` and `ShuffleKeepsTheMembers`, which speak of all inputs |

`BooksBalance` is about money, yet most of `CoopInv` is about the calendar. A
`Total` payout takes `contribution * n * n` out of the deposits without counting
them, so the books balance only if exactly that is there: of the cycle being paid,
every member has every round, and of the cycles before it nothing is left.

    CoopInv   == CourseInv /\ BooksInv
    CourseInv == CrewInv /\ FormInv /\ PlayInv /\ CycleInv /\ OverInv
    BooksInv  == bank >= Owed /\ (Exact => bank = Owed)

`CrewInv` keeps the creator in and everybody unblocked, so that the roster does
not change while the circle runs; `PlayInv` keeps payouts and deposits to the
rounds that have begun, and says that a round that is over waits for nobody;
`CycleInv` keeps the round of a `Total` circle within the cycle that follows the
`n * cycles_completed` paid rounds, with all deposits of its earlier rounds;
`OverInv` says that a settled circle has paid its last cycle and its fees.
`RoundOfCycle` turns `round_in_cycle(n * k + s, n)` into `s`, which is how the
guards of the two closing calls are read: one lets the round move within the
cycle, the other leaves it only at its end (`PayoutIsOfACycle`). The deposits held
are then a product, members by rounds, of `n * n` pairs
(`PayoutSpendsTheDeposits`); a `MinMembers` payout takes the one round it pays.
The last payout credits all that the balance holds but the platform fees.
`PayoutsAreShared` adds that an equal split gives away its amount to the last
unit, whoever takes the remainder (`EqualSplitGivesAll`).

A `MinMembers` circle may end with deposits that no payout has paid out, and a
cancelled one with the creator's lock. `Exact` names the states whose books balance
to the coin, and `BooksInv` says of the others that the balance covers what is
owed.

`MoneyIsKeptWhileSweepsWait` rests on how that proof is laid out. Its step lemma does
not speak of the balance but of what is on it beyond the circle's own debts:

    Spare     == bank - Owed
    Conserves == Spare' >= Spare /\ (Exact' => Exact /\ Spare' = Spare)

`CallsKeep` proves `Conserves` of every call from `CourseInv` and `Spare >= 0`
alone, so it holds whoever else has money on the balance. Hence a step of one
circle never lowers what the other finds beyond the first one's debts, and

    JointInv   == SharedInv /\ Second!SharedInv /\ others = Second!Owed /\ JointBooks
    SharedInv  == TypeInv /\ CourseInv
    JointBooks == /\ bank >= Owed + Second!Owed
                  /\ Exact /\ Second!Exact => bank = Owed + Second!Owed

is inductive. A sweep takes the whole balance: `SweepsWait` says that nothing on it
is then the other's (`FirstSweeps`, `SecondSweeps`).

`EachStandsAloneWhileSweepsWait` maps a circle to a `CircleCoop` whose `bank` is another
expression, and the prover takes the definitions of the two for unrelated. So
`CircleAloneProofs` first shows, level by level, that what does not read the
balance is the same in both (the `Same...` lemmas), and then each handler that
does to be a step of the other: `Receive` and `Send` as long as the others stay
covered (`OthersCovered`), the solvency check of a payout, and the one place where
a larger balance could show, the creator's refund, the least of its lock and of
what claims and credits leave. `RefundIsTheLock` says that it is the whole lock on
any balance that covers what the circle owes, hence on both (`SameRefund`).
`CallsAlone` collects the handlers. The mapping ends with the settlement:
afterwards `Completed` waits for an empty balance, and the others' money keeps it
from coming.

The lemmas are proved once, of a circle with `others`, and gathered in
`SharedFacts`. The first circle has them as they are, the second through the
`INSTANCE`, once its assumptions are discharged (`SecondIsACircle`).

`MissesAreChargedExactly` relates two counts: the deposit subtracts the last round
on a deposit record from the current one, the closing calls put a fee on record.
`ChargesInv` has, beside the property itself, the mark of the last miss, which lies
before the current round for everybody listed: hence the call that closes a round
charges each member without a deposit in it, and not twice (`Charged`). One round
later either the last deposit is that of the closed round and nothing is due, or
one more fee is due and one more is on record (`MissedSince`).

`CalendarIsKept` is a proof that three pieces of code that count alike keep
doing so: the query takes the length of a cycle from the order, `AdvanceRound` from
the active members, `ProcessPayout` from the payees. `CalendarSizeIs` shows that
they are the same number wherever the calendar speaks (this is where `OrderInv` is
needed: an order that lists only members lists all of them), `RowIs` that the
round is then announced at the seat the handlers compute, `PayoutToActive` that
a call that ejects nobody pays all active members and pays something, so that
the recipient's claim does grow, and `OnlyTheKeeperCloses` that no third call
closes a round.

Sums of ledgers are cardinalities of sets of coins, so that the facts about them
(`SumOfPlus`, `SumOfWithout`) follow from the library's cardinality theorems and
no induction over data is needed. Where one is (a list without some members, a
shuffled list, the ejections seat by seat), it goes through the least element of
a set of natural numbers: `LeastNatural` comes from the well-foundedness of `<`,
and `SetInduction` and `RecursionExists` from it, none with an operator for a
parameter.

Only model-checked:

* liveness (`RunningCompletes`, `CreditsArePaid`, `BothSettle`) and everything
  about `ENABLED`, which the prover does not treat. Every invariant and action
  property that a passing run checks is also a theorem;
* the four disagreements of section 6, each a counterexample on an instance.

## 6. Where the code and its documents disagree

Each of the first four has a run whose counterexample shows it.

1. `doc_backed`: two mistakes meet. In a round before the last of a `MinMembers`
   circle the lock of a defaulter pays; this synthetic deposit counts as a deposit
   and again as a use of the lock (1906), so the pool is a contribution too large,
   and at the end only a part of the creator's lock is left for it. The last
   payout then takes all of the balance above the claims for spendable, its own
   platform fees included (1937), refunds the creator out of it, and sends the
   fees: more is owed than the balance holds, and one withdrawal fails. The
   comment at 1933-1934 says claims "must remain backed by bank balance".
2. `doc_cancel_balances`: two members deposit in the first round of a `Total`
   cycle, the round advances, the creator cancels in the second. The call returns
   the locks and the deposits of that round only (2852); those of the first stay
   on the contract, credited to nobody. The comment at 2768-2770 says the call
   "balances out to bank balance == sum(pending)".
3. `doc_migrate`: `migrate` takes a circle *in* its last round for one past it
   (`contract.rs:115` compares with `>=`, and `cycles_completed` counts payouts)
   and makes it `Finalizing` without any distribution. `contract.rs:106` speaks
   of circles "stuck in Running after their last calendar round", `state.rs:132`
   of a "final distribution to PENDING_PAYOUTS done". Its locks come
   back only by an exit; until then `SweepDust` hands them, with the deposits, to
   the creator.
4. `doc_progress`: a creator that misses a payout round is neither ejected nor
   covered by its lock, so every call of the keeper fails (1866). The comment at
   2429 says "rounds must always progress".

Seen while modelling, without a run of its own:

* adding a member makes a running circle `Full`; started again it is in round 1,
  so a circle that has paid out can be cancelled: the search for a payout ends at
  round 1 (2739);
* a member that leaves a `Completed` circle cancels it (969);
  `CONTRACT_STATES_EXPLAINED.md:126` calls the state final;
* `query_deposit_requirement` leaves out the refill of the lock, which the
  handler charges in the same payment (1440);
* the deposit forgives misses only if it finds a round missed (1500), and a round
  covered by the lock has a deposit record: a member that has never deposited itself
  and whose last miss was covered refills its lock, pays no late fee, and
  keeps fees and misses on record, although the comment at 1423-1424 says both
  "reset to zero";
* a second `BlockMember` overwrites the round of the first (3474), so that a
  member blocked long ago may deposit again and pays late fees for the rounds it
  was kept from;
* the calendar differs from the handlers once a member is blocked but listed,
  once the configured count exceeds the members that are left, and in the rounds
  beyond a calendar that shrank with the order, although `query.rs` calls it
  "kept in lockstep". `CalendarKept` excludes these states;
* `query_member_stats`, `query_member_balance`, `query_circle_deposits` and
  `query_circle_stats` walk cycles over maps whose keys are rounds, and report
  too little;
* `rounds_until_ejection` (`msg.rs:390`) knows neither the ejection for an
  insufficient lock nor the limit in force;
* `sweep_dust` counts the money of every circle of the denomination as its own
  (3204), and a settled circle stays `Finalizing` as long as another holds money
  there, although it owes nothing (`state.rs:132`). What is stated of two
  circles is stated as long as sweeps wait for the other (`SweepsWait`);
* `state.rs:231` equates `total_amount_locked` with the locks, but deposits add
  to it too (1525);
* `state.rs:232` says the creator has no entry among the member locks, but a
  creator that left before the start and was invited again gets one (841);
* the comment at `msg.rs:67` says no threshold means round 1; the code takes
  `None` as `Total`;
* `CONTRACT_STATES_EXPLAINED.md:99-100` freezes a paused circle, but a member
  may leave it (984);
* `cycles_completed` counts payouts, so it passes `total_cycles` in a
  `MinMembers` circle (2107, against `CONTRACT_STATES_EXPLAINED.md:117`);
* an exit computes the new limit from `max_members`, an ejection from
  `members_at_start`;
* deposits of the rounds before the first payout of a `MinMembers` circle are
  paid to nobody, and end as dust with the creator;
* `DistributeBlockedFunds` does not debit the locks it sends (3591), and can be
  repeated.

## 7. Not modelled

* The other queries: they list or sum stored values and no call depends on them;
  the deposit requirement repeats the expression of the handler.
* `instantiate`: its configuration is a constant.
* `UpdateCircle`, pseudonyms, events, `PENALTIES` records, paid and late lists,
  the private-member list and other fields no modelled guard reads.
* `Public` circles, which creation rejects: joining always needs an invitation.
* A start date given at creation; funds sent to the contract outside a message;
  overflow of `Uint128`, out of reach for real amounts.
* More than two circles on one balance, and two circles whose people do not keep
  to the rules: one of them can take the other's money with `SweepDust`, so
  nothing is left to state.
* Accounts of circles with defaulters or blocked members: the equality fails
  there, as `doc_backed` and `DistributeBlockedFunds` show.
* The message and error types, the scripts, the chain and the deployment.

## 8. Plan

Done: the arithmetic, one circle with every handler that moves money or status,
the abstract lifecycle, two queries, `migrate`, honest circles with liveness,
two of them on one balance, and a theorem for every invariant and action property
that a passing run checks. What would add most next:

1. Accounts of circles with defaulters, as an inequality where the equality
   fails, and a bound on what `DistributeBlockedFunds` can take.
2. A start date given at creation.
