--------------------------- MODULE CircleQueries ---------------------------
(***************************************************************************)
(* What the contract tells its callers before they call: the calendar the  *)
(* keeper follows, the payouts on record.                                  *)
(* query.rs computes each anew, apart from the handler that decides, so    *)
(* the properties compare the answer of a query with the step that follows.*)
(***************************************************************************)
EXTENDS Circle

---------------------------------------------------------------------------
(* query_payouts *)

\* Mutant: the rounds that were searched before the fix.
QueriedByPayouts == PAYOUTS \cap (1..cycles_completed)

query_payouts == PAYOUTS \cap (1..current_cycle_index)

\* query_payouts: "Iterate by round instead so every PAYOUT row is returned".
\* Holds when Added = {} and ~emergency_stop_enabled: a circle that goes back
\* to round 1 hides the rows of its earlier life.
PayoutsQueryIsComplete == query_payouts = PAYOUTS

---------------------------------------------------------------------------
(* query_distribution_calendar, of a circle that has started *)

\* Mutant: "using max_members here marked no round as a distribution round".
CalendarSizeOfMaxMembers == max_members

CalendarSize ==
    AtLeast(IF payout_order_list = None THEN max_members ELSE Len(payout_order_list), 1)

\* Mutant: whatever the threshold, at the end of the cycle.
FirstAnnouncedRoundIsLast == CalendarSize

\* MinMembers announces the configured count; the handlers cap it by the
\* members that are active.
FirstAnnouncedRound ==
    IF distribution_threshold = Total THEN CalendarSize ELSE distribution_threshold

CalendarSeat(round)  == ((round - 1) % CalendarSize) + 1
CalendarCycle(round) == ((round - 1) \div CalendarSize) + 1

\* An ejected member has left the order; one that was blocked is no longer
\* named in the cycles after the round of its block.
AnnouncedRecipient(round) ==
    LET m == payout_order_list[CalendarSeat(round)]
    IN  IF BLOCKED_MEMBERS[m] # None /\ CalendarCycle(round) > BLOCKED_MEMBERS[m] THEN None ELSE m

query_distribution_calendar ==
    [round \in 1..(IF payout_order_list = None THEN 0 ELSE total_cycles * Len(payout_order_list)) |->
        [distribution_occurs |-> CalendarSeat(round) >= FirstAnnouncedRound,
         recipient           |-> AnnouncedRecipient(round)]]

\* The calendar is "kept in lockstep" with the handlers, so that the keeper
\* does not "queue the wrong action": as long as the order lists the active
\* members, nobody is ejected by the call itself and the count is within the roster,
\* AdvanceRound closes exactly the rounds without an announced distribution,
\* ProcessPayout the others, and a MinMembers payout goes to the recipient
\* the calendar names.
CalendarKept ==
    [][LET calendar == query_distribution_calendar
           closes   == current_cycle_index' > current_cycle_index
           pays     == PAYOUTS' # PAYOUTS
       IN  /\ circle_status = "Running" /\ (closes \/ pays)
           /\ current_cycle_index \in DOMAIN calendar
           /\ Active = ToSet(payout_order_list) /\ members_list' = members_list
           /\ distribution_threshold <= Len(members_list)
           =>
           LET row == calendar[current_cycle_index]
           IN  /\ row.distribution_occurs <=> pays
               /\ pays /\ distribution_threshold # Total /\ circle_status' = "Running" =>
                      {m \in Addr : PENDING_PAYOUTS'[m] > PENDING_PAYOUTS[m]} = {row.recipient}]_vars
=============================================================================
