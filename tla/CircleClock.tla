---------------------------- MODULE CircleClock ----------------------------
(***************************************************************************)
(* The savings circle beside a calendar the contract does not keep: how    *)
(* long ago it was started.  The contract stores one date, that of the     *)
(* next payout, and each of the two round-closing calls moves it; the      *)
(* history variable tells whether the rounds still follow the calendar.    *)
(***************************************************************************)
EXTENDS CircleQueries

VARIABLE since   \* ticks since the last start

\* A start, by the creator or by the last member to join.
Starts == circle_status \notin {"Running", "Paused"} /\ circle_status' = "Running"

RecordTime == since' = CASE Starts -> 0
                         [] Tick   -> since + 1
                         [] OTHER  -> since

ClockSpec == Init /\ since = 0 /\ [][Next /\ RecordTime]_<<vars, since>>

\* Rounds follow the calendar: a round is closed only when its cycle of the
\* clock is over, and the cycle of the next one begins there.  However often
\* the keeper repeats a call, closes several overdue rounds in a row or finds
\* the circle paused, ejected from, stopped or started again, no more rounds
\* were closed than whole cycles have passed since the start.
RoundsFollowTheClock ==
    elapsed # None => (current_cycle_index - 1) * CycleDuration <= since
===========================================================================
