------------------------------ MODULE LocalTime ------------------------------
(***************************************************************************)
(* Wall-clock time of a seller's time zone: timezone.util.ts of            *)
(* src/src/modules/availability.  A conversion guesses that the wall clock *)
(* is UTC's, looks at what the wall clock would then show, corrects the    *)
(* guess by the difference, and does so at most six times.                 *)
(*                                                                         *)
(* An instant is a number of time units since the calendar begins; the     *)
(* calendar is a sequence of months (each with its year) and their         *)
(* lengths.  A zone's offset changes at most once.                         *)
(***************************************************************************)
EXTENDS Integers, Sequences

CONSTANTS
  Months,   \* the lengths of the months, in days
  Units,    \* time units in a day
  Zones     \* [before, after, shift]: the offsets before and from 'shift' on

DaysBefore[m \in 1..(Len(Months) + 1)] ==
  IF m = 1 THEN 0 ELSE DaysBefore[m - 1] + Months[m - 1]

(* Date.UTC of a wall time, a record of month, day and time of day.          *)
AsUtc(wall) == (DaysBefore[wall.month] + wall.day - 1) * Units + wall.time

Offset(zone, instant) == IF instant < zone.shift THEN zone.before ELSE zone.after

(* getZonedParts: what the wall clock shows at an instant.                   *)
Zoned(zone, instant) ==
  LET local == instant + Offset(zone, instant)
      day == local \div Units
      month == CHOOSE m \in 1..Len(Months) : DaysBefore[m] <= day /\ day < DaysBefore[m + 1]
  IN [month |-> month, day |-> day - DaysBefore[month] + 1, time |-> local % Units]

(* The difference the loop corrects: in days and time, whatever the month.   *)
Difference(shown, wall) == (shown.day - wall.day) * Units + (shown.time - wall.time)

(* zonedLocalDateTimeToUtc.  The loop ends early when the guess is right,    *)
(* and then the corrections left out here are zero.                          *)
ToUtc(zone, wall) ==
  LET guess[attempt \in 0..6] ==
        IF attempt = 0 THEN AsUtc(wall)
        ELSE LET utc == guess[attempt - 1]
             IN utc - Difference(Zoned(zone, utc), wall)
  IN guess[6]

(* addDaysToDateStr with one day.                                            *)
DayAfter(date) ==
  IF date.day = Months[date.month] THEN [month |-> date.month + 1, day |-> 1]
  ELSE [date EXCEPT !.day = @ + 1]

At(date, time) == [month |-> date.month, day |-> date.day, time |-> time]

(* utcDayRangeForLocalDate: where a local day begins and ends.               *)
DayRange(zone, date) ==
  [from |-> ToUtc(zone, At(date, 0)), to |-> ToUtc(zone, At(DayAfter(date), 0))]
=============================================================================
