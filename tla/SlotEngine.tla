----------------------------- MODULE SlotEngine -----------------------------
(***************************************************************************)
(* The slots a customer is offered: slot-engine.ts and getSlots of         *)
(* availability.service.ts.  The seller opens from one wall-clock time to  *)
(* another, in slots of fixed length; getSlots reads the bookings of the   *)
(* day and lists the slots that overlap none of them and, today, lie       *)
(* ahead.  Meanwhile time passes and bookings come and go.                 *)
(***************************************************************************)
EXTENDS LocalTime, FiniteSets

CONSTANTS
  Schedules,     \* [start, end, length] of an opening, in units of the wall clock
  Dates,         \* dates that customers ask for
  MaxBookings,   \* bound on bookings at a time
  MaxTicks       \* bound on the passing of time, in steps of half a day

VARIABLES
  zone, schedule,
  ticks,         \* time that has passed since noon UTC of the first date
  bookings,      \* active bookings (status pending or confirmed)
  asked,         \* the date of the last getSlots
  offered        \* what it returned

vars == <<zone, schedule, ticks, bookings, asked, offered>>

Earliest == CHOOSE d \in Dates : \A e \in Dates : AsUtc(At(d, 0)) <= AsUtc(At(e, 0))

now == AsUtc(At(Earliest, Units \div 2)) + ticks * (Units \div 2)

Init ==
  /\ zone \in Zones
  /\ schedule \in Schedules
  /\ ticks = 0
  /\ bookings = {}
  /\ asked = Earliest
  /\ offered = {}

-----------------------------------------------------------------------------
(* Mutant of Overlap: windows that touch are taken to overlap.               *)
OverlapOrTouch(a, b) == a.starts <= b.ends /\ a.ends >= b.starts

(* bookingsOverlap.                                                          *)
Overlap(a, b) == a.starts < b.ends /\ a.ends > b.starts

(* generateAvailableSlots: every step of the opening, but the taken ones.    *)
Steps == {t \in schedule.start..schedule.end :
            /\ (t - schedule.start) % schedule.length = 0
            /\ t + schedule.length <= schedule.end}

Available(date, taken) ==
  {s \in {[starts |-> ToUtc(zone, At(date, t)),
           ends   |-> ToUtc(zone, At(date, t + schedule.length))] : t \in Steps} :
     \A b \in taken : ~Overlap(s, b)}

(* filterFutureSlotsForToday.                                                *)
Future(slots, date) ==
  LET shown == Zoned(zone, now)
  IN IF [month |-> shown.month, day |-> shown.day] = date
     THEN {s \in slots : s.starts > now}
     ELSE slots

(* slotsForResource: only the bookings of the day are read.                  *)
Slots(date) ==
  LET day == DayRange(zone, date)
      read == {b \in bookings : b.starts < day.to /\ b.ends > day.from}
  IN Future(Available(date, read), date)

Ask(date) ==
  /\ asked' = date
  /\ offered' = Slots(date)
  /\ UNCHANGED <<zone, schedule, ticks, bookings>>

(* createBooking with a slot that was offered, if it is free now.            *)
Book(s) ==
  /\ s \in offered
  /\ Cardinality(bookings) < MaxBookings
  /\ \A b \in bookings : ~Overlap(s, b)
  /\ bookings' = bookings \cup {s}
  /\ UNCHANGED <<zone, schedule, ticks, asked, offered>>

Cancel(b) ==
  /\ bookings' = bookings \ {b}
  /\ UNCHANGED <<zone, schedule, ticks, asked, offered>>

Tick ==
  /\ ticks < MaxTicks
  /\ ticks' = ticks + 1
  /\ UNCHANGED <<zone, schedule, bookings, asked, offered>>

Next ==
  \/ \E date \in Dates : Ask(date)
  \/ \E s \in offered : Book(s)
  \/ \E b \in bookings : Cancel(b)
  \/ Tick

Spec == Init /\ [][Next]_vars

-----------------------------------------------------------------------------
(* The reference: the slots as a customer reads them off the wall.  A slot   *)
(* begins and ends when the wall clock shows the date and the times of the   *)
(* opening, whatever a conversion makes of them.                             *)
Showing(date, t) ==
  {i \in {AsUtc(At(date, t)) - zone.before, AsUtc(At(date, t)) - zone.after} :
     Zoned(zone, i) = At(date, t)}

Wall(date) ==
  UNION {{[starts |-> i, ends |-> j] :
            i \in Showing(date, t), j \in Showing(date, t + schedule.length)} : t \in Steps}

Today(date) == \E t \in 0..(Units - 1) : now \in Showing(date, t)

Span(s) == s.starts..(s.ends - 1)

Expected(date) ==
  LET today == Today(date)
  IN {s \in Wall(date) : /\ \A b \in bookings : Span(s) \cap Span(b) = {}
                         /\ today => s.starts > now}

(* Customers are offered exactly the slots of the date they asked for that   *)
(* are on the wall clock, free and not begun (test "hides booked slot and    *)
(* restores after cancel"; "converts a local calendar date + HH:mm in an     *)
(* IANA timezone to a UTC Date").                                            *)
OfferIsRight == offered' # offered => offered' = Expected(asked')

OffersAreRight == [][OfferIsRight]_vars
=============================================================================
