------------------------- MODULE BookingConversation -------------------------
(***************************************************************************)
(* A customer makes an appointment by tapping: the nodes pick_options,     *)
(* list_resources, list_slots and book_slot of src/src/modules/workflows/  *)
(* nodes and the helpers they share.  Each sends buttons and pauses; a tap *)
(* merges what its button stands for into the context and resumes at the   *)
(* node the button names.  Meanwhile time passes, others book, resources   *)
(* come and go.                                                            *)
(*                                                                         *)
(* The flow is a chain of nodes.  Time counts hours since a midnight UTC,  *)
(* a day is the number of a calendar day, a slot takes an hour.            *)
(***************************************************************************)
EXTENDS Integers, FiniteSets, Functions, SequencesExt

CONSTANTS
  Flows,         \* the flows to consider, as sequences of node ids
  Resources,
  Openings,      \* [resource -> hours of the day at which it can be booked]
  Services,      \* what may be booked (getAppointmentServices or the defaults)
  Offset,        \* hours by which the seller's clock is ahead of UTC
  India,         \* the same of Asia/Kolkata, which list_slots starts from
  Clock,         \* the times at which something happens, a sequence
  Texts,         \* answers to a question for the day
  MaxTroubles,   \* bound on messages that WhatsApp does not take
  MaxChanges,    \* bound on starting again, bookings of others, changes of the team
  None

VARIABLES
  flow,
  tick,          \* the place in Clock
  taken,         \* slots with an active booking
  active,        \* resources with is_active
  status,        \* of the execution: "none", "running", "waiting" or an end
  at,            \* the node it is at
  context,       \* its booking fields, those that are set
  shown,         \* the buttons that count: the template of the user state
  chosen,        \* the customer chose a time of day for the day and resource
  troubles, changes

vars == <<flow, tick, taken, active, status, at, context, shown, chosen, troubles, changes>>

Customer == <<status, at, context, shown, chosen>>

-----------------------------------------------------------------------------
(* Days, hours and times of day.                                             *)
now == Clock[tick]

Today(offset) == (now + offset) \div 24

(* What a customer may type for a day, besides a date.                       *)
SaidToday == -1
SaidTomorrow == -2
Unclear == -3

(* normalizePreferredDate: words are relative to now, dates are kept.        *)
Normalized(date, offset) ==
  CASE date = SaidToday    -> Today(offset)
    [] date = SaidTomorrow -> Today(offset) + 1
    [] date = Unclear      -> None
    [] OTHER               -> date

(* slotHourInTimeZone: without hour12 midnight is written 24 (timezone.util  *)
(* takes it modulo 24, this helper does not).                                *)
HourShown(t) == LET hour == (t + Offset) % 24 IN IF hour = 0 THEN 24 ELSE hour

Periods == {"morning", "afternoon", "evening", "night"}

(* slotMatchesTimePeriod and filterSlotsByTimePeriod.                        *)
Hours == [morning |-> 6..11, afternoon |-> 12..16, evening |-> 17..20,
          night |-> (21..24) \cup (0..5)]

OfPeriod(slots, period) == {s \in slots : HourShown(s.starts) \in Hours[period]}

(* isTimePeriodStillSelectableToday: tonight only once the night has begun,  *)
(* and nothing but the night in the hour after midnight.                     *)
StillSelectable(period) ==
  IF period = "night" THEN HourShown(now) \in Hours["night"]
  ELSE \E hour \in Hours[period] : HourShown(now) <= hour

(* getSlots of availability.service: slots that have begun are left out of   *)
(* today's, the slots of a day that has passed are not.                      *)
Slots(date, resource) ==
  LET free == {[resource |-> resource, starts |-> 24 * date + hour - Offset] :
                 hour \in Openings[resource]} \ taken
  IN IF date = Today(Offset) THEN {s \in free : s.starts > now} ELSE free

(* filterBookableTimePeriods.                                                *)
Bookable(slots, date, exclude) ==
  LET candidates == {p \in Periods \ {exclude} : slots = {} \/ OfPeriod(slots, p) # {}}
  IN IF date = Today(Offset)
     THEN {p \in candidates :
             /\ StillSelectable(p)
             /\ slots = {} \/ \E s \in OfPeriod(slots, p) : s.starts > now}
     ELSE candidates

-----------------------------------------------------------------------------
(* The buttons: where one leads, what it clears and what it stands for.      *)
Button(next, meta) == [next |-> next, retry |-> "no", meta |-> meta]
Retry(next, what) == [next |-> next, retry |-> what, meta |-> <<>>]

(* resolveNextNodeIdFromWorkflow.                                            *)
NodeAfter(node) == flow[1 + SelectInSeq(flow, LAMBDA n : n = node)]

(* resolveNextNodeAfterResources and resolveNextNodeAfterTimePeriod: nodes   *)
(* with the ids of the templates go first.                                   *)
Preferring(id, node) == IF id \in Range(flow) THEN id ELSE NodeAfter(node)

(* Mutant of PeriodButtons: without times of day there are no buttons.       *)
PeriodButtonsOf(next, periods) == {Button(next, [period |-> p]) : p \in periods}

(* buildTimePeriodPickItems: all of them where none is left.                 *)
PeriodButtons(next, periods) ==
  {Button(next, [period |-> p]) : p \in IF periods = {} THEN Periods ELSE periods}

(* buildQuickDatePickItems.                                                  *)
DayButtons(next, offset) ==
  {Button(next, [date |-> day]) : day \in {Today(offset), Today(offset) + 1}}

(* resolveBookingFlowNodeIds falls back on the ids of the templates, so the  *)
(* menu of buildBookingRetryItems is always complete.                        *)
RetryButtons(alternatives) ==
  {Button("list-slots", [period |-> p]) : p \in alternatives}
  \cup {Retry("pick-time-period", "time_period"), Retry("list-resources", "resource"),
        Retry("pick-date", "date")}

SlotButtons(next, slots, date, period) ==
  {Button(next, [resource |-> s.resource, slot |-> s, date |-> date, period |-> period]) :
     s \in slots}

-----------------------------------------------------------------------------
(* Field f of a context, None if it is not set.                              *)
Get(c, f) == IF f \in DOMAIN c THEN c[f] ELSE None

With(c, d) == [f \in DOMAIN c \cup DOMAIN d |-> IF f \in DOMAIN d THEN d[f] ELSE c[f]]

(* mergeCollectedIntoContext, before every walk: a typed day goes over a day *)
(* that was tapped since.                                                    *)
Merged(c) == IF "typed" \in DOMAIN c THEN With(c, [date |-> c.typed]) ELSE c

(* pick_options in its three modes.                                          *)
ServiceMenu == {Button(NodeAfter("pick-service"), [service |-> s]) : s \in Services}

DateMenu == DayButtons(NodeAfter("pick-date"), Offset)

TimePeriodMenu(c) ==
  LET date == Normalized(Get(c, "date"), Offset)
      periods == IF date = None \/ Get(c, "resource") = None THEN {}
                 ELSE Bookable(Slots(date, c.resource), date, None)
  IN PeriodButtons(Preferring("list-slots", "pick-time-period"), periods)

(* list_resources.                                                           *)
ResourceMenu ==
  IF active = {} THEN {Retry("pick-date", "date")}
  ELSE {Button(Preferring("pick-time-period", "list-resources"), [resource |-> r]) : r \in active}

(* list_slots: asks for a day or a time of day that is missing, lists the    *)
(* slots, or offers other ways (handleNoSlots).  The day is first read by    *)
(* the clock of India (a seller elsewhere whose customers type "today" may   *)
(* be shown the slots of another day), and promptForDateRetry offers days by *)
(* the clock of the server, which is UTC.                                    *)
AskForDay == DayButtons("list-resources", 0)

AskForPeriod(slots, date) == PeriodButtons("list-slots", Bookable(slots, date, None))

NoSlots(slots, date, period) == RetryButtons(Bookable(slots, date, period))

SlotMenu(c) ==
  LET asked == Normalized(Get(c, "date"), India)
      date == Normalized(Get(c, "date"), Offset)
      period == Get(c, "period")
      slots == Slots(asked, c.resource)
      listed == OfPeriod(slots, period)
  IN CASE asked = None -> AskForDay
       [] asked # None /\ period = None -> AskForPeriod(slots, date)
       [] asked # None /\ period # None ->
            IF listed = {} THEN NoSlots(slots, date, period)
            ELSE SlotButtons(NodeAfter("list-slots"), listed, date, period)

Menu(node, c) ==
  CASE node = "pick-service"     -> ServiceMenu
    [] node = "pick-date"        -> DateMenu
    [] node = "pick-time-period" -> TimePeriodMenu(c)
    [] node = "list-resources"   -> ResourceMenu
    [] node = "list-slots"       -> SlotMenu(c)
    [] OTHER                     -> {}

(* Lists of slots and resources that cannot be sent fail the execution; the  *)
(* other messages are repeated as text without buttons.                      *)
NeedsButtons(menu) == \E b \in menu : "resource" \in DOMAIN b.meta

(* Mutant of Cleared: another day leaves the time of day alone.              *)
ClearedSlotOnly(c, retry) ==
  LET gone == CASE retry = "resource" -> {"period", "resource", "slot"}
                [] retry \in {"date", "time_period"} -> {"slot"}
                [] OTHER -> {}
  IN Restrict(c, DOMAIN c \ gone)

(* applyBookingRetryContext.                                                 *)
Cleared(c, retry) ==
  LET gone == CASE retry = "date"        -> {"period", "slot"}
                [] retry = "resource"    -> {"period", "resource", "slot"}
                [] retry = "time_period" -> {"slot"}
                [] OTHER                 -> {}
  IN Restrict(c, DOMAIN c \ gone)

(* resumeWorkflowAtNode: what a tap makes of the context.                    *)
Tapped(c, b) == Merged(With(Cleared(c, b.retry), b.meta))

-----------------------------------------------------------------------------
Init ==
  /\ flow \in Flows
  /\ tick = 1
  /\ taken = {}
  /\ active = Resources
  /\ status = "none" /\ at = None /\ context = <<>>
  /\ shown = {}
  /\ chosen = FALSE
  /\ troubles = 0 /\ changes = 0

Changed == changes < MaxChanges /\ changes' = changes + 1

(* The customer writes "book": a flow starts, and one that waits behind      *)
(* buttons is given up (maybeRestartStuckBooking).                           *)
SaysBook ==
  /\ status # "running"
  /\ at # "ask-day" \/ status # "waiting"
  /\ status' = "running" /\ at' = Head(flow) /\ context' = <<>>
  /\ shown' = {} /\ chosen' = FALSE
  /\ IF status = "none" THEN UNCHANGED changes ELSE Changed
  /\ UNCHANGED <<flow, tick, taken, active, troubles>>

(* handleButtonResponse; taps on earlier messages are refused.               *)
Tap(b) ==
  /\ status = "waiting" /\ b \in shown
  /\ status' = "running" /\ at' = b.next
  /\ context' = Tapped(context, b)
  /\ shown' = {}
  /\ chosen' = IF b.retry \in {"date", "resource"} THEN FALSE
               ELSE chosen \/ "period" \in DOMAIN b.meta
  /\ UNCHANGED <<flow, tick, taken, active, troubles, changes>>

(* The answer to collect_input goes into the field of the day as it is.      *)
Types(text) ==
  /\ status = "waiting" /\ at = "ask-day"
  /\ status' = "running" /\ at' = NodeAfter("ask-day")
  /\ context' = Merged(With(context, [typed |-> text]))
  /\ UNCHANGED <<flow, tick, taken, active, shown, chosen, troubles, changes>>

(* A node that sends buttons.                                                *)
Send(delivered) ==
  LET menu == Menu(at, context)
  IN /\ status = "running" /\ at \in Range(flow) \ {"book-slot", "ask-day"}
     /\ delivered => menu # {}
     /\ shown' = IF delivered THEN menu ELSE {}
     /\ status' = IF delivered \/ ~NeedsButtons(menu) THEN "waiting" ELSE "failed"
     /\ troubles' = IF delivered \/ menu = {} THEN troubles ELSE troubles + 1
     /\ troubles' <= MaxTroubles
     /\ UNCHANGED <<flow, tick, taken, active, at, context, chosen, changes>>

AskDay ==
  /\ status = "running" /\ at = "ask-day" /\ at \in Range(flow)
  /\ status' = "waiting"
  /\ UNCHANGED <<flow, tick, taken, active, at, context, shown, chosen, troubles, changes>>

(* The engine ends quietly at a node that is not there: the fallback ids of  *)
(* a retry menu in a flow of the seller's own.                               *)
Missing ==
  /\ status = "running" /\ at \notin Range(flow)
  /\ status' = "over"
  /\ UNCHANGED <<flow, tick, taken, active, at, context, shown, chosen, troubles, changes>>

(* book_slot.  A slot that is gone is asked for again and again: the walk    *)
(* saves its context over the resumption at the list (WorkflowRuns).         *)
Book ==
  /\ status = "running" /\ at = "book-slot"
  /\ context.slot \notin taken \/ context.resource \notin active
  /\ IF context.resource \in active
     THEN status' = "booked" /\ taken' = taken \cup {context.slot}
     ELSE status' = "failed" /\ UNCHANGED taken
  /\ UNCHANGED <<flow, tick, active, at, context, shown, chosen, troubles, changes>>

-----------------------------------------------------------------------------
(* The world: time, other customers, and the seller's team.                  *)
Tick ==
  /\ tick < Len(Clock)
  /\ tick' = tick + 1
  /\ UNCHANGED <<flow, taken, active, Customer, troubles, changes>>

TakenByAnother(s) ==
  /\ Changed
  /\ s \notin taken
  /\ taken' = taken \cup {s}
  /\ UNCHANGED <<flow, tick, active, Customer, troubles>>

Cancelled(s) ==
  /\ Changed
  /\ s \in taken
  /\ taken' = taken \ {s}
  /\ UNCHANGED <<flow, tick, active, Customer, troubles>>

SetActive(r) ==
  /\ Changed
  /\ active' = IF r \in active THEN active \ {r} ELSE active \cup {r}
  /\ UNCHANGED <<flow, tick, taken, Customer, troubles>>

SomeSlots == UNION {Slots(day, r) : day \in {Today(Offset), Today(Offset) + 1}, r \in Resources}

Next ==
  \/ SaysBook
  \/ \E b \in shown : Tap(b)
  \/ \E text \in Texts : Types(text)
  \/ \E delivered \in BOOLEAN : Send(delivered)
  \/ AskDay \/ Missing \/ Book
  \/ Tick
  \/ \E s \in SomeSlots : TakenByAnother(s)
  \/ \E s \in taken : Cancelled(s)
  \/ \E r \in Resources : SetActive(r)

Spec == Init /\ [][Next]_vars

-----------------------------------------------------------------------------
(* The slots a customer is shown are of a time of day that they chose for    *)
(* the day and the resource at hand, however often they went back ("Clear    *)
(* stale booking fields when customer picks a retry menu option").           *)
PeriodWasChosen == (\E b \in shown : "slot" \in DOMAIN b.meta) => chosen

(* Where taps can lead while the world stands still.                         *)
Positions ==
  LET after(node, c, menu) == {[at |-> b.next, context |-> Tapped(c, b)] : b \in menu}
      reached[n \in 0..8] ==
        IF n = 0 THEN after(at, context, shown)
        ELSE LET before == reached[n - 1]
             IN before \cup UNION {IF p.at \in Range(flow) THEN after(p.at, p.context, Menu(p.at, p.context))
                                   ELSE {} : p \in before}
  IN reached[8]

CanBook == \E p \in Positions : p.at = "book-slot" /\ p.context.resource \in active
                                /\ p.context.slot \notin taken

(* The resource that was chosen has left, or all slots in front of the       *)
(* customer were taken since they were listed.                               *)
Overtaken ==
  \/ Get(context, "resource") \notin active \cup {None}
  \/ shown # {} /\ \A b \in shown : "slot" \in DOMAIN b.meta /\ b.meta.slot \in taken

(* A customer who waits behind buttons is never in a dead end: as long as    *)
(* somebody has a slot open tomorrow, tapping alone leads to a booking from  *)
(* wherever they are ("Retry menu when no slots match - loops back to date,  *)
(* resource, or time period nodes").                                         *)
AlwaysAWay ==
  /\ status = "waiting"
  /\ "pick-date" \in Range(flow)
  /\ shown # {} \/ troubles = 0
  /\ ~Overtaken
  /\ \E r \in active : Slots(Today(Offset) + 1, r) # {}
  => CanBook
=============================================================================
