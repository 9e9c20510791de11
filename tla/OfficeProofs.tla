---------------------------- MODULE OfficeProofs ----------------------------
(***************************************************************************)
(* What holds of the parts of OfficeParts for any values of their          *)
(* constants: of each an invariant, that it holds at first and that every  *)
(* step of the part preserves it; and at the end what follows for every    *)
(* behaviour in which one of them moves.                                   *)
(***************************************************************************)
EXTENDS OfficeParts, FiniteSetTheorems, SequenceTheorems, WellFoundedInduction, TLAPS

-----------------------------------------------------------------------------
(* A customer who taps their way to an appointment.                          *)

(* A time of day is there because it was chosen, and so is a slot in front   *)
(* of the customer; the ways back say nothing but where they lead.           *)
TalkInv ==
  /\ chosen \in BOOLEAN
  /\ "period" \in DOMAIN context => chosen
  /\ \A b \in shown :
       /\ b.retry \in {"date", "resource"} => b.meta = <<>>
       /\ "slot" \in DOMAIN b.meta => chosen

(* What a button is like, by where it comes from.                            *)
LEMMA ButtonsAre ==
  ASSUME NEW next
  PROVE  /\ \A what : Talk!Retry(next, what).meta = <<>>
         /\ \A meta : Talk!Button(next, meta).retry = "no" /\ Talk!Button(next, meta).meta = meta
         /\ \A periods : \A b \in Talk!PeriodButtons(next, periods) :
              b.retry = "no" /\ "slot" \notin DOMAIN b.meta
         /\ \A offset : \A b \in Talk!DayButtons(next, offset) :
              b.retry = "no" /\ "slot" \notin DOMAIN b.meta
<1>1. /\ \A what : Talk!Retry(next, what).meta = <<>>
      /\ \A meta : Talk!Button(next, meta).retry = "no" /\ Talk!Button(next, meta).meta = meta
  BY DEF Talk!Retry, Talk!Button
<1>2. ASSUME NEW periods, NEW b \in Talk!PeriodButtons(next, periods)
      PROVE  b.retry = "no" /\ "slot" \notin DOMAIN b.meta
  <2>1. PICK p : b = Talk!Button(next, [period |-> p])
    BY DEF Talk!PeriodButtons
  <2>2. b.retry = "no" /\ b.meta = [period |-> p]
    BY <1>1, <2>1
  <2>. QED
    BY <2>2
<1>3. ASSUME NEW offset, NEW b \in Talk!DayButtons(next, offset)
      PROVE  b.retry = "no" /\ "slot" \notin DOMAIN b.meta
  <2>1. PICK d : b = Talk!Button(next, [date |-> d])
    BY DEF Talk!DayButtons
  <2>2. b.retry = "no" /\ b.meta = [date |-> d]
    BY <1>1, <2>1
  <2>. QED
    BY <2>2
<1>. QED
  BY <1>1, <1>2, <1>3

(* A menu has slots only where a time of day is set.                         *)
LEMMA MenusAre ==
  ASSUME NEW place, NEW c, NEW b \in Talk!Menu(place, c)
  PROVE  /\ b.retry \in {"date", "resource"} => b.meta = <<>>
         /\ "slot" \in DOMAIN b.meta => "period" \in DOMAIN c
<1>. DEFINE Right(x) == /\ x.retry \in {"date", "resource"} => x.meta = <<>>
                        /\ "slot" \in DOMAIN x.meta => "period" \in DOMAIN c
<1>0. "slot" \notin DOMAIN <<>>
  OBVIOUS
<1>1. \A s : \A x \in {Talk!Button(Talk!NodeAfter("pick-service"), [service |-> s])} : Right(x)
  <2>1. \A s : "slot" \notin DOMAIN [service |-> s]
    OBVIOUS
  <2>. QED
    BY <2>1, ButtonsAre
<1>2. \A next : \A r : Right(Talk!Button(next, [resource |-> r]))
  <2>1. \A r : "slot" \notin DOMAIN [resource |-> r]
    OBVIOUS
  <2>. QED
    BY <2>1, ButtonsAre
<1>3. \A next, what : Right(Talk!Retry(next, what))
  BY <1>0, ButtonsAre
<1>4. \A next, periods : \A x \in Talk!PeriodButtons(next, periods) : Right(x)
  BY ButtonsAre
<1>5. \A next, offset : \A x \in Talk!DayButtons(next, offset) : Right(x)
  BY ButtonsAre
<1>6. \A p : Right(Talk!Button("list-slots", [period |-> p]))
  <2>1. \A p : "slot" \notin DOMAIN [period |-> p]
    OBVIOUS
  <2>. QED
    BY <2>1, ButtonsAre
<1>7. ASSUME Talk!Get(c, "period") # None,
             NEW next, NEW slots, NEW date, NEW period
      PROVE  \A x \in Talk!SlotButtons(next, slots, date, period) : Right(x)
  <2>1. "period" \in DOMAIN c
    BY <1>7 DEF Talk!Get
  <2>2. ASSUME NEW x \in Talk!SlotButtons(next, slots, date, period)
        PROVE  x.retry = "no"
    <3>1. PICK s : x = Talk!Button(next, [resource |-> s.resource, slot |-> s, date |-> date,
                                          period |-> period])
      BY <2>2 DEF Talk!SlotButtons
    <3>. QED
      BY <3>1, ButtonsAre
  <2>. QED
    BY <2>1, <2>2
<1>. HIDE DEF Right
<1>8. \A x \in Talk!ServiceMenu : Right(x)
  BY <1>1 DEF Talk!ServiceMenu
<1>9. \A x \in Talk!ResourceMenu : Right(x)
  BY <1>2, <1>3 DEF Talk!ResourceMenu
<1>10. \A x \in Talk!TimePeriodMenu(c) : Right(x)
  BY <1>4 DEF Talk!TimePeriodMenu
<1>11. \A alternatives : \A x \in Talk!RetryButtons(alternatives) : Right(x)
  BY <1>3, <1>6 DEF Talk!RetryButtons
<1>12. \A x \in Talk!SlotMenu(c) : Right(x)
  <2>. DEFINE asked == Talk!Normalized(Talk!Get(c, "date"), India)
              day == Talk!Normalized(Talk!Get(c, "date"), Zone)
              period == Talk!Get(c, "period")
              slots == Talk!Slots(asked, c.resource)
              listed == Talk!OfPeriod(slots, period)
  <2>1. \/ Talk!SlotMenu(c) = Talk!AskForDay
        \/ Talk!SlotMenu(c) = Talk!AskForPeriod(slots, day)
        \/ Talk!SlotMenu(c) = Talk!NoSlots(slots, day, period)
        \/ /\ period # None
           /\ Talk!SlotMenu(c) = Talk!SlotButtons(Talk!NodeAfter("list-slots"), listed, day, period)
    <3>. HIDE DEF asked, day, period, slots, listed
    <3>1. Talk!SlotMenu(c) =
            CASE asked = None -> Talk!AskForDay
              [] asked # None /\ period = None -> Talk!AskForPeriod(slots, day)
              [] asked # None /\ period # None ->
                   IF listed = {} THEN Talk!NoSlots(slots, day, period)
                   ELSE Talk!SlotButtons(Talk!NodeAfter("list-slots"), listed, day, period)
      BY DEF asked, day, period, slots, listed, Talk!SlotMenu
    <3>2. CASE asked = None
      BY <3>1, <3>2
    <3>3. CASE asked # None /\ period = None
      BY <3>1, <3>3
    <3>4. CASE asked # None /\ period # None
      BY <3>1, <3>4
    <3>. QED
      BY <3>2, <3>3, <3>4
  <2>2. \A x \in Talk!AskForDay : Right(x)
    BY <1>5 DEF Talk!AskForDay
  <2>3. \A x \in Talk!AskForPeriod(slots, day) : Right(x)
    BY <1>4 DEF Talk!AskForPeriod
  <2>4. \A x \in Talk!NoSlots(slots, day, period) : Right(x)
    BY <1>11 DEF Talk!NoSlots
  <2>5. period # None =>
          \A x \in Talk!SlotButtons(Talk!NodeAfter("list-slots"), listed, day, period) : Right(x)
    BY <1>7
  <2>. HIDE DEF asked, day, period, slots, listed
  <2>. QED
    BY <2>1, <2>2, <2>3, <2>4, <2>5
<1>13. \A x \in Talk!Menu(place, c) : Right(x)
  <2>1. CASE place = "pick-service"
    BY <1>8, <2>1 DEF Talk!Menu
  <2>2. CASE place = "pick-date"
    BY <1>5, <2>2 DEF Talk!Menu, Talk!DateMenu
  <2>3. CASE place = "pick-time-period"
    BY <1>10, <2>3 DEF Talk!Menu
  <2>4. CASE place = "list-resources"
    BY <1>9, <2>4 DEF Talk!Menu
  <2>5. CASE place = "list-slots"
    BY <1>12, <2>5 DEF Talk!Menu
  <2>6. CASE place \notin {"pick-service", "pick-date", "pick-time-period", "list-resources", "list-slots"}
    BY <2>6 DEF Talk!Menu
  <2>. QED
    BY <2>1, <2>2, <2>3, <2>4, <2>5, <2>6
<1>. QED
  BY <1>13 DEF Right

LEMMA NothingIsSet == DOMAIN <<>> = {}
  OBVIOUS

LEMMA TalkInitially == Talk!Init => TalkInv
  BY NothingIsSet DEF Talk!Init, TalkInv

LEMMA TalkStep ==
  ASSUME TalkInv, [Talk!Next]_talkVars
  PROVE  TalkInv'
<1>1. ASSUME UNCHANGED <<context, chosen>>, shown' \subseteq shown
      PROVE  TalkInv'
  BY <1>1 DEF TalkInv
<1>2. CASE Talk!SaysBook
  BY <1>2, NothingIsSet DEF Talk!SaysBook, TalkInv
<1>3. ASSUME NEW b \in shown, Talk!Tap(b)
      PROVE  TalkInv'
  <2>1. /\ shown' = {} /\ context' = Talk!Tapped(context, b)
        /\ chosen' = IF b.retry \in {"date", "resource"} THEN FALSE
                     ELSE chosen \/ "period" \in DOMAIN b.meta
    BY <1>3 DEF Talk!Tap
  <2>2. /\ DOMAIN context' \subseteq
             DOMAIN Talk!Cleared(context, b.retry) \cup DOMAIN b.meta \cup {"date"}
    BY <2>1 DEF Talk!Tapped, Talk!Merged, Talk!With
  <2>3. CASE b.retry \in {"date", "resource"}
    <3>1. "period" \notin DOMAIN Talk!Cleared(context, b.retry)
      BY <2>3 DEF Talk!Cleared, Talk!Restrict
    <3>2. b.meta = <<>> /\ chosen' = FALSE
      BY <2>1, <2>3 DEF TalkInv
    <3>3. "period" \notin DOMAIN context'
      BY <2>2, <3>1, <3>2
    <3>. QED
      BY <2>1, <3>2, <3>3 DEF TalkInv
  <2>4. CASE b.retry \notin {"date", "resource"}
    <3>1. DOMAIN Talk!Cleared(context, b.retry) \subseteq DOMAIN context
      BY DEF Talk!Cleared, Talk!Restrict
    <3>2. "period" \in DOMAIN context' => chosen \/ "period" \in DOMAIN b.meta
      BY <2>2, <3>1 DEF TalkInv
    <3>. QED
      BY <2>1, <2>4, <3>2 DEF TalkInv
  <2>. QED
    BY <2>3, <2>4
<1>4. ASSUME NEW text \in Texts, Talk!Types(text)
      PROVE  TalkInv'
  <2>1. /\ shown' = shown /\ chosen' = chosen
        /\ context' = Talk!Merged(Talk!With(context, [typed |-> text]))
    BY <1>4 DEF Talk!Types
  <2>2. DOMAIN context' \subseteq DOMAIN context \cup {"typed", "date"}
    BY <2>1 DEF Talk!Merged, Talk!With
  <2>. QED
    BY <2>1, <2>2 DEF TalkInv
<1>5. ASSUME NEW delivered \in BOOLEAN, Talk!Send(delivered)
      PROVE  TalkInv'
  <2>1. /\ UNCHANGED <<context, chosen>>
        /\ shown' = {} \/ shown' = Talk!Menu(at, context)
    BY <1>5 DEF Talk!Send
  <2>. QED
    BY <2>1, MenusAre DEF TalkInv
<1>6. CASE Talk!AskDay \/ Talk!Missing \/ Talk!Book
  BY <1>1, <1>6 DEF Talk!AskDay, Talk!Missing, Talk!Book
<1>7. CASE \/ Talk!Tick \/ \E s : Talk!TakenByAnother(s) \/ Talk!Cancelled(s)
           \/ \E r : Talk!SetActive(r)
  BY <1>1, <1>7 DEF Talk!Tick, Talk!TakenByAnother, Talk!Cancelled, Talk!SetActive, Talk!Customer
<1>8. CASE UNCHANGED talkVars
  BY <1>1, <1>8 DEF talkVars
<1>. QED
  BY <1>2, <1>3, <1>4, <1>5, <1>6, <1>7, <1>8 DEF Talk!Next

-----------------------------------------------------------------------------
(* A flow with a schedule and a token.                                       *)
FlowRow == [definition : Trigger!Definitions, type : Trigger!Definitions, cron : BOOLEAN,
            token : Nat \cup {None}, live : BOOLEAN]

TriggerTypes ==
  /\ minute \in Nat /\ jobs \subseteq Nat /\ ticked \subseteq 0..minute /\ edited \in 0..minute
  /\ check \in [Twins -> [step : {"idle", "checks", "starts"}, at : Nat]]
  /\ workflow \in FlowRow
  /\ editor \in [Twins -> [step : {"idle", "derive", "clear"}, definition : Trigger!Definitions,
                           token : Nat \cup {None}, made : Nat]]
  /\ starts \in Seq([slot : Int, at : Nat])
  /\ revisions \in Nat /\ crossed \in BOOLEAN

(* The minute whose tick waits is the one that runs, and a tick that was     *)
(* taken is through two minutes later.                                       *)
OnTime ==
  /\ \A j \in jobs : j % Minute = 0 /\ j <= minute /\ minute < j + Minute
  /\ \A v \in Twins : check[v].step # "idle" =>
       check[v].at <= minute /\ minute < check[v].at + 2 * Minute

(* The slot that a tick finds is near.                                       *)
DueAt(t, s) == s \in Marks /\ Trigger!Last(t) = s /\ s <= t /\ t <= s + Reach

StartsAreDue ==
  /\ \A v \in Twins : check[v].step = "starts" =>
       \E s \in Marks : DueAt(check[v].at, s)
  /\ \A i \in DOMAIN starts :
       /\ starts[i].slot \in Marks /\ starts[i].slot <= starts[i].at /\ starts[i].at <= minute
       /\ starts[i].at < starts[i].slot + Reach + 2 * Minute

(* What may still start a run of slot s, or has: the two minutes whose ticks *)
(* look at it, ticks that do, and its runs.                                  *)
Chances(s) ==
  {<<"minute", m>> : m \in {n \in {s, s + Minute} : n > minute \/ n \in jobs}}
  \cup {<<"tick", v>> : v \in {w \in Twins : check[w].step # "idle" /\ DueAt(check[w].at, s)}}
  \cup {<<"run", i>> : i \in {k \in DOMAIN starts : starts[k].slot = s}}

TwoChances ==
  \A s \in Marks : IsFiniteSet(Chances(s)) /\ Cardinality(Chances(s)) <= 2

(* As long as edits do not overlap, one is at work at a time, and when none  *)
(* is the columns of a live flow are those of its definition.                *)
Columns ==
  /\ \A e \in Twins : editor[e].step = "idle" <=> editor[e] = Trigger!NoEdit
  /\ ~crossed =>
       /\ \A e, f \in Twins : editor[e].step # "idle" /\ editor[f].step # "idle" => e = f
       /\ \A e \in Twins :
            /\ editor[e].step = "derive" => editor[e].definition = workflow.definition
            /\ editor[e].step = "clear" => ~workflow.live
       /\ (\A e \in Twins : editor[e].step = "idle") /\ workflow.live =>
            /\ workflow.type = workflow.definition
            /\ workflow.cron = (workflow.definition = "schedule")

(* A tick near a slot has started its run, or an edit came in between.       *)
SlotsAreRun ==
  \A s \in Marks :
    /\ Trigger!Settled /\ edited < s /\ workflow.live /\ workflow.definition = "schedule"
    /\ \E t \in ticked : s <= t /\ t <= s + Reach
    => \E i \in DOMAIN starts : starts[i].slot = s

(* The delivery that claimed a key is the one that starts an execution.      *)
CalledOnce ==
  /\ hook \in [Twins -> [step : {"new", "claimed", "answered"}, token : Nat]]
  /\ called \in [Trigger!Tokens -> Nat]
  /\ \A d \in Twins : hook[d].step = "claimed" => hook[d].token \in Trigger!Tokens \cap claimed
  /\ \A k \in Trigger!Tokens :
       /\ called[k] <= 1
       /\ k \notin claimed => called[k] = 0
       /\ \A d \in Twins : hook[d].step = "claimed" /\ hook[d].token = k => called[k] = 0
  /\ \A d, e \in Twins :
       hook[d].step = "claimed" /\ hook[e].step = "claimed" /\ hook[d].token = hook[e].token
       => d = e

TriggerInv ==
  /\ TriggerTypes /\ OnTime /\ StartsAreDue /\ TwoChances /\ Columns /\ SlotsAreRun /\ CalledOnce

(* Numbers have a least one, and whole minutes are a minute apart.           *)
LEMMA LeastNumber ==
  ASSUME NEW T \in SUBSET Nat, T # {}
  PROVE  \E x \in T : \A y \in T : x <= y
<1>. DEFINE R == OpToRel(<, Nat)
<1>1. IsWellFoundedOn(R, Nat)
  BY NatLessThanWellFounded
<1>2. \A x, y \in Nat : y < x => <<y, x>> \in R
  BY DEF OpToRel
<1>. HIDE DEF R
<1>3. PICK x \in T : \A y \in T : ~(<<y, x>> \in R)
  BY <1>1, WFMin
<1>4. \A y \in T : ~(y < x)
  BY <1>2, <1>3
<1>5. \A y \in T : x <= y
  BY <1>4
<1>. QED
  BY <1>5

LEMMA WholeMinutes ==
  ASSUME NEW a \in Nat, a % Minute = 0
  PROVE  /\ \E k \in Nat : a = Minute * k
         /\ \A c \in Nat : c % Minute = 0 /\ a < c => a + Minute <= c
<1>. Minute \in Nat \ {0}
  BY TriggerConstants
<1>1. ASSUME NEW n \in Nat, n % Minute = 0
      PROVE  n = Minute * (n \div Minute) /\ n \div Minute \in Nat
  BY <1>1
<1>2. ASSUME NEW c \in Nat, c % Minute = 0, a < c
      PROVE  a + Minute <= c
  <2>1. PICK k \in Nat, j \in Nat : a = Minute * k /\ c = Minute * j
    BY <1>1, <1>2
  <2>2. k < j
    BY <1>2, <2>1
  <2>3. Minute * k + Minute <= Minute * j
    BY <2>2
  <2>. QED
    BY <2>1, <2>3
<1>. QED
  BY <1>1, <1>2

LEMMA ScheduleNumbers ==
  /\ Minute \in Nat /\ Minute > 0 /\ Reach \in Nat /\ Recent \in Nat /\ Reach < 2 * Minute
  /\ \A s \in Marks : s \in Nat /\ s % Minute = 0
  /\ \A s, r \in Marks : s < r => s + Reach + 2 * Minute + Recent <= r
  /\ \A n \in Nat : n <= n /\ n < n + Minute
  BY TriggerConstants

(* The last slot is the last one.                                            *)
LEMMA LastSlot ==
  ASSUME NEW t \in Nat
  PROVE  /\ Trigger!Last(t) \in {s \in Marks : s <= t} \cup {-Reach - 1}
         /\ \A s \in Marks : s <= t => s <= Trigger!Last(t)
<1>. DEFINE S == {s \in Marks : s <= t} \cup {-Reach - 1}
            T == {t - x : x \in S}
<1>1. \A x \in S : x \in Int /\ x <= t
  BY ScheduleNumbers
<1>2. T \in SUBSET Nat /\ T # {}
  BY <1>1
<1>. HIDE DEF S
<1>3. PICK d \in T : \A e \in T : d <= e
  BY <1>2, LeastNumber
<1>4. PICK m \in S : d = t - m
  BY <1>3
<1>5. \A x \in S : t - m <= t - x
  BY <1>3, <1>4
<1>6. \A x \in S : m >= x
  BY <1>1, <1>5
<1>7. Trigger!Last(t) = CHOOSE x \in S : \A y \in S : x >= y
  BY DEF S, Trigger!Last, Trigger!Max
<1>8. Trigger!Last(t) \in S /\ \A y \in S : Trigger!Last(t) >= y
  BY <1>6, <1>7
<1>9. \A y \in S : y <= Trigger!Last(t)
  BY <1>1, <1>8
<1>. QED
  BY <1>8, <1>9 DEF S

LEMMA NearSlots ==
  ASSUME NEW t \in Nat
  PROVE  /\ t - Trigger!Last(t) <= Reach => DueAt(t, Trigger!Last(t))
         /\ \A s \in Marks : s <= t /\ t <= s + Reach => DueAt(t, s)
         /\ \A s : DueAt(t, s) => t - Trigger!Last(t) <= Reach /\ Trigger!Last(t) = s
<1>. DEFINE l == Trigger!Last(t)
<1>1. /\ l \in {s \in Marks : s <= t} \cup {-Reach - 1}
      /\ \A s \in Marks : s <= t => s <= l
  BY LastSlot
<1>2. l \in Int
  BY <1>1, ScheduleNumbers
<1>. HIDE DEF l
<1>3. t - l <= Reach => l \in Marks /\ l <= t /\ t <= l + Reach
  BY <1>1, <1>2, ScheduleNumbers
<1>4. ASSUME NEW s \in Marks, s <= t, t <= s + Reach
      PROVE  l = s
  <2>1. s <= l /\ l \in Marks /\ l <= t
    BY <1>1, <1>4, ScheduleNumbers
  <2>2. ~(s < l)
    BY <1>4, <2>1, ScheduleNumbers
  <2>. QED
    BY <2>1, <2>2, ScheduleNumbers
<1>5. ASSUME NEW s, s \in Marks, l = s, s <= t, t <= s + Reach
      PROVE  t - l <= Reach
  BY <1>5, ScheduleNumbers
<1>. QED
  BY <1>3, <1>4, <1>5 DEF DueAt, l

(* One chance for another leaves two at most.                                *)
LEMMA Exchange ==
  ASSUME NEW S, NEW T, NEW x \in S, NEW y, IsFiniteSet(S), Cardinality(S) <= 2,
         T \subseteq (S \ {x}) \cup {y}
  PROVE  IsFiniteSet(T) /\ Cardinality(T) <= 2
<1>1. IsFiniteSet(S \ {x}) /\ Cardinality(S \ {x}) = Cardinality(S) - 1 /\ Cardinality(S) \in Nat
  BY FS_RemoveElement, FS_CardinalityType
<1>2. /\ IsFiniteSet((S \ {x}) \cup {y})
      /\ Cardinality((S \ {x}) \cup {y}) <= Cardinality(S)
      /\ Cardinality((S \ {x}) \cup {y}) \in Nat
  <2>. DEFINE R == S \ {x}
  <2>. HIDE DEF R
  <2>1. IsFiniteSet(R) /\ Cardinality(R) = Cardinality(S) - 1 /\ Cardinality(S) \in Nat
    BY <1>1 DEF R
  <2>2. /\ IsFiniteSet(R \cup {y})
        /\ Cardinality(R \cup {y}) = IF y \in R THEN Cardinality(R) ELSE Cardinality(R) + 1
    BY <2>1, FS_AddElement
  <2>3. Cardinality(R \cup {y}) <= Cardinality(S) /\ Cardinality(R \cup {y}) \in Nat
    BY <2>1, <2>2, FS_CardinalityType
  <2>. QED
    BY <2>2, <2>3 DEF R
<1>3. IsFiniteSet(T) /\ Cardinality(T) <= Cardinality((S \ {x}) \cup {y}) /\ Cardinality(T) \in Nat
  BY <1>2, FS_Subset, FS_CardinalityType
<1>. QED
  BY <1>1, <1>2, <1>3

LEMMA FewerChances ==
  ASSUME NEW S, NEW T, IsFiniteSet(S), Cardinality(S) <= 2, T \subseteq S
  PROVE  IsFiniteSet(T) /\ Cardinality(T) <= 2
<1>1. IsFiniteSet(T) /\ Cardinality(T) <= Cardinality(S)
  BY FS_Subset
<1>2. Cardinality(S) \in Nat /\ Cardinality(T) \in Nat
  BY <1>1, FS_CardinalityType
<1>. QED
  BY <1>1, <1>2

-----------------------------------------------------------------------------
(* What leaves a conjunct alone.                                             *)
LEMMA TicksStay ==
  ASSUME TriggerInv, UNCHANGED <<minute, jobs, check, starts>>
  PROVE  OnTime' /\ StartsAreDue' /\ TwoChances'
<1>1. OnTime' /\ StartsAreDue'
  BY DEF TriggerInv, OnTime, StartsAreDue, DueAt
<1>2. \A s : Chances(s)' = Chances(s)
  BY DEF Chances, DueAt
<1>. QED
  BY <1>1, <1>2 DEF TriggerInv, TwoChances

LEMMA ColumnsStay ==
  ASSUME TriggerInv, UNCHANGED <<workflow, editor, crossed>>
  PROVE  Columns'
  BY DEF TriggerInv, Columns, Trigger!NoEdit

LEMMA CallsStay ==
  ASSUME TriggerInv, UNCHANGED <<hook, claimed, called>>
  PROVE  CalledOnce'
  BY DEF TriggerInv, CalledOnce

LEMMA TriggerInitially == Trigger!Init => TriggerInv
<1>. SUFFICES ASSUME Trigger!Init
              PROVE  TriggerInv
  OBVIOUS
<1>. USE DEF Trigger!Init
<1>1. TriggerTypes
  <2>1. workflow \in FlowRow
    BY DEF FlowRow, Trigger!Definitions
  <2>2. check \in [Twins -> [step : {"idle", "checks", "starts"}, at : Nat]]
    BY DEF Trigger!NoTick
  <2>3. editor \in [Twins -> [step : {"idle", "derive", "clear"}, definition : Trigger!Definitions,
                               token : Nat \cup {None}, made : Nat]]
    BY DEF Trigger!Definitions, Trigger!NoEdit
  <2>4. starts \in Seq([slot : Int, at : Nat])
    OBVIOUS
  <2>5. /\ minute \in Nat /\ jobs \subseteq Nat /\ ticked \subseteq 0..minute /\ edited \in 0..minute
        /\ revisions \in Nat /\ crossed \in BOOLEAN
    <3>1. /\ minute = 0 /\ jobs = {0} /\ ticked = {} /\ edited = 0 /\ revisions = 0
          /\ crossed = FALSE
      OBVIOUS
    <3>. HIDE DEF Trigger!Init
    <3>2. {0} \subseteq Nat /\ 0 \in 0..0 /\ 0 \in Nat
      OBVIOUS
    <3>. QED
      BY <3>1, <3>2
  <2>. QED
    BY <2>1, <2>2, <2>3, <2>4, <2>5 DEF TriggerTypes
<1>2. OnTime
  <2>1. 0 % Minute = 0 /\ Minute > 0 /\ 0 < 0 + Minute
    BY TriggerConstants
  <2>. QED
    BY <2>1 DEF OnTime, Trigger!NoTick
<1>3. StartsAreDue
  BY DEF StartsAreDue, Trigger!NoTick
<1>4. TwoChances
  <2>. SUFFICES ASSUME NEW s \in Marks
                PROVE  IsFiniteSet(Chances(s)) /\ Cardinality(Chances(s)) <= 2
    BY DEF TwoChances
  <2>. DEFINE x == <<"minute", s>>
              y == <<"minute", s + Minute>>
  <2>1. Chances(s) \subseteq {x} \cup {y}
    BY DEF Chances, Trigger!NoTick
  <2>. HIDE DEF x, y
  <2>. DEFINE S == {x}
  <2>2. IsFiniteSet(S) /\ Cardinality(S) = 1
    BY FS_Singleton
  <2>. HIDE DEF S
  <2>3. /\ IsFiniteSet(S \cup {y})
        /\ Cardinality(S \cup {y}) = IF y \in S THEN Cardinality(S) ELSE Cardinality(S) + 1
    BY <2>2, FS_AddElement
  <2>4. Cardinality(S \cup {y}) <= 2
    BY <2>2, <2>3
  <2>5. Chances(s) \subseteq S \cup {y}
    BY <2>1 DEF S
  <2>. QED
    BY <2>3, <2>4, <2>5, FewerChances
<1>5. Columns
  BY DEF Columns, Trigger!NoEdit
<1>6. SlotsAreRun
  BY DEF SlotsAreRun
<1>7. CalledOnce
  BY DEF CalledOnce, Trigger!NoCall, Trigger!Tokens
<1>. QED
  BY <1>1, <1>2, <1>3, <1>4, <1>5, <1>6, <1>7 DEF TriggerInv

LEMMA RunsAre ==
  ASSUME NEW q \in Seq([slot : Int, at : Nat]), NEW i \in DOMAIN q
  PROVE  q[i].slot \in Int /\ q[i].at \in Nat
<1>. DEFINE S == [slot : Int, at : Nat]
<1>1. q \in Seq(S)
  OBVIOUS
<1>. HIDE DEF S
<1>2. q[i] \in S
  BY <1>1
<1>. QED
  BY <1>2 DEF S

-----------------------------------------------------------------------------
(* Time.  The next time is not beyond the next whole minute.                 *)
LEMMA NextTime ==
  ASSUME minute \in Nat, {t \in Trigger!Times : t > minute} # {}
  PROVE  LET next == {t \in Trigger!Times : t > minute}
         IN /\ Trigger!Min(next) \in Nat /\ Trigger!Min(next) > minute
            /\ Trigger!Min(next) \in Trigger!Times
            /\ \A t \in next : Trigger!Min(next) <= t
<1>. DEFINE next == {t \in Trigger!Times : t > minute}
<1>1. \A m \in Nat, d \in Delays : Minute * m + d \in Nat
  BY TriggerConstants
<1>2. next \in SUBSET Nat
  BY <1>1, TriggerConstants DEF Trigger!Times
<1>3. PICK x \in next : \A y \in next : x <= y
  BY <1>2, LeastNumber
<1>4. Trigger!Min(next) \in next /\ \A y \in next : Trigger!Min(next) <= y
  BY <1>3 DEF Trigger!Min
<1>. QED
  BY <1>2, <1>4

(* A job due at a whole minute may run there and then.                       *)
LEMMA MinuteMarks ==
  \A m \in 0..Minutes : Minute * m + 0 \in Trigger!Times
<1>1. 0 \in Delays
  BY TriggerConstants
<1>2. ASSUME NEW m \in 0..Minutes
      PROVE  Minute * m + 0 \in {Minute * n + d : n \in 0..Minutes, d \in Delays}
  <2>. DEFINE x == Minute * m + 0
  <2>1. \E n \in 0..Minutes, d \in Delays : x = Minute * n + d
    BY <1>1
  <2>. QED
    BY <2>1
<1>. QED
  BY <1>2 DEF Trigger!Times

(* A minute is not over before the next one begins.                          *)
LEMMA MinuteGoesOn ==
  ASSUME minute \in Nat, {t \in Trigger!Times : t > minute} # {},
         NEW j \in Nat, j % Minute = 0, j <= minute, minute < j + Minute,
         NEW c, c = Trigger!Min({t \in Trigger!Times : t > minute}), c % Minute # 0
  PROVE  c < j + Minute
<1>. DEFINE next == {t \in Trigger!Times : t > minute}
<1>1. /\ c \in Nat /\ c > minute /\ c \in Trigger!Times
      /\ \A t \in next : c <= t
  BY NextTime
<1>. HIDE DEF next
<1>2. PICK k \in Nat : j = Minute * k
  BY WholeMinutes
<1>3. /\ Minute * (k + 1) = j + Minute /\ (Minute * (k + 1)) % Minute = 0
      /\ j + Minute \in Nat
  BY <1>2, ScheduleNumbers
<1>4. CASE k + 1 <= Minutes
  <2>1. Minute * (k + 1) + 0 \in Trigger!Times
    BY <1>2, <1>4, MinuteMarks
  <2>2. j + Minute \in next
    BY <1>3, <2>1 DEF next
  <2>3. c <= j + Minute /\ c # j + Minute
    BY <1>1, <1>3, <2>2
  <2>. QED
    BY <1>1, <1>3, <2>3
<1>5. CASE ~(k + 1 <= Minutes)
  <2>1. PICK m \in 0..Minutes, d \in Delays : c = Minute * m + d
    BY <1>1 DEF Trigger!Times
  <2>2. m \in Nat /\ m <= k /\ d \in Nat /\ d < Minute
    BY <1>5, TriggerConstants
  <2>3. Minute * m <= Minute * k
    BY <2>2, ScheduleNumbers
  <2>. QED
    BY <1>2, <2>1, <2>2, <2>3, ScheduleNumbers
<1>. QED
  BY <1>4, <1>5

LEMMA PassKeeps ==
  ASSUME TriggerInv, Trigger!Pass
  PROVE  TriggerInv'
<1>. DEFINE next == {t \in Trigger!Times : t > minute}
<1>1. /\ next # {} /\ minute' = Trigger!Min(next)
      /\ minute' % Minute = 0 => jobs = {}
      /\ \A v \in Twins : check[v] = Trigger!NoTick \/ minute' < check[v].at + 2 * Minute
      /\ jobs' = IF minute' % Minute = 0 THEN jobs \cup {minute'} ELSE jobs
      /\ UNCHANGED <<check, starts, ticked, lost, hook, claimed, called,
                     workflow, editor, revisions, edited, crossed>>
  BY DEF Trigger!Pass, Trigger!hookVars, Trigger!editVars
<1>2. minute \in Nat /\ minute' \in Nat /\ minute' > minute
  BY <1>1, NextTime DEF TriggerInv, TriggerTypes
<1>3. TriggerTypes'
  <2>1. 0..minute \subseteq 0..minute'
    BY <1>2
  <2>. QED
    BY <1>1, <1>2, <2>1 DEF TriggerInv, TriggerTypes
<1>4. OnTime'
  <2>1. ASSUME NEW j \in jobs'
        PROVE  j % Minute = 0 /\ j <= minute' /\ minute' < j + Minute
    <3>1. CASE minute' % Minute = 0
      <4>1. j = minute'
        BY <1>1, <2>1, <3>1
      <4>2. minute' <= minute' /\ minute' < minute' + Minute
        BY <1>2, ScheduleNumbers
      <4>. QED
        BY <3>1, <4>1, <4>2
    <3>2. CASE minute' % Minute # 0
      <4>1. j \in jobs /\ j \in Nat /\ j % Minute = 0 /\ j <= minute /\ minute < j + Minute
        BY <1>1, <2>1, <3>2 DEF TriggerInv, TriggerTypes, OnTime
      <4>2. minute' < j + Minute
        BY <1>1, <1>2, <3>2, <4>1, MinuteGoesOn
      <4>. QED
        BY <1>2, <4>1, <4>2
    <3>. QED
      BY <3>1, <3>2
  <2>2. ASSUME NEW v \in Twins, check[v].step # "idle"
        PROVE  check[v].at <= minute' /\ minute' < check[v].at + 2 * Minute
    <3>1. check[v] # Trigger!NoTick
      BY <2>2 DEF Trigger!NoTick
    <3>2. check[v].at \in Nat /\ check[v].at <= minute
      BY <2>2 DEF TriggerInv, TriggerTypes, OnTime
    <3>. QED
      BY <1>1, <1>2, <3>1, <3>2
  <2>. QED
    BY <1>1, <2>1, <2>2 DEF OnTime
<1>5. StartsAreDue'
  <2>1. ASSUME NEW i \in DOMAIN starts
        PROVE  starts[i].at <= minute'
    <3>1. starts \in Seq([slot : Int, at : Nat]) /\ starts[i].at <= minute
      BY DEF TriggerInv, TriggerTypes, StartsAreDue
    <3>2. starts[i].at \in Nat
      BY <3>1, RunsAre
    <3>. QED
      BY <1>2, <3>1, <3>2
  <2>. QED
    BY <1>1, <2>1 DEF TriggerInv, StartsAreDue, DueAt
<1>6. TwoChances'
  <2>. SUFFICES ASSUME NEW s \in Marks
                PROVE  IsFiniteSet(Chances(s)') /\ Cardinality(Chances(s)') <= 2
    BY DEF TwoChances
  <2>1. ASSUME NEW n \in {s, s + Minute}, n > minute' \/ n \in jobs'
        PROVE  n > minute \/ n \in jobs
    <3>1. n \in Nat
      BY ScheduleNumbers
    <3>. QED
      BY <1>1, <1>2, <2>1, <3>1
  <2>2. Chances(s)' \subseteq Chances(s)
    BY <1>1, <2>1 DEF Chances, DueAt
  <2>. QED
    BY <2>2, FewerChances DEF TriggerInv, TwoChances
<1>7. SlotsAreRun'
  BY <1>1 DEF TriggerInv, SlotsAreRun, Trigger!Settled, Trigger!NoEdit
<1>. QED
  BY <1>1, <1>3, <1>4, <1>5, <1>6, <1>7, ColumnsStay, CallsStay DEF TriggerInv

-----------------------------------------------------------------------------
(* A tick of the minute is lost, taken, or decides that nothing is due.      *)
LEMMA FirstJob ==
  ASSUME TriggerInv, jobs # {}
  PROVE  Trigger!Min(jobs) \in jobs
<1>1. PICK x \in jobs : \A y \in jobs : x <= y
  BY LeastNumber DEF TriggerInv, TriggerTypes
<1>. QED
  BY <1>1 DEF Trigger!Min

LEMMA LoseTickKeeps ==
  ASSUME TriggerInv, Trigger!LoseTick
  PROVE  TriggerInv'
<1>1. /\ jobs' \subseteq jobs
      /\ UNCHANGED <<minute, check, starts, ticked, hook, claimed, called,
                     workflow, editor, revisions, edited, crossed>>
  BY DEF Trigger!LoseTick, Trigger!hookVars, Trigger!editVars
<1>2. TriggerTypes' /\ OnTime' /\ StartsAreDue'
  BY <1>1 DEF TriggerInv, TriggerTypes, OnTime, StartsAreDue, DueAt
<1>3. TwoChances'
  <2>1. \A s : Chances(s)' \subseteq Chances(s)
    BY <1>1 DEF Chances, DueAt
  <2>. QED
    BY <2>1, FewerChances DEF TriggerInv, TwoChances
<1>4. SlotsAreRun'
  BY <1>1 DEF TriggerInv, SlotsAreRun, Trigger!Settled, Trigger!NoEdit
<1>. QED
  BY <1>1, <1>2, <1>3, <1>4, ColumnsStay, CallsStay DEF TriggerInv

(* A time that was ticked is added: of each slot near it there is a run, or  *)
(* the flow is not as it was then.                                           *)
LEMMA Ticked ==
  ASSUME TriggerInv, NEW t \in 0..minute,
         ticked' \subseteq ticked \cup {t}, UNCHANGED <<workflow, editor, edited, crossed>>,
         \A i \in DOMAIN starts : i \in DOMAIN starts' /\ starts'[i] = starts[i],
         ASSUME NEW s \in Marks, DueAt(t, s), Trigger!Settled, edited < s, workflow.live,
                workflow.type = "schedule", workflow.cron
         PROVE  \E i \in DOMAIN starts' : starts'[i].slot = s
  PROVE  SlotsAreRun'
<1>. SUFFICES ASSUME NEW s \in Marks, Trigger!Settled, edited < s, workflow.live,
                     workflow.definition = "schedule",
                     NEW u \in ticked', s <= u, u <= s + Reach
              PROVE  \E i \in DOMAIN starts' : starts'[i].slot = s
  BY DEF SlotsAreRun, Trigger!Settled, Trigger!NoEdit
<1>1. CASE u \in ticked
  BY <1>1 DEF TriggerInv, SlotsAreRun
<1>2. CASE u = t
  <2>1. DueAt(t, s)
    BY <1>2, NearSlots DEF TriggerInv, TriggerTypes
  <2>2. workflow.type = "schedule" /\ workflow.cron
    BY DEF Trigger!Settled, TriggerInv, Columns, TriggerTypes, FlowRow, Trigger!NoEdit
  <2>. QED
    BY <2>1, <2>2
<1>. QED
  BY <1>1, <1>2

LEMMA TakeTickKeeps ==
  ASSUME TriggerInv, NEW v \in Twins, Trigger!TakeTick(v)
  PROVE  TriggerInv'
<1>. DEFINE m == Trigger!Min(jobs)
<1>1. /\ jobs # {} /\ check[v] = Trigger!NoTick /\ jobs' = jobs \ {m}
      /\ check' = [check EXCEPT ![v] = IF Trigger!Scheduled
                                       THEN [step |-> "checks", at |-> minute] ELSE @]
      /\ ticked' = IF Trigger!Scheduled THEN ticked ELSE ticked \cup {minute}
      /\ UNCHANGED <<minute, starts, hook, claimed, called,
                     workflow, editor, revisions, edited, crossed>>
  BY DEF Trigger!TakeTick, Trigger!hookVars, Trigger!editVars
<1>2. m \in jobs /\ m \in Nat /\ m % Minute = 0 /\ m <= minute /\ minute < m + Minute
  BY <1>1, FirstJob DEF TriggerInv, TriggerTypes, OnTime
<1>. HIDE DEF m
<1>3. minute \in Nat
  BY DEF TriggerInv, TriggerTypes
<1>4. TriggerTypes'
  <2>1. minute \in 0..minute /\ [step |-> "checks", at |-> minute]
                                  \in [step : {"idle", "checks", "starts"}, at : Nat]
    BY <1>3
  <2>. QED
    BY <1>1, <2>1 DEF TriggerInv, TriggerTypes
<1>5. OnTime' /\ StartsAreDue'
  <2>1. \A w \in Twins : \/ check'[w] = check[w]
                         \/ check'[w].step = "checks" /\ check'[w].at = minute
    BY <1>1 DEF TriggerInv, TriggerTypes
  <2>2. minute <= minute /\ minute < minute + 2 * Minute
    BY <1>3, ScheduleNumbers
  <2>3. OnTime'
    BY <1>1, <2>1, <2>2 DEF TriggerInv, OnTime
  <2>4. StartsAreDue'
    BY <1>1, <2>1 DEF TriggerInv, StartsAreDue, DueAt
  <2>. QED
    BY <2>3, <2>4
<1>6. TwoChances'
  <2>. SUFFICES ASSUME NEW s \in Marks
                PROVE  IsFiniteSet(Chances(s)') /\ Cardinality(Chances(s)') <= 2
    BY DEF TwoChances
  <2>0. \A w \in Twins : w # v => check'[w] = check[w]
    BY <1>1 DEF TriggerInv, TriggerTypes
  <2>1. CASE Trigger!Scheduled /\ DueAt(minute, s)
    <3>1. s \in Nat /\ s % Minute = 0 /\ s <= minute /\ minute <= s + Reach
      BY <2>1, ScheduleNumbers DEF DueAt
    <3>2. m \in {s, s + Minute}
      <4>1. s <= m
        <5>1. m < s => m + Minute <= s
          BY <1>2, <3>1, WholeMinutes
        <5>. QED
          BY <1>2, <1>3, <3>1, <5>1, ScheduleNumbers
      <4>2. s < m => s + Minute <= m
        BY <1>2, <3>1, WholeMinutes
      <4>3. s + Minute < m => s + Minute + Minute <= m
        <5>1. (s + Minute) % Minute = 0 /\ s + Minute \in Nat
          <6>1. PICK k \in Nat : s = Minute * k
            BY <3>1, WholeMinutes
          <6>2. s + Minute = Minute * (k + 1) /\ (Minute * (k + 1)) % Minute = 0
            BY <6>1, ScheduleNumbers
          <6>. QED
            BY <3>1, <6>2, ScheduleNumbers
        <5>. QED
          BY <1>2, <5>1, WholeMinutes
      <4>. QED
        BY <1>2, <1>3, <3>1, <4>1, <4>2, <4>3, ScheduleNumbers
    <3>. DEFINE x == <<"minute", m>>
                y == <<"tick", v>>
    <3>3. x \in Chances(s)
      BY <1>2, <3>2 DEF Chances
    <3>4. Chances(s)' \subseteq (Chances(s) \ {x}) \cup {y}
      <4>1. m \notin jobs' /\ ~(m > minute')
        BY <1>1, <1>2, <1>3
      <4>2. x \notin Chances(s)'
        BY <4>1 DEF Chances
      <4>3. Chances(s)' \subseteq Chances(s) \cup {y}
        BY <1>1, <2>0 DEF Chances, DueAt
      <4>. QED
        BY <4>2, <4>3
    <3>. HIDE DEF x, y
    <3>. QED
      BY <3>3, <3>4, Exchange DEF TriggerInv, TwoChances
  <2>2. CASE ~(Trigger!Scheduled /\ DueAt(minute, s))
    <3>1. ~(check'[v].step # "idle" /\ DueAt(check'[v].at, s))
      BY <1>1, <2>2 DEF TriggerInv, TriggerTypes, Trigger!NoTick
    <3>2. Chances(s)' \subseteq Chances(s)
      BY <1>1, <2>0, <3>1 DEF Chances, DueAt
    <3>. QED
      BY <3>2, FewerChances DEF TriggerInv, TwoChances
  <2>. QED
    BY <2>1, <2>2
<1>7. SlotsAreRun'
  <2>1. CASE Trigger!Scheduled
    BY <1>1, <2>1 DEF TriggerInv, SlotsAreRun, Trigger!Settled, Trigger!NoEdit
  <2>2. CASE ~Trigger!Scheduled
    <3>1. minute \in 0..minute /\ ticked' \subseteq ticked \cup {minute}
      BY <1>1, <1>3
    <3>. QED
      BY <1>1, <2>2, <3>1, Ticked DEF Trigger!Scheduled
  <2>. QED
    BY <2>1, <2>2
<1>. QED
  BY <1>1, <1>4, <1>5, <1>6, <1>7, ColumnsStay, CallsStay DEF TriggerInv

(* The run that stands in the way of another is one of the same slot.        *)
LEMMA RecentIsSame ==
  ASSUME TriggerInv, NEW s \in Marks, NEW t \in Nat, s <= t, t <= s + Reach,
         minute < t + 2 * Minute,
         NEW i \in DOMAIN starts, ~(starts[i].at < t - Recent)
  PROVE  starts[i].slot = s
<1>. DEFINE r == starts[i].slot
            a == starts[i].at
<1>1. r \in Marks /\ r <= a /\ a <= minute /\ a < r + Reach + 2 * Minute
  BY DEF TriggerInv, StartsAreDue
<1>2. a \in Nat /\ minute \in Nat
  BY RunsAre DEF TriggerInv, TriggerTypes
<1>3. ~(a < t - Recent)
  OBVIOUS
<1>. HIDE DEF r, a
<1>4. ~(r < s)
  <2>1. ASSUME r < s
        PROVE  r + Reach + 2 * Minute + Recent <= s
    BY <1>1, <2>1, ScheduleNumbers
  <2>2. r \in Nat /\ s \in Nat /\ Minute \in Nat /\ Reach \in Nat /\ Recent \in Nat
    BY <1>1, ScheduleNumbers
  <2>. QED
    BY <1>1, <1>2, <1>3, <2>1, <2>2
<1>5. ~(s < r)
  <2>1. ASSUME s < r
        PROVE  s + Reach + 2 * Minute + Recent <= r
    BY <1>1, <2>1, ScheduleNumbers
  <2>2. r \in Nat /\ s \in Nat /\ Minute \in Nat /\ Reach \in Nat /\ Recent \in Nat
    BY <1>1, ScheduleNumbers
  <2>. QED
    BY <1>1, <1>2, <2>1, <2>2
<1>6. r \in Nat /\ s \in Nat
  BY <1>1, ScheduleNumbers
<1>7. r = s
  BY <1>4, <1>5, <1>6
<1>. QED
  BY <1>7 DEF r

LEMMA CheckKeeps ==
  ASSUME TriggerInv, NEW v \in Twins, Trigger!Check(v)
  PROVE  TriggerInv'
<1>. DEFINE t == check[v].at
            runs == /\ t - Trigger!Last(t) <= Reach
                    /\ \A i \in DOMAIN starts : starts[i].at < t - Recent
<1>1. /\ check[v].step = "checks"
      /\ check' = [check EXCEPT ![v] = IF runs THEN [@ EXCEPT !.step = "starts"]
                                       ELSE Trigger!NoTick]
      /\ ticked' = IF runs THEN ticked ELSE ticked \cup {t}
      /\ UNCHANGED <<minute, jobs, starts, hook, claimed, called,
                     workflow, editor, revisions, edited, crossed>>
  BY DEF Trigger!Check, Trigger!hookVars, Trigger!editVars
<1>2. /\ check[v] \in [step : {"idle", "checks", "starts"}, at : Nat] /\ v \in DOMAIN check
      /\ minute \in Nat /\ t <= minute /\ minute < t + 2 * Minute
  BY <1>1 DEF TriggerInv, TriggerTypes, OnTime
<1>3. t \in Nat
  BY <1>2
<1>4. runs => DueAt(t, Trigger!Last(t)) /\ Trigger!Last(t) \in Marks
  BY <1>3, NearSlots DEF DueAt
<1>5. runs \in BOOLEAN
  OBVIOUS
<1>6. \/ runs /\ check'[v] = [check[v] EXCEPT !.step = "starts"]
      \/ ~runs /\ check'[v] = Trigger!NoTick
  BY <1>1, <1>2
<1>7. \A w \in Twins : w # v => check'[w] = check[w]
  BY <1>1
<1>. HIDE DEF runs
<1>8. /\ check'[v].step \in {"idle", "starts"} /\ check'[v].at \in Nat
      /\ check'[v].step # "idle" => runs /\ check'[v].at = t
  BY <1>2, <1>6 DEF Trigger!NoTick
<1>. HIDE DEF t
<1>9. TriggerTypes'
  <2>1. check' \in [Twins -> [step : {"idle", "checks", "starts"}, at : Nat]]
    <3>1. Trigger!NoTick \in [step : {"idle", "checks", "starts"}, at : Nat]
      BY DEF Trigger!NoTick
    <3>2. [check[v] EXCEPT !.step = "starts"] \in [step : {"idle", "checks", "starts"}, at : Nat]
      BY <1>2
    <3>. QED
      BY <1>1, <3>1, <3>2 DEF TriggerInv, TriggerTypes
  <2>2. t \in 0..minute
    BY <1>2, <1>3
  <2>. QED
    BY <1>1, <2>1, <2>2 DEF TriggerInv, TriggerTypes
<1>10. OnTime'
  BY <1>1, <1>2, <1>7, <1>8 DEF TriggerInv, OnTime
<1>11. StartsAreDue'
  BY <1>1, <1>4, <1>7, <1>8 DEF TriggerInv, StartsAreDue, DueAt
<1>12. TwoChances'
  <2>1. ASSUME NEW s
        PROVE  Chances(s)' \subseteq Chances(s)
    <3>1. \A w \in Twins : check'[w].step # "idle" /\ DueAt(check'[w].at, s) =>
                           check[w].step # "idle" /\ DueAt(check[w].at, s)
      BY <1>1, <1>7, <1>8 DEF t
    <3>. QED
      BY <1>1, <3>1 DEF Chances, DueAt
  <2>. QED
    BY <2>1, FewerChances DEF TriggerInv, TwoChances
<1>13. SlotsAreRun'
  <2>1. CASE runs
    BY <1>1, <2>1 DEF TriggerInv, SlotsAreRun, Trigger!Settled, Trigger!NoEdit
  <2>2. CASE ~runs
    <3>1. ASSUME NEW s \in Marks, DueAt(t, s)
          PROVE  \E i \in DOMAIN starts : starts[i].slot = s
      <4>1. t - Trigger!Last(t) <= Reach
        BY <1>3, <3>1, NearSlots
      <4>2. PICK i \in DOMAIN starts : ~(starts[i].at < t - Recent)
        BY <2>2, <4>1 DEF runs
      <4>3. s <= t /\ t <= s + Reach
        BY <3>1 DEF DueAt
      <4>. QED
        BY <1>2, <1>3, <4>2, <4>3, RecentIsSame
    <3>2. t \in 0..minute
      BY <1>2, <1>3
    <3>. QED
      BY <1>1, <3>1, <3>2, <2>2, Ticked
  <2>. QED
    BY <2>1, <2>2
<1>. QED
  BY <1>1, <1>9, <1>10, <1>11, <1>12, <1>13, ColumnsStay, CallsStay DEF TriggerInv

LEMMA StartRunKeeps ==
  ASSUME TriggerInv, NEW v \in Twins, Trigger!StartRun(v)
  PROVE  TriggerInv'
<1>. DEFINE t == check[v].at
            l == Trigger!Last(t)
            live == workflow.live /\ workflow.type = "schedule"
            new == [slot |-> l, at |-> minute]
<1>1. /\ check[v].step = "starts"
      /\ starts' = IF live THEN Append(starts, new) ELSE starts
      /\ check' = [check EXCEPT ![v] = Trigger!NoTick]
      /\ ticked' = ticked \cup {t}
      /\ UNCHANGED <<minute, jobs, hook, claimed, called,
                     workflow, editor, revisions, edited, crossed>>
  BY DEF Trigger!StartRun, Trigger!hookVars, Trigger!editVars
<1>2. /\ check[v] \in [step : {"idle", "checks", "starts"}, at : Nat] /\ v \in DOMAIN check
      /\ minute \in Nat /\ t <= minute /\ minute < t + 2 * Minute
  BY <1>1 DEF TriggerInv, TriggerTypes, OnTime
<1>3. t \in Nat
  BY <1>2
<1>4. DueAt(t, l) /\ l \in Marks /\ l <= t /\ t <= l + Reach
  BY <1>1 DEF TriggerInv, StartsAreDue, DueAt
<1>5. /\ check'[v] = Trigger!NoTick /\ check'[v].step = "idle"
      /\ \A w \in Twins : w # v => check'[w] = check[w]
  BY <1>1, <1>2 DEF Trigger!NoTick
<1>6. l \in Nat /\ new \in [slot : Int, at : Nat]
  BY <1>2, <1>4, ScheduleNumbers
<1>7. l <= minute /\ minute < l + Reach + 2 * Minute
  BY <1>2, <1>3, <1>4, <1>6, ScheduleNumbers
<1>8. starts \in Seq([slot : Int, at : Nat])
  BY DEF TriggerInv, TriggerTypes
<1>. HIDE DEF t, l, live
<1>9. /\ \A i \in DOMAIN starts : i \in DOMAIN starts' /\ starts'[i] = starts[i]
      /\ \A i \in DOMAIN starts' : i \in DOMAIN starts \/ (starts'[i] = new /\ i = Len(starts) + 1)
      /\ live => Len(starts) + 1 \in DOMAIN starts' /\ starts'[Len(starts) + 1] = new
      /\ starts' \in Seq([slot : Int, at : Nat])
  <2>. DEFINE S == [slot : Int, at : Nat]
  <2>1. starts \in Seq(S) /\ new \in S
    BY <1>6, <1>8
  <2>. HIDE DEF S, new
  <2>2. CASE live
    BY <1>1, <2>1, <2>2 DEF S
  <2>3. CASE ~live
    BY <1>1, <2>1, <2>3 DEF S
  <2>. QED
    BY <2>2, <2>3
<1>10. TriggerTypes'
  <2>1. t \in 0..minute
    BY <1>2, <1>3
  <2>2. check' \in [Twins -> [step : {"idle", "checks", "starts"}, at : Nat]]
    BY <1>1 DEF TriggerInv, TriggerTypes, Trigger!NoTick
  <2>. QED
    BY <1>1, <1>9, <2>1, <2>2 DEF TriggerInv, TriggerTypes
<1>11. OnTime'
  BY <1>1, <1>5 DEF TriggerInv, OnTime
<1>12. StartsAreDue'
  <2>1. \A w \in Twins : check'[w].step = "starts" => \E s \in Marks : DueAt(check'[w].at, s)
    BY <1>1, <1>5 DEF TriggerInv, StartsAreDue
  <2>2. minute <= minute
    BY <1>2
  <2>3. \A i \in DOMAIN starts' :
          /\ starts'[i].slot \in Marks /\ starts'[i].slot <= starts'[i].at /\ starts'[i].at <= minute
          /\ starts'[i].at < starts'[i].slot + Reach + 2 * Minute
    BY <1>4, <1>7, <1>9, <2>2 DEF TriggerInv, StartsAreDue
  <2>. QED
    BY <1>1, <2>1, <2>3 DEF StartsAreDue, DueAt
<1>13. TwoChances'
  <2>. SUFFICES ASSUME NEW s \in Marks
                PROVE  IsFiniteSet(Chances(s)') /\ Cardinality(Chances(s)') <= 2
    BY DEF TwoChances
  <2>. DEFINE x == <<"tick", v>>
              y == <<"run", Len(starts) + 1>>
  <2>1. CASE s = l
    <3>1. x \in Chances(s)
      BY <1>1, <1>4, <2>1 DEF Chances, t
    <3>2. x \notin Chances(s)'
      BY <1>5 DEF Chances
    <3>3. Chances(s)' \subseteq Chances(s) \cup {y}
      BY <1>1, <1>5, <1>9 DEF Chances, DueAt
    <3>. HIDE DEF x, y
    <3>4. Chances(s)' \subseteq (Chances(s) \ {x}) \cup {y}
      BY <3>2, <3>3
    <3>. QED
      BY <3>1, <3>4, Exchange DEF TriggerInv, TwoChances
  <2>2. CASE s # l
    <3>1. Chances(s)' \subseteq Chances(s)
      BY <1>1, <1>5, <1>9, <2>2 DEF Chances, DueAt
    <3>. QED
      BY <3>1, FewerChances DEF TriggerInv, TwoChances
  <2>. QED
    BY <2>1, <2>2
<1>14. SlotsAreRun'
  <2>1. ASSUME NEW s \in Marks, DueAt(t, s), workflow.live, workflow.type = "schedule"
        PROVE  \E i \in DOMAIN starts' : starts'[i].slot = s
    <3>1. s = l
      BY <2>1 DEF DueAt, l
    <3>2. live
      BY <2>1 DEF live
    <3>. QED
      BY <1>9, <3>1, <3>2
  <2>2. t \in 0..minute
    BY <1>2, <1>3
  <2>. QED
    BY <1>1, <1>9, <2>1, <2>2, Ticked
<1>. QED
  BY <1>1, <1>10, <1>11, <1>12, <1>13, <1>14, ColumnsStay, CallsStay DEF TriggerInv

-----------------------------------------------------------------------------
(* Publication, edits and withdrawal.                                        *)
LEMMA BeginEditKeeps ==
  ASSUME TriggerInv, NEW e \in Twins, NEW new \in FlowRow, NEW step \in {"derive", "clear"},
         step = "clear" => ~new.live,
         Trigger!BeginEdit(e, new, step)
  PROVE  TriggerInv'
<1>. DEFINE entry == [step |-> step, definition |-> new.definition, token |-> new.token,
                      made |-> revisions']
<1>1. /\ editor[e] = Trigger!NoEdit /\ revisions' = revisions + 1
      /\ crossed' = (crossed \/ \E f \in Twins : editor[f] # Trigger!NoEdit)
      /\ workflow' = new /\ editor' = [editor EXCEPT ![e] = entry]
      /\ UNCHANGED <<minute, jobs, check, starts, ticked, hook, claimed, called, edited>>
  BY DEF Trigger!BeginEdit, Trigger!tickVars, Trigger!hookVars
<1>2. /\ new.definition \in Trigger!Definitions /\ new.token \in Nat \cup {None}
      /\ revisions' \in Nat
  BY <1>1 DEF FlowRow, TriggerInv, TriggerTypes
<1>3. entry \in [step : {"idle", "derive", "clear"}, definition : Trigger!Definitions,
                 token : Nat \cup {None}, made : Nat]
  BY <1>2
<1>4. entry.step = step /\ entry.definition = new.definition /\ entry # Trigger!NoEdit
  BY DEF Trigger!NoEdit
<1>5. editor'[e] = entry /\ \A f \in Twins : f # e => editor'[f] = editor[f]
  BY <1>1 DEF TriggerInv, TriggerTypes
<1>. HIDE DEF entry
<1>6. TriggerTypes'
  <2>1. editor' \in [Twins -> [step : {"idle", "derive", "clear"}, definition : Trigger!Definitions,
                               token : Nat \cup {None}, made : Nat]]
    BY <1>1, <1>3 DEF TriggerInv, TriggerTypes
  <2>2. crossed' \in BOOLEAN
    BY <1>1
  <2>. QED
    BY <1>1, <1>2, <2>1, <2>2 DEF TriggerInv, TriggerTypes
<1>7. Columns'
  <2>1. \A f \in Twins : editor'[f].step = "idle" <=> editor'[f] = Trigger!NoEdit
    BY <1>4, <1>5 DEF TriggerInv, Columns
  <2>2. ASSUME ~crossed'
        PROVE  \A f \in Twins : f # e => editor'[f].step = "idle"
    <3>1. ~ \E f \in Twins : editor[f] # Trigger!NoEdit
      BY <1>1, <2>2
    <3>2. Trigger!NoEdit.step = "idle"
      BY DEF Trigger!NoEdit
    <3>. QED
      BY <1>5, <3>1, <3>2
  <2>3. ~crossed' =>
          /\ \A f, g \in Twins : editor'[f].step # "idle" /\ editor'[g].step # "idle" => f = g
          /\ \A f \in Twins :
               /\ editor'[f].step = "derive" => editor'[f].definition = new.definition
               /\ editor'[f].step = "clear" => ~new.live
          /\ ~ \A f \in Twins : editor'[f].step = "idle"
    BY <1>4, <1>5, <2>2
  <2>. QED
    BY <1>1, <2>1, <2>3 DEF Columns, Trigger!NoEdit
<1>8. SlotsAreRun'
  BY <1>4, <1>5 DEF SlotsAreRun, Trigger!Settled, Trigger!NoEdit
<1>. QED
  BY <1>1, <1>6, <1>7, <1>8, TicksStay, CallsStay DEF TriggerInv

LEMMA EndEditKeeps ==
  ASSUME TriggerInv, NEW e \in Twins, Trigger!EndEdit(e), editor[e].step # "idle",
         workflow' \in FlowRow,
         ~crossed => /\ workflow'.definition = workflow.definition
                     /\ workflow'.live = workflow.live
                     /\ workflow.live =>
                          /\ workflow'.type = workflow'.definition
                          /\ workflow'.cron = (workflow'.definition = "schedule")
  PROVE  TriggerInv'
<1>1. /\ editor' = [editor EXCEPT ![e] = Trigger!NoEdit] /\ edited' = minute
      /\ UNCHANGED <<minute, jobs, check, starts, ticked, hook, claimed, called, revisions, crossed>>
  BY DEF Trigger!EndEdit, Trigger!tickVars, Trigger!hookVars
<1>2. editor'[e] = Trigger!NoEdit /\ \A f \in Twins : f # e => editor'[f] = editor[f]
  BY <1>1 DEF TriggerInv, TriggerTypes
<1>3. minute \in Nat /\ minute \in 0..minute
  BY DEF TriggerInv, TriggerTypes
<1>4. TriggerTypes'
  <2>1. editor' \in [Twins -> [step : {"idle", "derive", "clear"}, definition : Trigger!Definitions,
                               token : Nat \cup {None}, made : Nat]]
    BY <1>1 DEF TriggerInv, TriggerTypes, Trigger!NoEdit, Trigger!Definitions
  <2>. QED
    BY <1>1, <1>3, <2>1 DEF TriggerInv, TriggerTypes
<1>5. Columns'
  <2>1. \A f \in Twins : editor'[f].step = "idle" <=> editor'[f] = Trigger!NoEdit
    BY <1>2 DEF TriggerInv, Columns, Trigger!NoEdit
  <2>2. ~crossed => \A f \in Twins : editor'[f].step = "idle"
    BY <1>2 DEF TriggerInv, Columns, Trigger!NoEdit
  <2>. QED
    BY <1>1, <2>1, <2>2 DEF Columns, Trigger!NoEdit
<1>6. SlotsAreRun'
  <2>1. \A u \in ticked, s \in Marks : s <= u => ~(minute < s)
    BY <1>3, ScheduleNumbers DEF TriggerInv, TriggerTypes
  <2>. QED
    BY <1>1, <2>1 DEF SlotsAreRun
<1>. QED
  BY <1>1, <1>4, <1>5, <1>6, TicksStay, CallsStay DEF TriggerInv

LEMMA EditsKeep ==
  ASSUME TriggerInv, NEW e \in Twins,
         \/ Trigger!Publish(e) \/ Trigger!Unpublish(e) \/ Trigger!Derive(e) \/ Trigger!ClearColumns(e)
         \/ \E d \in Trigger!Definitions : Trigger!Edit(e, d)
  PROVE  TriggerInv'
<1>0. /\ workflow \in FlowRow
      /\ editor[e] \in [step : {"idle", "derive", "clear"}, definition : Trigger!Definitions,
                        token : Nat \cup {None}, made : Nat]
  BY DEF TriggerInv, TriggerTypes
<1>1. CASE Trigger!Publish(e)
  <2>1. [workflow EXCEPT !.live = TRUE] \in FlowRow
    BY <1>0 DEF FlowRow
  <2>. QED
    BY <1>1, <2>1, BeginEditKeeps DEF Trigger!Publish
<1>2. CASE Trigger!Unpublish(e)
  <2>1. [workflow EXCEPT !.live = FALSE] \in FlowRow /\ ~[workflow EXCEPT !.live = FALSE].live
    BY <1>0 DEF FlowRow
  <2>. QED
    BY <1>2, <2>1, BeginEditKeeps DEF Trigger!Unpublish
<1>3. ASSUME NEW d \in Trigger!Definitions, Trigger!Edit(e, d)
      PROVE  TriggerInv'
  <2>1. [workflow EXCEPT !.definition = d] \in FlowRow
    BY <1>0 DEF FlowRow
  <2>. QED
    BY <1>3, <2>1, BeginEditKeeps DEF Trigger!Edit
<1>4. CASE Trigger!Derive(e)
  <2>. DEFINE d == editor[e].definition
              token == CASE d # "webhook" -> None
                         [] d = "webhook" /\ editor[e].token = None -> editor[e].made
                         [] OTHER -> workflow.token
  <2>1. /\ editor[e].step = "derive" /\ Trigger!EndEdit(e)
        /\ workflow' = [workflow EXCEPT !.type = d, !.cron = (d = "schedule"), !.token = token]
    BY <1>4 DEF Trigger!Derive
  <2>2. d \in Trigger!Definitions /\ token \in Nat \cup {None}
    <3>1. CASE d # "webhook"
      BY <1>0, <3>1
    <3>2. CASE d = "webhook" /\ editor[e].token = None
      BY <1>0, <3>2
    <3>3. CASE d = "webhook" /\ editor[e].token # None
      BY <1>0, <3>3 DEF FlowRow
    <3>. QED
      BY <1>0, <3>1, <3>2, <3>3
  <2>3. ~crossed => d = workflow.definition
    BY <2>1 DEF TriggerInv, Columns
  <2>. HIDE DEF d, token
  <2>4. /\ workflow' \in FlowRow /\ workflow'.type = d /\ workflow'.cron = (d = "schedule")
        /\ workflow'.definition = workflow.definition /\ workflow'.live = workflow.live
    BY <1>0, <2>1, <2>2 DEF FlowRow
  <2>. QED
    BY <2>1, <2>3, <2>4, EndEditKeeps
<1>5. CASE Trigger!ClearColumns(e)
  <2>1. /\ editor[e].step = "clear" /\ Trigger!EndEdit(e)
        /\ workflow' = [workflow EXCEPT !.token = None, !.cron = FALSE]
    BY <1>5 DEF Trigger!ClearColumns
  <2>2. ~crossed => ~workflow.live
    BY <2>1 DEF TriggerInv, Columns
  <2>3. /\ workflow' \in FlowRow /\ workflow'.definition = workflow.definition
        /\ workflow'.live = workflow.live
    BY <1>0, <2>1 DEF FlowRow
  <2>. QED
    BY <2>1, <2>2, <2>3, EndEditKeeps
<1>. QED
  BY <1>1, <1>2, <1>3, <1>4, <1>5

-----------------------------------------------------------------------------
(* Calls from outside.                                                       *)
LEMMA CallsKeep ==
  ASSUME TriggerInv, NEW d \in Twins,
         \/ \E k \in Trigger!Tokens : Trigger!Claim(d, k)
         \/ \E paid \in BOOLEAN : Trigger!Invoke(d, paid)
  PROVE  TriggerInv'
<1>. DEFINE Call == [step : {"new", "claimed", "answered"}, token : Nat]
<1>1. CalledOnce /\ Trigger!Tokens \subseteq Nat
  BY DEF TriggerInv, Trigger!Tokens
<1>2. ASSUME UNCHANGED <<minute, jobs, check, starts, ticked, workflow, editor, revisions,
                         edited, crossed>>, CalledOnce'
      PROVE  TriggerInv'
  <2>1. TriggerTypes' /\ SlotsAreRun'
    BY <1>2 DEF TriggerInv, TriggerTypes, SlotsAreRun, Trigger!Settled, Trigger!NoEdit
  <2>. QED
    BY <1>2, <2>1, TicksStay, ColumnsStay DEF TriggerInv
<1>3. ASSUME NEW k \in Trigger!Tokens, Trigger!Claim(d, k)
      PROVE  TriggerInv'
  <2>. DEFINE entry == IF k \in claimed THEN Trigger!Answered
                       ELSE [step |-> "claimed", token |-> k]
  <2>1. /\ hook[d] = Trigger!NoCall /\ hook' = [hook EXCEPT ![d] = entry]
        /\ claimed' = claimed \cup {k} /\ called' = called
        /\ UNCHANGED <<minute, jobs, check, starts, ticked, workflow, editor, revisions,
                       edited, crossed>>
    BY <1>3 DEF Trigger!Claim, Trigger!tickVars, Trigger!editVars
  <2>2. /\ entry \in Call
        /\ entry.step = "claimed" => k \notin claimed /\ entry.token = k
    BY <1>1 DEF Trigger!Answered, Trigger!NoCall
  <2>3. hook' \in [Twins -> Call] /\ hook'[d] = entry
        /\ \A f \in Twins : f # d => hook'[f] = hook[f]
    BY <1>1, <2>1, <2>2 DEF CalledOnce
  <2>. HIDE DEF entry
  <2>4. \A f \in Twins : hook'[f].step = "claimed" =>
          \/ f # d /\ hook[f].step = "claimed" /\ hook'[f].token = hook[f].token
                   /\ hook[f].token \in claimed
          \/ f = d /\ hook'[f].token = k /\ k \notin claimed
    BY <1>1, <2>2, <2>3 DEF CalledOnce
  <2>5. CalledOnce'
    BY <1>1, <2>1, <2>3, <2>4 DEF CalledOnce
  <2>. QED
    BY <1>2, <2>1, <2>5
<1>4. ASSUME NEW paid \in BOOLEAN, Trigger!Invoke(d, paid)
      PROVE  TriggerInv'
  <2>. DEFINE k == hook[d].token
  <2>1. /\ hook[d].step = "claimed" /\ hook' = [hook EXCEPT ![d] = Trigger!Answered]
        /\ called' = called \/ called' = [called EXCEPT ![k] = @ + 1]
        /\ claimed' = claimed
        /\ UNCHANGED <<minute, jobs, check, starts, ticked, workflow, editor, revisions,
                       edited, crossed>>
    BY <1>4 DEF Trigger!Invoke, Trigger!tickVars, Trigger!editVars
  <2>2. k \in Trigger!Tokens /\ k \in claimed /\ called[k] = 0
    BY <1>1, <2>1 DEF CalledOnce
  <2>3. /\ hook' \in [Twins -> Call] /\ hook'[d].step = "answered"
        /\ \A f \in Twins : f # d => hook'[f] = hook[f]
    BY <1>1, <2>1 DEF CalledOnce, Trigger!Answered, Trigger!NoCall
  <2>4. \A f \in Twins : hook'[f].step = "claimed" =>
          f # d /\ hook[f].step = "claimed" /\ hook'[f].token = hook[f].token /\ hook[f].token # k
    BY <1>1, <2>1, <2>3 DEF CalledOnce
  <2>. HIDE DEF k
  <2>5. /\ called' \in [Trigger!Tokens -> Nat] /\ called'[k] <= 1
        /\ \A j \in Trigger!Tokens : j # k => called'[j] = called[j]
    BY <1>1, <2>1, <2>2 DEF CalledOnce
  <2>6. CalledOnce'
    BY <1>1, <2>1, <2>2, <2>3, <2>4, <2>5 DEF CalledOnce
  <2>. QED
    BY <1>2, <2>1, <2>6
<1>. QED
  BY <1>3, <1>4

LEMMA TriggerStep ==
  ASSUME TriggerInv, [Trigger!Next]_triggerVars
  PROVE  TriggerInv'
<1>1. CASE Trigger!Pass \/ Trigger!LoseTick
  BY <1>1, PassKeeps, LoseTickKeeps
<1>2. ASSUME NEW v \in Twins, Trigger!TakeTick(v) \/ Trigger!Check(v) \/ Trigger!StartRun(v)
      PROVE  TriggerInv'
  BY <1>2, TakeTickKeeps, CheckKeeps, StartRunKeeps
<1>3. CASE UNCHANGED triggerVars
  <2>1. UNCHANGED <<minute, jobs, check, workflow, editor, starts, ticked, hook, claimed, called,
                    revisions, edited, crossed>>
    BY <1>3 DEF triggerVars
  <2>2. TriggerTypes' /\ SlotsAreRun'
    BY <2>1 DEF TriggerInv, TriggerTypes, SlotsAreRun, Trigger!Settled, Trigger!NoEdit
  <2>. QED
    BY <2>1, <2>2, TicksStay, ColumnsStay, CallsStay DEF TriggerInv
<1>. QED
  BY <1>1, <1>2, <1>3, EditsKeep, CallsKeep DEF Trigger!Next

(* What was to be shown of schedules and calls.                              *)
LEMMA TriggerCountsRuns ==
  ASSUME NEW S
  PROVE  Trigger!Cardinality(S) = Cardinality(S)
  BY DEF Trigger!Cardinality, Cardinality

LEMMA TriggersAreRight ==
  ASSUME TriggerInv
  PROVE  Trigger!StartedAsDue
<1>1. ASSUME NEW s \in Marks
      PROVE  /\ Trigger!Runs(s) <= 2 /\ Trigger!Runs(s) \in Nat
             /\ (\E i \in DOMAIN starts : starts[i].slot = s) => Trigger!Runs(s) >= 1
  <2>. DEFINE R == {i \in DOMAIN starts : starts[i].slot = s}
              f == [i \in R |-> <<"run", i>>]
  <2>1. IsFiniteSet(Chances(s)) /\ Cardinality(Chances(s)) <= 2
    BY DEF TriggerInv, TwoChances
  <2>2. f \in Injection(R, Chances(s))
    <3>1. f \in [R -> Chances(s)]
      BY DEF Chances
    <3>2. \A i, j \in R : f[i] = f[j] => i = j
      OBVIOUS
    <3>. QED
      BY <3>1, <3>2 DEF Injection, Injection, IsInjective
  <2>3. Trigger!Runs(s) = Cardinality(R)
    BY TriggerCountsRuns DEF Trigger!Runs
  <2>. HIDE DEF R, f
  <2>4. IsFiniteSet(R) /\ Cardinality(R) <= Cardinality(Chances(s))
    BY <2>1, <2>2, FS_Injection
  <2>5. Cardinality(R) \in Nat /\ Cardinality(Chances(s)) \in Nat
    BY <2>1, <2>4, FS_CardinalityType
  <2>6. R # {} => Cardinality(R) # 0
    BY <2>4, FS_EmptySet
  <2>7. (\E i \in DOMAIN starts : starts[i].slot = s) => R # {}
    BY DEF R
  <2>. QED
    BY <2>1, <2>3, <2>4, <2>5, <2>6, <2>7
<1>2. \A s \in Marks :
        /\ Trigger!Settled /\ edited < s /\ workflow.live /\ workflow.definition = "schedule"
        /\ \E u \in ticked : s <= u /\ u <= s + Reach
        => Trigger!Runs(s) >= 1
  BY <1>1 DEF TriggerInv, SlotsAreRun
<1>. QED
  BY <1>1, <1>2 DEF TriggerInv, CalledOnce, Trigger!StartedAsDue

-----------------------------------------------------------------------------
(* The parts that follow rest on what is assumed of their constants.        *)
USE BookingConstants, FeedConstants, AccountConstants, InboxConstants

-----------------------------------------------------------------------------
(* The bookings of a resource.                                               *)
Rows == [Ids -> [status : Book!Status \cup {"none"}, window : Windows]]

(* What a handler read is still so when it writes.                           *)
ReadIsTrue(read) ==
  \/ /\ read.op = "create"
     /\ read.id \in Ids /\ read.window \in Windows /\ read.status \in Book!Status
     /\ booking[read.id].status = "none"
     /\ read.from = "workflow" => read.status = "pending"
     /\ \A i \in Ids : booking[i].status \in Book!Active =>
                       ~Book!Overlap(booking[i].window, read.window)
  \/ /\ read.op = "update"
     /\ read.id \in Ids /\ read.status \in Book!Status
     /\ booking[read.id].status # "none"
     /\ read.before = booking[read.id].status
     /\ Book!Forward(booking[read.id].status, read.status)

Diary ==
  /\ booking \in Rows
  /\ DOMAIN request = Requests
  /\ \A r \in Requests : request[r] # None => ReadIsTrue(request[r])
  /\ Book!NoDoubleBooking

(* Whether two windows overlap does not depend on which is looked at first.  *)
LEMMA OverlapSymmetric ==
  ASSUME NEW v \in Windows, NEW w \in Windows
  PROVE  Book!Overlap(v, w) <=> Book!Overlap(w, v)
  BY DEF Book!Overlap

(* A handler starts with what is so.                                         *)
LEMMA StartKeeps ==
  ASSUME Diary, NEW r \in Requests, NEW read, ReadIsTrue(read), Book!Start(r, read)
  PROVE  Diary'
<1>1. booking' = booking /\ request' = [request EXCEPT ![r] = read]
  BY DEF Book!Start
<1>2. ASSUME NEW q \in Requests, request'[q] # None
      PROVE  ReadIsTrue(request[q])'
  <2>1. CASE q = r
    BY <1>1, <2>1 DEF Diary, ReadIsTrue
  <2>2. CASE q # r
    <3>1. request'[q] = request[q] /\ ReadIsTrue(request[q])
      BY <1>1, <1>2, <2>2 DEF Diary
    <3>. QED
      BY <1>1, <3>1 DEF ReadIsTrue
  <2>. QED
    BY <2>1, <2>2
<1>3. Book!NoDoubleBooking'
  BY <1>1 DEF Diary, Book!NoDoubleBooking
<1>. QED
  BY <1>1, <1>2, <1>3 DEF Diary

(* The write of the only handler.                                            *)
LEMMA FinishKeeps ==
  ASSUME Diary, NEW r \in Requests, NEW op, Book!Finish(r, op),
         booking' \in Rows,
         Book!NoDoubleBooking'
  PROVE  Diary'
<1>1. \A q \in Requests : request'[q] = None
  BY DEF Book!Finish, Diary
<1>. QED
  BY <1>1 DEF Diary, Book!Finish

LEMMA DiaryPreserved ==
  ASSUME Diary, [Book!Next]_(Book!vars)
  PROVE  Diary'
<1>. booking \in Rows
  BY DEF Diary
<1>1. ASSUME NEW r \in Requests, NEW i \in Ids, NEW w \in Windows, NEW to \in Book!Status,
             NEW from, Book!BeginCreate(r, i, w, to, from)
      PROVE  Diary'
  <2>. DEFINE read == [op |-> "create", id |-> i, window |-> w, status |-> to, from |-> from]
  <2>1. ReadIsTrue(read) /\ Book!Start(r, read)
    BY <1>1 DEF Book!BeginCreate, ReadIsTrue, Book!Conflict
  <2>. QED
    BY <2>1, StartKeeps
<1>2. ASSUME NEW r \in Requests, NEW i \in Ids, NEW to \in Book!Status, Book!BeginUpdate(r, i, to)
      PROVE  Diary'
  <2>. DEFINE read == [op |-> "update", id |-> i, before |-> booking[i].status, status |-> to]
  <2>1. ReadIsTrue(read) /\ Book!Start(r, read)
    BY <1>2 DEF Book!BeginUpdate, ReadIsTrue
  <2>. QED
    BY <2>1, StartKeeps
<1>3. ASSUME NEW r \in Requests, Book!Create(r)
      PROVE  Diary'
  <2>. DEFINE new == request[r]
              made == [status |-> new.status, window |-> new.window]
  <2>1. ReadIsTrue(new) /\ new.op = "create" /\ Book!Finish(r, "create")
    BY <1>3 DEF Book!Create, Book!Finish, Diary
  <2>2. /\ new.id \in Ids /\ new.window \in Windows /\ new.status \in Book!Status
        /\ \A i \in Ids : booking[i].status \in Book!Active =>
                          ~Book!Overlap(booking[i].window, new.window)
    BY <2>1 DEF ReadIsTrue
  <2>3. booking' = [booking EXCEPT ![new.id] = made]
    BY <1>3 DEF Book!Create
  <2>4. /\ \A i \in Ids : i # new.id => booking'[i] = booking[i]
        /\ booking'[new.id].window = new.window
        /\ booking' \in Rows
    BY <2>2, <2>3 DEF Rows
  <2>5. ASSUME NEW i \in Ids, NEW j \in Ids, i # j,
               booking'[i].status \in Book!Active, booking'[j].status \in Book!Active
        PROVE  ~Book!Overlap(booking'[i].window, booking'[j].window)
    <3>1. \A k \in Ids : booking[k].window \in Windows
      BY DEF Rows
    <3>2. CASE i = new.id
      <4>1. ~Book!Overlap(booking[j].window, new.window)
        BY <2>2, <2>4, <2>5, <3>2
      <4>. QED
        BY <2>2, <2>4, <2>5, <3>1, <3>2, <4>1, OverlapSymmetric
    <3>3. CASE j = new.id
      BY <2>2, <2>4, <2>5, <3>3
    <3>4. CASE i # new.id /\ j # new.id
      BY <2>4, <2>5, <3>4 DEF Diary, Book!NoDoubleBooking
    <3>. QED
      BY <3>2, <3>3, <3>4
  <2>6. Book!NoDoubleBooking'
    BY <2>5 DEF Book!NoDoubleBooking, Book!Active
  <2>. QED
    BY <2>1, <2>4, <2>6, FinishKeeps
<1>4. ASSUME NEW r \in Requests, Book!Update(r)
      PROVE  Diary'
  <2>. DEFINE change == request[r]
  <2>1. ReadIsTrue(change) /\ change.op = "update" /\ Book!Finish(r, "update")
    BY <1>4 DEF Book!Update, Book!Finish, Diary
  <2>2. /\ change.id \in Ids /\ change.status \in Book!Status
        /\ Book!Forward(booking[change.id].status, change.status)
    BY <2>1 DEF ReadIsTrue
  <2>3. booking' = [booking EXCEPT ![change.id].status = change.status]
    BY <1>4 DEF Book!Update
  <2>4. /\ booking' \in Rows
        /\ \A i \in Ids : booking'[i].window = booking[i].window
        /\ \A i \in Ids : booking'[i].status \in Book!Active => booking[i].status \in Book!Active
    BY <2>2, <2>3 DEF Rows, Book!Forward, Book!Active, Book!Status
  <2>5. Book!NoDoubleBooking'
    BY <2>4 DEF Diary, Book!NoDoubleBooking, Book!Active
  <2>. QED
    BY <2>1, <2>4, <2>5, FinishKeeps
<1>5. ASSUME UNCHANGED <<booking, request>>
      PROVE  Diary'
  BY <1>5 DEF Diary, ReadIsTrue, Book!NoDoubleBooking
<1>. QED
  BY <1>1, <1>2, <1>3, <1>4, <1>5 DEF Book!Next, Book!SetActive, Book!Deliver, Book!vars

-----------------------------------------------------------------------------
(* What the customer was last told of a booking is so, or its completion was *)
(* not announced.                                                            *)
Truth(i) ==
  \/ told[i] \in {"nothing", booking[i].status}
  \/ told[i] # "cancelled" /\ booking[i].status = "completed"

(* Messages are on their way only while no handler is, and say what is so;   *)
(* whoever was not told the truth is about to be.                            *)
Messages ==
  /\ DOMAIN told = Ids
  /\ \A m \in outbox :
       m.id \in Ids /\ m.says = booking[m.id].status /\ m.says \in Book!Status
  /\ outbox # {} => \A r \in Requests : request[r] = None
  /\ \A i \in Ids : booking[i].status = "none" => told[i] = "nothing"
  /\ \A i \in Ids : Truth(i) \/ \E m \in outbox : m.id = i

LEMMA MessagesPreserved ==
  ASSUME Diary, Messages, [Book!Next]_(Book!vars)
  PROVE  Messages'
<1>. booking \in Rows
  BY DEF Diary
<1>1. ASSUME NEW r \in Requests, NEW read, Book!Start(r, read)
      PROVE  Messages'
  BY <1>1 DEF Book!Start, Messages, Truth
<1>2. ASSUME NEW r \in Requests, Book!Create(r)
      PROVE  Messages'
  <2>. PICK new : new = request[r]
    OBVIOUS
  <2>1. ReadIsTrue(new) /\ new.op = "create" /\ \A q \in Requests : request'[q] = None
    BY <1>2 DEF Book!Create, Book!Finish, Diary
  <2>2. /\ new.id \in Ids /\ booking[new.id].status = "none"
        /\ new.from = "workflow" => new.status = "pending"
    BY <2>1 DEF ReadIsTrue
  <2>3. outbox = {} /\ \A i \in Ids : Truth(i)
    BY <1>2 DEF Book!Create, Book!Finish, Messages
  <2>4. /\ \A i \in Ids : i # new.id => booking'[i] = booking[i]
        /\ booking'[new.id].status = new.status
        /\ told' = told /\ told[new.id] = "nothing"
    BY <1>2, <2>2 DEF Book!Create, Rows, Messages
  <2>5. \A m \in outbox' : m.id = new.id /\ m.says = "pending" /\ new.from = "workflow"
    BY <1>2, <2>3 DEF Book!Create
  <2>6. \A i \in Ids : Truth(i)'
    BY <2>3, <2>4 DEF Truth
  <2>. QED
    BY <2>1, <2>2, <2>4, <2>5, <2>6, SMTT(30) DEF Messages, ReadIsTrue, Book!Status
<1>3. ASSUME NEW r \in Requests, Book!Update(r)
      PROVE  Messages'
  <2>. PICK change : change = request[r]
    OBVIOUS
  <2>1. ReadIsTrue(change) /\ change.op = "update" /\ \A q \in Requests : request'[q] = None
    BY <1>3 DEF Book!Update, Book!Finish, Diary
  <2>2. /\ change.id \in Ids /\ change.before = booking[change.id].status
        /\ Book!Forward(change.before, change.status)
    BY <2>1 DEF ReadIsTrue
  <2>3. outbox = {} /\ \A i \in Ids : Truth(i)
    BY <1>3 DEF Book!Update, Book!Finish, Messages
  <2>4. /\ \A i \in Ids : i # change.id => booking'[i] = booking[i]
        /\ booking'[change.id].status = change.status
        /\ told' = told
    BY <1>3, <2>2 DEF Book!Update, Rows
  <2>5. outbox' = {[id |-> change.id, says |-> says] :
                     says \in Book!Notices(change.before, change.status)}
    BY <1>3, <2>3 DEF Book!Update
  <2>6. \A m \in outbox' : m.id = change.id /\ m.says = change.status
    BY <2>5 DEF Book!Notices
  <2>7. change.status # "completed" => [id |-> change.id, says |-> change.status] \in outbox'
    BY <2>2, <2>5 DEF Book!Notices, Book!Forward
  <2>8. Truth(change.id)' \/ \E m \in outbox' : m.id = change.id
    BY <2>2, <2>3, <2>4, <2>7 DEF Truth, Book!Forward
  <2>. QED
    <3>1. \A i \in Ids : Truth(i)' \/ \E m \in outbox' : m.id = i
      BY <2>2, <2>3, <2>4, <2>8 DEF Truth
    <3>2. change.status \in Book!Status /\ change.status # "none" /\ change.before # "none"
      BY <2>1, <2>2 DEF ReadIsTrue, Book!Forward
    <3>. QED
      BY <2>1, <2>2, <2>4, <2>6, <3>1, <3>2 DEF Messages
<1>4. ASSUME NEW m \in outbox, Book!Deliver(m)
      PROVE  Messages'
  <2>1. /\ outbox' \subseteq outbox /\ booking' = booking /\ request' = request
        /\ m.id \in Ids /\ m.says = booking[m.id].status
        /\ told' = [told EXCEPT ![m.id] = m.says]
        /\ \A n \in outbox : n # m => n \in outbox'
    BY <1>4 DEF Book!Deliver, Messages
  <2>2. /\ DOMAIN told' = Ids /\ told'[m.id] = booking[m.id].status
        /\ \A i \in Ids : i # m.id => told'[i] = told[i]
    BY <2>1 DEF Messages
  <2>3. \A i \in Ids : Truth(i)' \/ \E n \in outbox' : n.id = i
    BY <2>1, <2>2 DEF Messages, Truth
  <2>4. booking[m.id].status # "none"
    BY <2>1 DEF Messages, Book!Status
  <2>. QED
    BY <2>1, <2>2, <2>3, <2>4 DEF Messages
<1>5. ASSUME UNCHANGED <<booking, request, outbox, told>>
      PROVE  Messages'
  BY <1>5 DEF Messages, Truth
<1>. QED
  BY <1>1, <1>2, <1>3, <1>4, <1>5
     DEF Book!Next, Book!BeginCreate, Book!BeginUpdate, Book!SetActive, Book!vars

LEMMA DiaryInitially ==
  ASSUME Book!Init
  PROVE  Diary /\ Messages
BY DEF Book!Init, Diary, Rows, Book!NoRow, Book!NoDoubleBooking, Book!Active, Book!Status,
       Messages, Truth

-----------------------------------------------------------------------------
(* Accounts and their links.                                                *)
AccountRow == [password : Passwords, verified : BOOLEAN]

LinkTypes == {"reset", "verify"}
LinkRow == [user : Users, type : LinkTypes, used : BOOLEAN, until : Nat]

AccountRequest == [kind : {"register", "login", "forgot", "resend", "reset", "verify"},
            at : {"create", "session", "void", "issue", "use", "write", "end"},
            user : Users, link : Nat, password : Passwords \cup {None}]

(* Whoever writes a password has one.                                        *)
Consistent(r) ==
  /\ r.at = "create" => r.kind = "register" /\ r.user = Fresh
  /\ r.kind \in {"register", "reset"} => r.password \in Passwords

AccountsOK == account \in [Users -> {None} \cup AccountRow]
LinksOK == links \in Seq(LinkRow)
SessionsOK == sessions \subseteq [user : Users, until : Nat]
HandlersOK ==
  /\ handler \in [Twins -> {Auth!Idle} \cup AccountRequest]
  /\ \A h \in Twins : handler[h] # Auth!Idle => Consistent(handler[h])

AccountTypes ==
  /\ AccountsOK /\ LinksOK /\ SessionsOK /\ HandlersOK
  /\ requests \in Nat /\ time \in Nat
  /\ spent \subseteq DOMAIN links

(* A link that a finished reset has ended is used, and stays so.             *)
SpentAreUsed == \A l \in spent : links[l].used

(* Links, sessions and requests are of accounts that exist.                  *)
LinksKnown == \A l \in DOMAIN links : links[l].user \in Auth!Registered
SessionsKnown == \A s \in sessions : s.user \in Auth!Registered
HandlersKnown ==
  \A h \in Twins :
    handler[h] # Auth!Idle /\ handler[h].at # "create" => handler[h].user \in Auth!Registered

Known == LinksKnown /\ SessionsKnown /\ HandlersKnown

AccountsInv == AccountTypes /\ Known /\ SpentAreUsed

-----------------------------------------------------------------------------
LEMMA IdleIsNoRequest == Auth!Idle \notin AccountRequest
  BY DEF Auth!Idle, AccountRequest

(* Using links keeps the others as they are.                                 *)
LEMMA UsedLinks ==
  ASSUME LinksOK, NEW L
  PROVE  /\ Auth!Used(L) \in Seq(LinkRow)
         /\ DOMAIN Auth!Used(L) = DOMAIN links
         /\ \A l \in DOMAIN links : (l \in L \/ links[l].used) => Auth!Used(L)[l].used
         /\ \A l \in DOMAIN links : Auth!Used(L)[l].user = links[l].user
<1>. DEFINE new(l) == IF l \in L THEN [links[l] EXCEPT !.used = TRUE] ELSE links[l]
<1>1. ASSUME NEW l \in DOMAIN links
      PROVE  /\ new(l) \in LinkRow /\ new(l).user = links[l].user
             /\ (l \in L \/ links[l].used) => new(l).used
  <2>1. links[l] \in LinkRow
    BY DEF LinksOK
  <2>. QED
    BY <2>1 DEF LinkRow
<1>2. Auth!Used(L) = [l \in 1..Len(links) |-> new(l)] /\ DOMAIN links = 1..Len(links)
  BY DEF Auth!Used, LinksOK
<1>3. Len(links) \in Nat
  BY DEF LinksOK
<1>. HIDE DEF new
<1>4. Auth!Used(L) \in [1..Len(links) -> LinkRow]
  BY <1>1, <1>2
<1>5. Auth!Used(L) \in Seq(LinkRow)
  BY <1>3, <1>4
<1>. QED
  BY <1>1, <1>2, <1>5

LEMMA AccountsInitially == ASSUME Auth!Init PROVE AccountsInv
<1>1. AccountsOK
  BY DEF Auth!Init, AccountsOK, AccountRow
<1>2. HandlersOK
  BY DEF Auth!Init, HandlersOK
<1>. QED
  BY <1>1, <1>2 DEF Auth!Init, AccountsInv, AccountTypes, LinksOK, SessionsOK, SpentAreUsed, Known,
             LinksKnown, SessionsKnown, HandlersKnown

(* A handler goes on to a request that makes sense, or to none.              *)
LEMMA HandlerMoves ==
  ASSUME HandlersOK, NEW h \in Twins, NEW r \in {Auth!Idle} \cup AccountRequest,
         r # Auth!Idle => Consistent(r), handler' = [handler EXCEPT ![h] = r]
  PROVE  HandlersOK'
  BY DEF HandlersOK, Consistent

LEMMA AccountFinishKeeps ==
  ASSUME HandlersOK, NEW h \in Twins, Auth!Finish(h)
  PROVE  HandlersOK'
  BY HandlerMoves DEF Auth!Finish

LEMMA AccountBeginKeeps ==
  ASSUME HandlersOK, requests \in Nat, NEW h \in Twins, NEW r \in AccountRequest, Consistent(r),
         Auth!Begin(h, r)
  PROVE  HandlersOK' /\ requests' \in Nat
<1>1. handler' = [handler EXCEPT ![h] = r] /\ requests' = requests + 1
  BY DEF Auth!Begin
<1>2. HandlersOK'
  BY <1>1, HandlerMoves
<1>. QED
  BY <1>1, <1>2

LEMMA AccountGoToKeeps ==
  ASSUME HandlersOK, NEW h \in Twins, handler[h] # Auth!Idle,
         NEW step \in {"session", "void", "issue", "use", "write", "end"}, Auth!GoTo(h, step)
  PROVE  HandlersOK'
<1>. DEFINE r == [handler[h] EXCEPT !.at = step]
<1>1. handler[h] \in AccountRequest /\ Consistent(handler[h])
  BY DEF HandlersOK
<1>2. r \in AccountRequest /\ Consistent(r)
  BY <1>1 DEF AccountRequest, Consistent
<1>3. handler' = [handler EXCEPT ![h] = r]
  BY DEF Auth!GoTo
<1>. QED
  BY <1>2, <1>3, HandlerMoves

(* Whatever uses links and leaves what was spent alone.                      *)
LEMMA UseKeeps ==
  ASSUME AccountsInv, NEW L, links' = Auth!Used(L), spent' \subseteq spent \cup (L \cap DOMAIN links),
         account' = account
  PROVE  LinksOK' /\ spent' \subseteq DOMAIN links' /\ SpentAreUsed' /\ LinksKnown'
  BY UsedLinks DEF AccountsInv, AccountTypes, SpentAreUsed, LinksOK, Known, LinksKnown, Auth!Registered

(* Who is known stays so, and a handler keeps its user while it goes on.     *)
LEMMA KnownOfGoingOn ==
  ASSUME AccountsInv, NEW h \in Twins, handler[h] # Auth!Idle, handler[h].at # "create",
         NEW step, Auth!GoTo(h, step) \/ Auth!Finish(h), account' = account
  PROVE  HandlersKnown'
<1>1. handler[h] \in AccountRequest
  BY DEF AccountsInv, AccountTypes, HandlersOK
<1>2. ASSUME Auth!GoTo(h, step), NEW g \in Twins
      PROVE  handler'[g] = handler[g] \/ (g = h /\ handler'[g].user = handler[h].user)
  BY <1>1, <1>2 DEF Auth!GoTo, AccountsInv, AccountTypes, HandlersOK, AccountRequest
<1>3. ASSUME Auth!Finish(h), NEW g \in Twins
      PROVE  handler'[g] = handler[g] \/ handler'[g] = Auth!Idle
  BY <1>3 DEF Auth!Finish, AccountsInv, AccountTypes, HandlersOK
<1>4. Auth!Registered' = Auth!Registered
  BY DEF Auth!Registered
<1>. QED
  BY <1>2, <1>3, <1>4 DEF AccountsInv, Known, HandlersKnown

LEMMA KnownOfBeginning ==
  ASSUME AccountsInv, NEW h \in Twins, NEW r \in AccountRequest, Auth!Begin(h, r), account' = account,
         r.at # "create" => r.user \in Auth!Registered
  PROVE  HandlersKnown'
<1>1. handler' = [handler EXCEPT ![h] = r]
  BY DEF Auth!Begin
<1>2. \A g \in Twins : handler'[g] = handler[g] \/ handler'[g] = r
  BY <1>1 DEF AccountsInv, AccountTypes, HandlersOK
<1>3. Auth!Registered' = Auth!Registered
  BY DEF Auth!Registered
<1>. QED
  BY <1>2, <1>3 DEF AccountsInv, Known, HandlersKnown

(* What a step leaves alone.                                                 *)
LEMMA LinksStay ==
  ASSUME AccountsInv, UNCHANGED <<links, spent>>, Auth!Registered \subseteq Auth!Registered'
  PROVE  LinksOK' /\ spent' \subseteq DOMAIN links' /\ SpentAreUsed' /\ LinksKnown'
  BY DEF AccountsInv, AccountTypes, LinksOK, SpentAreUsed, Known, LinksKnown

LEMMA SessionsStay ==
  ASSUME AccountsInv, sessions' \subseteq sessions, Auth!Registered \subseteq Auth!Registered'
  PROVE  SessionsOK' /\ SessionsKnown'
  BY DEF AccountsInv, AccountTypes, SessionsOK, Known, SessionsKnown

LEMMA AccountsStay ==
  ASSUME AccountsInv, account' = account
  PROVE  AccountsOK' /\ Auth!Registered' = Auth!Registered
  BY DEF AccountsInv, AccountTypes, AccountsOK, Auth!Registered

-----------------------------------------------------------------------------
(* A request that begins with something that it may know.                    *)
LEMMA Beginnings ==
  ASSUME AccountsInv, NEW h \in Twins, NEW r \in AccountRequest, Auth!Begin(h, r), Consistent(r),
         r.at # "create" => r.user \in Auth!Registered,
         UNCHANGED <<account, links, sessions, time, spent>>
  PROVE  AccountsInv'
<1>1. HandlersOK' /\ requests' \in Nat
  BY AccountBeginKeeps DEF AccountsInv, AccountTypes
<1>2. HandlersKnown'
  BY KnownOfBeginning
<1>. QED
  BY <1>1, <1>2, LinksStay, SessionsStay, AccountsStay DEF AccountsInv, AccountTypes, Known

(* What each of the operations begins with.                                  *)
LEMMA BeginPreserves ==
  ASSUME AccountsInv, NEW h \in Twins,
         \/ \E p \in Passwords : Auth!Register(h, p) \/ \E u \in Users : Auth!Login(h, u, p)
         \/ \E u \in Users : Auth!Forgot(h, u)
         \/ \E s \in sessions : Auth!Resend(h, s)
         \/ \E l \in DOMAIN links :
              (\E p \in Passwords : Auth!FollowLink(h, l, "reset", p)) \/ Auth!FollowLink(h, l, "verify", None)
  PROVE  AccountsInv'
<1>1. ASSUME NEW p \in Passwords, Auth!Register(h, p)
      PROVE  AccountsInv'
  <2>. DEFINE r == [Auth!Idle EXCEPT !.kind = "register", !.at = "create", !.user = Fresh, !.password = p]
  <2>1. r \in AccountRequest /\ Consistent(r) /\ r.at = "create"
    BY DEF AccountRequest, Consistent, Auth!Idle
  <2>2. Auth!Begin(h, r) /\ UNCHANGED <<account, links, sessions, time, spent>>
    BY <1>1 DEF Auth!Register
  <2>. QED
    BY <2>1, <2>2, Beginnings
<1>2. ASSUME NEW p \in Passwords, NEW u \in Users, Auth!Login(h, u, p)
      PROVE  AccountsInv'
  <2>. DEFINE r == [Auth!Idle EXCEPT !.kind = "login", !.at = "session", !.user = u]
  <2>1. r \in AccountRequest /\ Consistent(r) /\ r.user = u
    BY DEF AccountRequest, Consistent, Auth!Idle
  <2>2. Auth!Begin(h, r) /\ u \in Auth!Registered /\ UNCHANGED <<account, links, sessions, time, spent>>
    BY <1>2 DEF Auth!Login, Auth!Knows, Auth!Registered
  <2>. QED
    BY <2>1, <2>2, Beginnings
<1>3. ASSUME NEW u \in Users, Auth!Forgot(h, u)
      PROVE  AccountsInv'
  <2>. DEFINE r == [Auth!Idle EXCEPT !.kind = "forgot", !.at = "void", !.user = u]
  <2>1. r \in AccountRequest /\ Consistent(r) /\ r.user = u
    BY DEF AccountRequest, Consistent, Auth!Idle
  <2>2. Auth!Begin(h, r) /\ u \in Auth!Registered /\ UNCHANGED <<account, links, sessions, time, spent>>
    BY <1>3 DEF Auth!Forgot
  <2>. QED
    BY <2>1, <2>2, Beginnings
<1>4. ASSUME NEW s \in sessions, Auth!Resend(h, s)
      PROVE  AccountsInv'
  <2>. DEFINE r == [Auth!Idle EXCEPT !.kind = "resend", !.at = "void", !.user = s.user]
  <2>1. s.user \in Users /\ s.user \in Auth!Registered
    BY DEF AccountsInv, AccountTypes, SessionsOK, Known, SessionsKnown
  <2>2. r \in AccountRequest /\ Consistent(r) /\ r.user = s.user
    BY <2>1 DEF AccountRequest, Consistent, Auth!Idle
  <2>3. Auth!Begin(h, r) /\ UNCHANGED <<account, links, sessions, time, spent>>
    BY <1>4 DEF Auth!Resend
  <2>. QED
    BY <2>1, <2>2, <2>3, Beginnings
<1>5. ASSUME NEW l \in DOMAIN links, NEW kind \in LinkTypes, NEW p \in Passwords \cup {None},
             Auth!FollowLink(h, l, kind, p), kind = "reset" => p \in Passwords
      PROVE  AccountsInv'
  <2>. DEFINE r == [kind |-> kind, at |-> "use", user |-> links[l].user, link |-> l, password |-> p]
  <2>1. links[l].user \in Users /\ links[l].user \in Auth!Registered /\ l \in Nat
    <3>1. links \in Seq(LinkRow) /\ links[l].user \in Auth!Registered
      BY DEF AccountsInv, AccountTypes, LinksOK, Known, LinksKnown
    <3>2. links[l] \in LinkRow /\ l \in Nat
      BY <3>1
    <3>. QED
      BY <3>1, <3>2 DEF LinkRow
  <2>2. r \in AccountRequest /\ Consistent(r) /\ r.user = links[l].user
    BY <1>5, <2>1 DEF AccountRequest, Consistent, LinkTypes
  <2>3. Auth!Begin(h, r) /\ UNCHANGED <<account, links, sessions, time, spent>>
    BY <1>5 DEF Auth!FollowLink
  <2>. QED
    BY <2>1, <2>2, <2>3, Beginnings
<1>6. ASSUME NEW l \in DOMAIN links, NEW p \in Passwords, Auth!FollowLink(h, l, "reset", p)
      PROVE  AccountsInv'
  <2>1. "reset" \in LinkTypes /\ p \in Passwords \cup {None}
    BY DEF LinkTypes
  <2>. QED
    BY <1>5, <1>6, <2>1
<1>7. ASSUME NEW l \in DOMAIN links, Auth!FollowLink(h, l, "verify", None)
      PROVE  AccountsInv'
  <2>1. "verify" \in LinkTypes /\ None \in Passwords \cup {None} /\ "verify" # "reset"
    BY DEF LinkTypes
  <2>. QED
    BY <1>5, <1>7, <2>1
<1>8. CASE \E p \in Passwords : Auth!Register(h, p) \/ \E u \in Users : Auth!Login(h, u, p)
  BY <1>1, <1>2, <1>8
<1>9. CASE \E u \in Users : Auth!Forgot(h, u)
  BY <1>3, <1>9
<1>10. CASE \E s \in sessions : Auth!Resend(h, s)
  BY <1>4, <1>10
<1>11. CASE \E l \in DOMAIN links :
             (\E p \in Passwords : Auth!FollowLink(h, l, "reset", p)) \/ Auth!FollowLink(h, l, "verify", None)
  BY <1>6, <1>7, <1>11
<1>. QED
  BY <1>8, <1>9, <1>10, <1>11

-----------------------------------------------------------------------------
LEMMA CreatePreserves ==
  ASSUME AccountsInv, NEW h \in Twins, Auth!Create(h)
  PROVE  AccountsInv'
<1>1. /\ handler[h] \in AccountRequest /\ Consistent(handler[h]) /\ handler[h] # Auth!Idle
      /\ handler[h].at = "create" /\ handler[h].user = Fresh /\ handler[h].password \in Passwords
  BY DEF Auth!Create, AccountsInv, AccountTypes, HandlersOK, Consistent, Auth!Idle
<1>2. UNCHANGED <<links, sessions, requests, time, spent>>
  BY DEF Auth!Create
<1>3. CASE account[Fresh] # None /\ Auth!Finish(h) /\ UNCHANGED account
  <2>1. HandlersOK'
    BY <1>3, AccountFinishKeeps DEF AccountsInv, AccountTypes
  <2>2. Auth!Registered' = Auth!Registered
    BY <1>3, AccountsStay
  <2>3. HandlersKnown'
    BY <1>3, <2>2 DEF Auth!Finish, AccountsInv, AccountTypes, HandlersOK, Known, HandlersKnown
  <2>. QED
    BY <1>2, <1>3, <2>1, <2>2, <2>3, LinksStay, SessionsStay, AccountsStay DEF AccountsInv, AccountTypes, Known
<1>4. CASE /\ account[Fresh] = None /\ Auth!GoTo(h, "void")
           /\ account' = [account EXCEPT ![Fresh] =
                            [password |-> handler[h].password, verified |-> FALSE]]
  <2>. DEFINE row == [password |-> handler[h].password, verified |-> FALSE]
  <2>1. row \in AccountRow /\ row # None
    <3>1. row \in AccountRow
      BY <1>1 DEF AccountRow
    <3>. QED
      BY <3>1, AccountConstants DEF AccountRow
  <2>2. AccountsOK'
    BY <1>4, <2>1 DEF AccountsInv, AccountTypes, AccountsOK
  <2>3. Auth!Registered' = Auth!Registered \cup {Fresh}
    BY <1>4, <2>1 DEF AccountsInv, AccountTypes, AccountsOK, Auth!Registered
  <2>4. HandlersOK'
    BY <1>1, <1>4, AccountGoToKeeps DEF AccountsInv, AccountTypes
  <2>5. \A g \in Twins : handler'[g] = handler[g] \/ (g = h /\ handler'[g].user = Fresh)
    BY <1>1, <1>4 DEF Auth!GoTo, AccountsInv, AccountTypes, HandlersOK, AccountRequest
  <2>6. HandlersKnown'
    BY <2>3, <2>5 DEF AccountsInv, Known, HandlersKnown
  <2>. QED
    BY <1>2, <2>2, <2>3, <2>4, <2>6, LinksStay, SessionsStay DEF AccountsInv, AccountTypes, Known
<1>. QED
  BY <1>3, <1>4 DEF Auth!Create

(* The later steps of a request.                                             *)
LEMMA WhoGoesOn ==
  ASSUME AccountsInv, NEW h \in Twins,
         handler[h].at \in {"create", "session", "void", "issue", "use", "write", "end"}
  PROVE  /\ handler[h] # Auth!Idle /\ handler[h] \in AccountRequest /\ Consistent(handler[h])
         /\ handler[h].at # "create" => handler[h].user \in Users \cap Auth!Registered
  BY DEF AccountsInv, AccountTypes, HandlersOK, Auth!Idle, Known, HandlersKnown, AccountRequest

LEMMA LinkStepsPreserve ==
  ASSUME AccountsInv, NEW h \in Twins, Auth!Void(h) \/ Auth!UseLink(h) \/ Auth!EndOthers(h)
  PROVE  AccountsInv'
<1>1. ASSUME NEW L, NEW step \in {"issue", "write"}, handler[h].at \in {"void", "use"},
             links' = Auth!Used(L), Auth!GoTo(h, step),
             UNCHANGED <<account, sessions, requests, time, spent>>
      PROVE  AccountsInv'
  <2>1. handler[h] # Auth!Idle /\ handler[h].at # "create"
    BY <1>1, WhoGoesOn
  <2>2. HandlersOK' /\ HandlersKnown'
    BY <1>1, <2>1, AccountGoToKeeps, KnownOfGoingOn DEF AccountsInv, AccountTypes
  <2>. QED
    BY <1>1, <2>2, UseKeeps, SessionsStay, AccountsStay DEF AccountsInv, AccountTypes, Known
<1>2. CASE Auth!Void(h)
  <2>. DEFINE L == Auth!LinksOf(handler[h].user, Auth!Type(handler[h].kind))
  <2>1. /\ handler[h].at = "void" /\ links' = Auth!Used(L) /\ Auth!GoTo(h, "issue")
        /\ UNCHANGED <<account, sessions, requests, time, spent>>
    BY <1>2 DEF Auth!Void
  <2>. HIDE DEF L
  <2>. QED
    BY <1>1, <2>1
<1>3. CASE Auth!UseLink(h)
  <2>. DEFINE L == {handler[h].link}
  <2>1. /\ handler[h].at = "use" /\ links' = Auth!Used(L) /\ Auth!GoTo(h, "write")
        /\ UNCHANGED <<account, sessions, requests, time, spent>>
    BY <1>3 DEF Auth!UseLink
  <2>. HIDE DEF L
  <2>. QED
    BY <1>1, <2>1
<1>4. CASE Auth!EndOthers(h)
  <2>. DEFINE L == Auth!LinksOf(handler[h].user, Auth!Type(handler[h].kind))
  <2>1. L \subseteq DOMAIN links
    BY DEF Auth!LinksOf
  <2>2. /\ handler[h].at = "end" /\ links' = Auth!Used(L) /\ Auth!Finish(h)
        /\ spent' = spent \/ spent' = spent \cup L
        /\ UNCHANGED <<account, sessions, requests, time>>
    BY <1>4 DEF Auth!EndOthers
  <2>. HIDE DEF L
  <2>3. handler[h] # Auth!Idle /\ handler[h].at # "create"
    BY <2>2, WhoGoesOn
  <2>4. HandlersOK' /\ HandlersKnown'
    BY <2>2, <2>3, AccountFinishKeeps, KnownOfGoingOn DEF AccountsInv, AccountTypes
  <2>5. spent' \subseteq spent \cup (L \cap DOMAIN links)
    BY <2>1, <2>2
  <2>. QED
    BY <2>2, <2>4, <2>5, UseKeeps, SessionsStay, AccountsStay DEF AccountsInv, AccountTypes, Known
<1>. QED
  BY <1>2, <1>3, <1>4

LEMMA IssuePreserves ==
  ASSUME AccountsInv, NEW h \in Twins, Auth!Issue(h)
  PROVE  AccountsInv'
<1>. DEFINE type == Auth!Type(handler[h].kind)
            life == IF type = "reset" THEN ResetLife ELSE VerifyLife
            new == [user |-> handler[h].user, type |-> type, used |-> FALSE, until |-> time + life]
<1>1. /\ handler[h].at = "issue" /\ links' = Append(links, new)
      /\ Auth!GoTo(h, "session") \/ Auth!Finish(h)
      /\ UNCHANGED <<account, sessions, requests, time, spent>>
  BY DEF Auth!Issue
<1>2. handler[h] # Auth!Idle /\ handler[h].at # "create" /\ handler[h].user \in Users \cap Auth!Registered
  BY <1>1, WhoGoesOn
<1>3. new \in LinkRow /\ new.user = handler[h].user
  BY <1>2 DEF LinkRow, LinkTypes, Auth!Type, AccountsInv, AccountTypes
<1>. HIDE DEF new
<1>4. links \in Seq(LinkRow) /\ LinksOK' /\ DOMAIN links' = 1..(Len(links) + 1)
  BY <1>1, <1>3 DEF AccountsInv, AccountTypes, LinksOK
<1>5. /\ \A l \in DOMAIN links : l \in DOMAIN links' /\ links'[l] = links[l]
      /\ \A l \in DOMAIN links' : l \in DOMAIN links \/ links'[l] = new
  BY <1>1, <1>3, <1>4
<1>6. spent' \subseteq DOMAIN links' /\ SpentAreUsed'
  BY <1>1, <1>5 DEF AccountsInv, AccountTypes, SpentAreUsed
<1>7. LinksKnown'
  BY <1>1, <1>2, <1>3, <1>5, AccountsStay DEF AccountsInv, Known, LinksKnown
<1>8. HandlersOK' /\ HandlersKnown'
  BY <1>1, <1>2, AccountGoToKeeps, AccountFinishKeeps, KnownOfGoingOn DEF AccountsInv, AccountTypes
<1>. QED
  BY <1>1, <1>4, <1>6, <1>7, <1>8, SessionsStay, AccountsStay DEF AccountsInv, AccountTypes, Known

LEMMA CreateSessionPreserves ==
  ASSUME AccountsInv, NEW h \in Twins, Auth!CreateSession(h)
  PROVE  AccountsInv'
<1>1. /\ handler[h].at = "session" /\ Auth!Finish(h)
      /\ sessions' = sessions \cup {[user |-> handler[h].user, until |-> time + SessionLife]}
      /\ UNCHANGED <<account, links, requests, time, spent>>
  BY DEF Auth!CreateSession
<1>2. handler[h] # Auth!Idle /\ handler[h].at # "create" /\ handler[h].user \in Users \cap Auth!Registered
  BY <1>1, WhoGoesOn
<1>3. SessionsOK'
  BY <1>1, <1>2 DEF AccountsInv, AccountTypes, SessionsOK
<1>4. SessionsKnown'
  BY <1>1, <1>2, AccountsStay DEF AccountsInv, Known, SessionsKnown
<1>5. HandlersOK' /\ HandlersKnown'
  BY <1>1, <1>2, AccountFinishKeeps, KnownOfGoingOn DEF AccountsInv, AccountTypes
<1>. QED
  BY <1>1, <1>3, <1>4, <1>5, LinksStay, AccountsStay DEF AccountsInv, AccountTypes, Known

LEMMA WriteUserPreserves ==
  ASSUME AccountsInv, NEW h \in Twins, Auth!WriteUser(h)
  PROVE  AccountsInv'
<1>. DEFINE u == handler[h].user
<1>1. /\ handler[h].at = "write" /\ Auth!GoTo(h, "end")
      /\ account' = (IF handler[h].kind = "reset"
                     THEN [account EXCEPT ![u].password = handler[h].password]
                     ELSE [account EXCEPT ![u].verified = TRUE])
      /\ UNCHANGED <<links, sessions, requests, time, spent>>
  BY DEF Auth!WriteUser
<1>2. handler[h] # Auth!Idle /\ handler[h].at # "create" /\ u \in Users /\ u \in Auth!Registered
  BY <1>1, WhoGoesOn
<1>3. handler[h].kind = "reset" => handler[h].password \in Passwords
  BY <1>1, WhoGoesOn DEF Consistent
<1>4. account[u] \in AccountRow
  BY <1>2 DEF AccountsInv, AccountTypes, AccountsOK, Auth!Registered
<1>5. PICK row \in AccountRow : account' = [account EXCEPT ![u] = row]
  <2>1. CASE handler[h].kind = "reset"
    <3>1. [account[u] EXCEPT !.password = handler[h].password] \in AccountRow
      BY <1>3, <1>4, <2>1 DEF AccountRow
    <3>. QED
      BY <1>1, <2>1, <3>1
  <2>2. CASE handler[h].kind # "reset"
    <3>1. [account[u] EXCEPT !.verified = TRUE] \in AccountRow
      BY <1>4 DEF AccountRow
    <3>. QED
      BY <1>1, <2>2, <3>1
  <2>. QED
    BY <2>1, <2>2
<1>6. row # None
  BY DEF AccountRow
<1>7. AccountsOK' /\ Auth!Registered' = Auth!Registered
  BY <1>2, <1>5, <1>6 DEF AccountsInv, AccountTypes, AccountsOK, Auth!Registered
<1>8. HandlersOK'
  BY <1>1, <1>2, AccountGoToKeeps DEF AccountsInv, AccountTypes
<1>9. \A g \in Twins : handler'[g] = handler[g] \/ (g = h /\ handler'[g].user = u)
  BY <1>1, <1>2 DEF Auth!GoTo, AccountsInv, AccountTypes, HandlersOK, AccountRequest
<1>10. HandlersKnown'
  BY <1>2, <1>7, <1>9 DEF AccountsInv, Known, HandlersKnown
<1>. QED
  BY <1>1, <1>7, <1>8, <1>10, LinksStay, SessionsStay DEF AccountsInv, AccountTypes, Known

LEMMA AccountsStep ==
  ASSUME AccountsInv, [Auth!Next]_accountVars
  PROVE  AccountsInv'
<1>1. ASSUME NEW h \in Twins, Auth!Die(h)
      PROVE  AccountsInv'
  <2>1. Auth!Finish(h) /\ UNCHANGED <<account, links, sessions, requests, time, spent>>
    BY <1>1 DEF Auth!Die
  <2>2. HandlersOK' /\ HandlersKnown'
    BY <2>1, AccountFinishKeeps DEF Auth!Finish, AccountsInv, AccountTypes, HandlersOK, Known, HandlersKnown, Auth!Registered
  <2>. QED
    BY <2>1, <2>2, LinksStay, SessionsStay, AccountsStay DEF AccountsInv, AccountTypes, Known
<1>2. ASSUME UNCHANGED <<account, links, handler, requests, spent>>, sessions' \subseteq sessions,
             time' \in Nat
      PROVE  AccountsInv'
  <2>1. HandlersOK' /\ HandlersKnown'
    BY <1>2 DEF AccountsInv, AccountTypes, HandlersOK, Known, HandlersKnown, Auth!Registered, Consistent
  <2>. QED
    BY <1>2, <2>1, LinksStay, SessionsStay, AccountsStay DEF AccountsInv, AccountTypes, Known
<1>3. ASSUME NEW s \in sessions, Auth!Logout(s)
      PROVE  AccountsInv'
  BY <1>2, <1>3 DEF Auth!Logout, AccountsInv, AccountTypes
<1>4. CASE Auth!Pass
  BY <1>2, <1>4 DEF Auth!Pass, AccountsInv, AccountTypes
<1>5. CASE UNCHANGED accountVars
  BY <1>2, <1>5 DEF accountVars, AccountsInv, AccountTypes
<1>6. ASSUME NEW h \in Twins,
             \/ Auth!Create(h) \/ Auth!CreateSession(h) \/ Auth!Void(h) \/ Auth!Issue(h)
             \/ Auth!UseLink(h) \/ Auth!WriteUser(h) \/ Auth!EndOthers(h) \/ Auth!Die(h)
      PROVE  AccountsInv'
  BY <1>1, <1>6, CreatePreserves, CreateSessionPreserves, LinkStepsPreserve, IssuePreserves,
     WriteUserPreserves
<1>. QED
  BY <1>3, <1>4, <1>5, <1>6, BeginPreserves DEF Auth!Next

-----------------------------------------------------------------------------
(* Jobs for seekers, and who was told of them.                               *)
JobRow == [listing : Listings, keyed : BOOLEAN, active : BOOLEAN, fresh : BOOLEAN, born : Nat]

Lane == [step : {"done", "asks", "finds", "finds-old", "stores"},
         listing : Listings \cup {None}, row : Nat]

Profiles == [Seekers -> [told : SUBSET Nat, last : Nat \cup {None}]]

Message == [seeker : Seekers, jobs : SUBSET Nat]

Pass == [phase : {"idle", "searches", "alerts"}, since : Nat, jobs : SUBSET Nat,
         state : Profiles \cup {<<>>}, left : SUBSET Seekers, sent : Message \cup {None}]

FeedTypes ==
  /\ job \in Seq(JobRow)
  /\ clock \in Nat /\ hour \in Nat
  /\ run \in [Feed!Runs -> Pass]
  /\ lane \in [Feed!Runs -> [Twins -> Lane]]
  /\ known \in Profiles
  /\ heard \in [Seekers -> [Listings -> Nat]]

(* Two rows are never about one listing.                                     *)
RowsApart == \A i, j \in DOMAIN job : job[i].listing = job[j].listing => i = j

(* What a search has found in the table and will write by.                   *)
Finding(rows, l) ==
  /\ l.step \in {"finds", "finds-old", "stores"} => l.listing \in Listings
  /\ l.step \in {"finds", "finds-old"} => l.row = 0
  /\ l.step = "stores" /\ l.row # 0 =>
       l.row \in DOMAIN rows /\ rows[l.row].listing = l.listing
  /\ l.step = "stores" /\ l.row = 0 =>
       \A i \in DOMAIN rows : rows[i].listing = l.listing => rows[i].keyed

Findings == \A r \in Feed!Runs, s \in Twins : Finding(job, lane[r][s])

(* Rows stay about their listing, get a key once and are made with one.      *)
TableGrows(rows, new) ==
  /\ \A i \in DOMAIN rows :
       i \in DOMAIN new /\ new[i].listing = rows[i].listing /\ (rows[i].keyed => new[i].keyed)
  /\ \A i \in DOMAIN new \ DOMAIN rows : new[i].keyed

(* A refresh that alerts has read the profiles; a message that is out and    *)
(* not noted is to a seeker whom it has still to go past.                    *)
PassOK(r, pass) ==
  /\ pass.phase = "alerts" => r \in Feed!Refreshes /\ pass.state \in Profiles
  /\ pass.sent # None => pass.phase = "alerts" /\ pass.sent.seeker \in pass.left

PassesOK == \A r \in Feed!Runs : PassOK(r, run[r])

(* As long as nothing is excused one pass goes on at a time, by what the     *)
(* profiles still say, and what was heard of is noted or about to be.        *)
OnePass == \A q, r \in Feed!Runs :
             run[q].phase = "alerts" /\ run[r].phase = "alerts" => q = r

ByProfile(pass) == pass.phase = "alerts" => \A s \in pass.left : pass.state[s] = known[s]

Noted(s, i) ==
  \/ i \in known[s].told
  \/ \E r \in Feed!Runs :
       run[r].sent # None /\ run[r].sent.seeker = s /\ i \in run[r].sent.jobs

HeardIsNoted == \A s \in Seekers, i \in DOMAIN job :
                  heard[s][job[i].listing] >= 1 => Noted(s, i)

HeardIsListed == \A s \in Seekers, l \in Listings :
                   heard[s][l] >= 1 => \E i \in DOMAIN job : job[i].listing = l

Alerting == ~excused => /\ OnePass
                        /\ \A r \in Feed!Runs : ByProfile(run[r])
                        /\ HeardIsNoted
                        /\ Feed!AlertedOnce

FeedInv == FeedTypes /\ RowsApart /\ Findings /\ PassesOK /\ HeardIsListed /\ Alerting

(* What was found stays so while the table grows.                            *)
LEMMA FindingStays ==
  ASSUME NEW rows, NEW new, TableGrows(rows, new), NEW l, Finding(rows, l)
  PROVE  Finding(new, l)
<1>1. CASE l.step = "stores" /\ l.row = 0
  <2>1. ASSUME NEW i \in DOMAIN new, new[i].listing = l.listing
        PROVE  new[i].keyed
    <3>1. CASE i \in DOMAIN rows
      BY <1>1, <2>1, <3>1 DEF TableGrows, Finding
    <3>2. CASE i \notin DOMAIN rows
      BY <2>1, <3>2 DEF TableGrows
    <3>. QED
      BY <3>1, <3>2
  <2>. QED
    BY <1>1, <2>1 DEF Finding
<1>2. CASE ~(l.step = "stores" /\ l.row = 0)
  BY <1>2 DEF Finding, TableGrows
<1>. QED
  BY <1>1, <1>2

(* A step that leaves passes, profiles and what was heard alone.             *)
LEMMA TableStep ==
  ASSUME FeedInv, FeedTypes', RowsApart', TableGrows(job, job'),
         UNCHANGED <<run, known, heard, excused>>,
         \A i \in DOMAIN job' \ DOMAIN job :
           \A j \in DOMAIN job : job[j].listing # job'[i].listing,
         \A r \in Feed!Runs, s \in Twins :
           lane'[r][s] = lane[r][s] \/ Finding(job, lane'[r][s])
  PROVE  FeedInv'
<1>1. Findings'
  <2>1. \A r \in Feed!Runs, s \in Twins : Finding(job, lane'[r][s])
    BY DEF FeedInv, Findings
  <2>. QED
    BY <2>1, FindingStays DEF Findings
<1>2. PassesOK'
  BY DEF FeedInv, PassesOK
<1>3. HeardIsListed'
  BY DEF FeedInv, HeardIsListed, TableGrows
<1>4. ASSUME ~excused
      PROVE  HeardIsNoted'
  <2>1. ASSUME NEW s \in Seekers, NEW i \in DOMAIN job', heard[s][job'[i].listing] >= 1
        PROVE  Noted(s, i)
    <3>1. job'[i].listing \in Listings
      <4>1. job' \in Seq(JobRow)
        BY DEF FeedTypes
      <4>2. job'[i] \in JobRow
        BY <4>1
      <4>. QED
        BY <4>2 DEF JobRow
    <3>2. i \in DOMAIN job
      BY <2>1, <3>1 DEF FeedInv, HeardIsListed
    <3>3. job'[i].listing = job[i].listing
      BY <3>2 DEF TableGrows
    <3>4. HeardIsNoted
      BY <1>4 DEF FeedInv, Alerting
    <3>. QED
      BY <2>1, <3>2, <3>3, <3>4 DEF HeardIsNoted
  <2>. QED
    BY <2>1 DEF HeardIsNoted, Noted
<1>5. Alerting'
  BY <1>4 DEF FeedInv, Alerting, OnePass, ByProfile, Feed!AlertedOnce
<1>. QED
  BY <1>1, <1>2, <1>3, <1>5 DEF FeedInv

(* One run goes on; rows keep their listings and their keys.                 *)
LEMMA RunStep ==
  ASSUME FeedInv, FeedTypes', NEW r \in Feed!Runs, NEW new \in Pass,
         run' = [run EXCEPT ![r] = new], UNCHANGED <<known, heard>>,
         TableGrows(job, job'), DOMAIN job' = DOMAIN job,
         \A q \in Feed!Runs, s \in Twins :
           lane'[q][s] = lane[q][s] \/ lane'[q][s].step \in {"done", "asks"},
         PassOK(r, new),
         ~excused' => /\ ~excused
                      /\ new.phase = "alerts" /\ run[r].phase # "alerts" =>
                           \A q \in Feed!Runs : run[q].phase # "alerts"
                      /\ ByProfile(new)
                      /\ run[r].sent # None => new.sent = run[r].sent
  PROVE  FeedInv'
<1>1. run'[r] = new /\ \A q \in Feed!Runs : q # r => run'[q] = run[q]
  BY DEF FeedInv, FeedTypes
<1>2. RowsApart'
  BY DEF FeedInv, RowsApart, TableGrows
<1>3. Findings'
  <2>1. \A q \in Feed!Runs, s \in Twins : Finding(job, lane'[q][s])
    BY DEF FeedInv, Findings, Finding
  <2>. QED
    BY <2>1, FindingStays DEF Findings
<1>4. PassesOK'
  BY <1>1 DEF FeedInv, PassesOK
<1>5. HeardIsListed'
  BY DEF FeedInv, HeardIsListed, TableGrows
<1>6. ASSUME ~excused'
      PROVE  /\ OnePass' /\ HeardIsNoted' /\ Feed!AlertedOnce'
             /\ \A q \in Feed!Runs : ByProfile(run[q])'
  <2>1. Alerting /\ ~excused
    BY <1>6 DEF FeedInv
  <2>2. OnePass'
    BY <1>1, <1>6, <2>1 DEF Alerting, OnePass
  <2>3. \A q \in Feed!Runs : ByProfile(run[q])'
    BY <1>1, <1>6, <2>1 DEF Alerting, ByProfile
  <2>4. \A s, i : Noted(s, i) => Noted(s, i)'
    BY <1>1, <1>6 DEF Noted
  <2>5. HeardIsNoted'
    BY <2>1, <2>4 DEF Alerting, HeardIsNoted, TableGrows
  <2>. QED
    BY <2>1, <2>2, <2>3, <2>5 DEF Alerting, Feed!AlertedOnce
<1>. QED
  BY <1>2, <1>3, <1>4, <1>5, <1>6 DEF FeedInv, Alerting

LEMMA PlaybookIsNoRefresh ==
  /\ Feed!Refreshes \subseteq Feed!Runs /\ "playbook" \in Feed!Runs
  /\ "playbook" \notin Feed!Refreshes
  BY DEF Feed!Refreshes, Feed!Runs

LEMMA SearchIsTyped ==
  ASSUME FeedTypes, NEW r \in Feed!Runs, Feed!Search(r)
  PROVE  /\ lane' \in [Feed!Runs -> [Twins -> Lane]]
         /\ \A q \in Feed!Runs, s \in Twins :
              lane'[q][s] = lane[q][s] \/ lane'[q][s].step \in {"done", "asks"}
<1>. PICK asks : asks = [Feed!NoLane EXCEPT !.step = "asks"]
  OBVIOUS
<1>1. asks \in Lane /\ asks.step = "asks"
  BY DEF Feed!NoLane, Lane
<1>2. lane' = [lane EXCEPT ![r] = [s \in Twins |-> asks]]
  BY DEF Feed!Search
<1>. QED
  BY <1>1, <1>2 DEF FeedTypes

(* Listings that expire or grow old stay where they are.                     *)
LEMMA Aged ==
  ASSUME FeedTypes, NEW rows, DOMAIN rows = DOMAIN job,
         rows = [i \in DOMAIN job |-> rows[i]],
         \A i \in DOMAIN job : \/ rows[i] = [job[i] EXCEPT !.active = @ /\ job[i].fresh]
                               \/ rows[i] = [job[i] EXCEPT !.fresh = FALSE]
  PROVE  rows \in Seq(JobRow) /\ TableGrows(job, rows)
<1>1. ASSUME NEW i \in DOMAIN job
      PROVE  /\ rows[i] \in JobRow /\ rows[i].listing = job[i].listing
             /\ rows[i].keyed = job[i].keyed
  <2>1. job[i] \in JobRow
    BY DEF FeedTypes
  <2>2. CASE rows[i] = [job[i] EXCEPT !.active = @ /\ job[i].fresh]
    <3>1. (job[i].active /\ job[i].fresh) \in BOOLEAN
      OBVIOUS
    <3>. QED
      BY <2>1, <2>2, <3>1 DEF JobRow
  <2>3. CASE rows[i] = [job[i] EXCEPT !.fresh = FALSE]
    BY <2>1, <2>3 DEF JobRow
  <2>. QED
    BY <2>2, <2>3
<1>2. Len(job) \in Nat /\ DOMAIN job = 1..Len(job)
  BY DEF FeedTypes
<1>3. rows \in [1..Len(job) -> JobRow]
  BY <1>1, <1>2
<1>4. rows \in Seq(JobRow)
  BY <1>2, <1>3
<1>. QED
  BY <1>1, <1>4 DEF TableGrows

LEMMA IdleIsPass ==
  Feed!Idle \in Pass /\ Feed!Idle.phase = "idle" /\ Feed!Idle.sent = None
  BY DEF Feed!Idle, Pass

LEMMA StartStep ==
  ASSUME FeedInv, NEW r, Feed!Start(r)
  PROVE  FeedInv'
<1>. r \in Feed!Runs
  BY PlaybookIsNoRefresh DEF Feed!Start
<1>1. /\ FeedTypes /\ UNCHANGED <<hour, known, heard, excused>> /\ clock' = clock + 1
      /\ clock' \in Nat
  BY DEF FeedInv, FeedTypes, Feed!Start
<1>. PICK new : new = [Feed!Idle EXCEPT !.phase = "searches", !.since = clock']
  OBVIOUS
<1>2. new \in Pass /\ new.phase = "searches" /\ new.sent = None
  BY <1>1, IdleIsPass DEF Pass
<1>3. run' = [run EXCEPT ![r] = new] /\ run[r].phase = "idle"
  BY DEF Feed!Start
<1>4. job' \in Seq(JobRow) /\ TableGrows(job, job') /\ DOMAIN job' = DOMAIN job
  BY <1>1, Aged DEF Feed!Start
<1>5. /\ lane' \in [Feed!Runs -> [Twins -> Lane]]
      /\ \A q \in Feed!Runs, s \in Twins :
           lane'[q][s] = lane[q][s] \/ lane'[q][s].step \in {"done", "asks"}
  BY <1>1, SearchIsTyped DEF Feed!Start
<1>6. FeedTypes'
  <2>1. run' \in [Feed!Runs -> Pass]
    BY <1>1, <1>2, <1>3 DEF FeedTypes
  <2>. QED
    BY <1>1, <1>4, <1>5, <2>1 DEF FeedTypes
<1>7. run[r].sent = None
  BY <1>3 DEF FeedInv, PassesOK, PassOK
<1>. QED
  BY <1>1, <1>2, <1>3, <1>4, <1>5, <1>6, <1>7, RunStep DEF PassOK, ByProfile

(* A run that goes on without the table, other than with a message.          *)
LEMMA PassStep ==
  ASSUME FeedInv, NEW r \in Feed!Runs, NEW new \in Pass, run' = [run EXCEPT ![r] = new],
         UNCHANGED <<job, known, heard, hour>>, clock' \in Nat,
         lane' \in [Feed!Runs -> [Twins -> Lane]],
         \A q \in Feed!Runs, s \in Twins :
           lane'[q][s] = lane[q][s] \/ lane'[q][s].step \in {"done", "asks"},
         PassOK(r, new),
         ~excused' => /\ ~excused
                      /\ new.phase = "alerts" /\ run[r].phase # "alerts" =>
                           \A q \in Feed!Runs : run[q].phase # "alerts"
                      /\ ByProfile(new)
                      /\ run[r].sent # None => new.sent = run[r].sent
  PROVE  FeedInv'
<1>1. FeedTypes'
  BY DEF FeedInv, FeedTypes
<1>2. TableGrows(job, job') /\ DOMAIN job' = DOMAIN job
  BY DEF TableGrows
<1>. QED
  BY <1>1, <1>2, RunStep

LEMMA PlaybookSteps ==
  ASSUME FeedInv,
         (\E s \in Seekers : Feed!StartPlaybook(s)) \/ Feed!EndPlaybook
  PROVE  FeedInv'
<1>. PICK r \in Feed!Runs : r = "playbook"
  BY PlaybookIsNoRefresh
<1>1. /\ FeedTypes /\ clock \in Nat /\ run[r] \in Pass
      /\ run[r].phase # "alerts" /\ run[r].sent = None
  BY PlaybookIsNoRefresh DEF FeedInv, FeedTypes, PassesOK, PassOK
<1>2. ASSUME NEW s \in Seekers, Feed!StartPlaybook(s)
      PROVE  FeedInv'
  <2>. PICK new : new = [run[r] EXCEPT !.phase = "searches"]
    OBVIOUS
  <2>1. new \in Pass /\ new.phase = "searches" /\ new.sent = None
    BY <1>1 DEF Pass
  <2>2. /\ run' = [run EXCEPT ![r] = new] /\ clock' = clock + 1 /\ Feed!Search(r)
        /\ UNCHANGED <<job, hour, known, heard, excused>> /\ clock' \in Nat
    BY <1>1, <1>2 DEF Feed!StartPlaybook
  <2>3. /\ lane' \in [Feed!Runs -> [Twins -> Lane]]
        /\ \A q \in Feed!Runs, t \in Twins :
             lane'[q][t] = lane[q][t] \/ lane'[q][t].step \in {"done", "asks"}
    BY <1>1, <2>2, SearchIsTyped
  <2>. QED
    BY <1>1, <2>1, <2>2, <2>3, PassStep DEF PassOK, ByProfile
<1>3. CASE Feed!EndPlaybook
  <2>2. /\ run' = [run EXCEPT ![r] = Feed!Idle]
        /\ UNCHANGED <<job, clock, hour, lane, known, heard, excused>>
    BY <1>3 DEF Feed!EndPlaybook
  <2>. QED
    BY <1>1, <2>2, IdleIsPass, PassStep DEF PassOK, ByProfile, FeedTypes
<1>. QED
  BY <1>2, <1>3

LEMMA JobsAreNumbers ==
  ASSUME FeedTypes
  PROVE  /\ Len(job) \in Nat /\ DOMAIN job = 1..Len(job) /\ IsFiniteSet(DOMAIN job)
         /\ DOMAIN job \subseteq Nat /\ \A i \in DOMAIN job : job[i] \in JobRow
<1>1. Len(job) \in Nat /\ DOMAIN job = 1..Len(job) /\ \A i \in DOMAIN job : job[i] \in JobRow
  BY DEF FeedTypes
<1>2. IsFiniteSet(1..Len(job))
  BY <1>1, FS_Interval
<1>. QED
  BY <1>1, <1>2

LEMMA BeginAlertsStep ==
  ASSUME FeedInv, NEW r, Feed!BeginAlerts(r)
  PROVE  FeedInv'
<1>. r \in Feed!Runs /\ r \in Feed!Refreshes
  BY PlaybookIsNoRefresh DEF Feed!BeginAlerts
<1>1. /\ FeedTypes /\ run[r] \in Pass /\ known \in Profiles
      /\ UNCHANGED <<job, clock, hour, lane, known, heard, deaths>>
  BY DEF FeedInv, FeedTypes, Feed!BeginAlerts
<1>. PICK fresh : fresh = {i \in Feed!Active : job[i].born >= run[r].since}
  OBVIOUS
<1>2. fresh \subseteq DOMAIN job /\ fresh \in SUBSET Nat
  BY <1>1, JobsAreNumbers DEF Feed!Active
<1>3. /\ run[r].phase = "searches" /\ run[r].sent = None
      /\ excused' = (excused \/ (fresh # {} /\ \E q \in Feed!Refreshes : run[q].phase = "alerts"))
  BY DEF Feed!BeginAlerts, Feed!Searched, FeedInv, PassesOK, PassOK
<1>4. CASE fresh = {}
  <2>1. run' = [run EXCEPT ![r] = Feed!Idle]
    BY <1>4 DEF Feed!BeginAlerts
  <2>. QED
    BY <1>1, <1>3, <2>1, IdleIsPass, PassStep DEF PassOK, ByProfile, FeedTypes
<1>5. CASE fresh # {}
  <2>. PICK new : new = [run[r] EXCEPT !.phase = "alerts", !.jobs = fresh, !.state = known,
                                       !.left = Seekers]
    OBVIOUS
  <2>1. /\ new \in Pass /\ new.phase = "alerts" /\ new.state = known
        /\ new.sent = None
    BY <1>1, <1>2, <1>3 DEF Pass
  <2>2. run' = [run EXCEPT ![r] = new]
    BY <1>5 DEF Feed!BeginAlerts
  <2>3. PassOK(r, new) /\ ByProfile(new)
    BY <1>1, <2>1 DEF PassOK, ByProfile
  <2>4. ASSUME ~excused'
        PROVE  ~excused /\ \A q \in Feed!Runs : run[q].phase # "alerts"
    BY <1>3, <1>5, <2>4 DEF FeedInv, PassesOK, PassOK
  <2>. QED
    BY <1>1, <1>3, <2>1, <2>2, <2>3, <2>4, PassStep DEF FeedTypes
<1>. QED
  BY <1>4, <1>5

(* A seeker whom a pass goes past without a message.                         *)
LEMMA GoPast ==
  ASSUME FeedInv, NEW r \in Feed!Refreshes, NEW s \in Seekers,
         run[r].phase = "alerts", run[r].sent = None,
         run' = [run EXCEPT ![r].left = @ \ {s}],
         UNCHANGED <<job, clock, hour, lane, known, heard, excused>>
  PROVE  FeedInv'
<1>. r \in Feed!Runs
  BY PlaybookIsNoRefresh
<1>1. FeedTypes /\ run[r] \in Pass /\ PassOK(r, run[r])
  BY DEF FeedInv, FeedTypes, PassesOK
<1>. PICK new : new = [run[r] EXCEPT !.left = @ \ {s}]
  OBVIOUS
<1>2. /\ new \in Pass /\ new.phase = "alerts" /\ new.sent = None
      /\ new.left \subseteq run[r].left /\ new.state = run[r].state
  BY <1>1 DEF Pass
<1>3. run' = [run EXCEPT ![r] = new]
  BY <1>1
<1>4. PassOK(r, new) /\ (ByProfile(run[r]) => ByProfile(new))
  BY <1>1, <1>2 DEF PassOK, ByProfile
<1>5. ~excused => ByProfile(run[r])
  BY DEF FeedInv, Alerting
<1>. QED
  BY <1>1, <1>2, <1>3, <1>4, <1>5, PassStep DEF FeedTypes

LEMMA EndStep ==
  ASSUME FeedInv, NEW r \in Feed!Runs, Feed!EndRefresh(r) \/ Feed!Die(r)
  PROVE  FeedInv'
<1>1. FeedTypes /\ run[r] \in Pass /\ PassOK(r, run[r])
  BY DEF FeedInv, FeedTypes, PassesOK
<1>2. /\ run' = [run EXCEPT ![r] = Feed!Idle]
      /\ UNCHANGED <<job, clock, hour, known, heard>>
      /\ ~excused' => ~excused /\ run[r].sent = None
  <2>1. CASE Feed!EndRefresh(r)
    <3>1. /\ run' = [run EXCEPT ![r] = Feed!Idle] /\ run[r].left = {}
          /\ UNCHANGED <<job, clock, hour, known, heard, excused>>
      BY <2>1 DEF Feed!EndRefresh
    <3>. QED
      BY <1>1, <3>1 DEF PassOK
  <2>2. CASE Feed!Die(r)
    <3>1. /\ run' = [run EXCEPT ![r] = Feed!Idle]
          /\ UNCHANGED <<job, clock, hour, known, heard>>
          /\ excused' = (excused \/ run[r].sent # None)
      BY <2>2 DEF Feed!Die
    <3>. QED
      BY <3>1
  <2>. QED
    BY <2>1, <2>2
<1>3. /\ lane' \in [Feed!Runs -> [Twins -> Lane]]
      /\ \A q \in Feed!Runs, s \in Twins :
           lane'[q][s] = lane[q][s] \/ lane'[q][s].step \in {"done", "asks"}
  <2>1. CASE Feed!EndRefresh(r)
    BY <1>1, <2>1 DEF Feed!EndRefresh, FeedTypes
  <2>2. CASE Feed!Die(r)
    <3>. PICK none : none = Feed!NoLane
      OBVIOUS
    <3>1. none \in Lane /\ none.step = "done"
      BY DEF Feed!NoLane, Lane
    <3>2. lane' = [lane EXCEPT ![r] = [s \in Twins |-> none]]
      BY <2>2 DEF Feed!Die
    <3>. QED
      BY <1>1, <3>1, <3>2 DEF FeedTypes
  <2>. QED
    BY <2>1, <2>2
<1>. QED
  BY <1>1, <1>2, <1>3, IdleIsPass, PassStep DEF PassOK, ByProfile, FeedTypes

(* A search that asks, finds and writes.                                     *)
LEMMA LaneStep ==
  ASSUME FeedInv, NEW r \in Feed!Runs, NEW s \in Twins, NEW new \in Lane,
         lane' = [lane EXCEPT ![r][s] = new], Finding(job, new),
         job' \in Seq(JobRow), RowsApart', TableGrows(job, job'),
         UNCHANGED <<clock, hour, run, known, heard, excused>>,
         \A i \in DOMAIN job' \ DOMAIN job :
           \A j \in DOMAIN job : job[j].listing # job'[i].listing
  PROVE  FeedInv'
<1>1. FeedTypes
  BY DEF FeedInv
<1>2. /\ lane' \in [Feed!Runs -> [Twins -> Lane]]
      /\ \A q \in Feed!Runs, t \in Twins : lane'[q][t] = lane[q][t] \/ lane'[q][t] = new
  BY <1>1 DEF FeedTypes
<1>3. FeedTypes'
  BY <1>1, <1>2 DEF FeedTypes
<1>4. \A q \in Feed!Runs, t \in Twins :
        lane'[q][t] = lane[q][t] \/ Finding(job, lane'[q][t])
  BY <1>2
<1>. QED
  BY <1>3, <1>4, TableStep

LEMMA NoLaneIsLane ==
  Feed!NoLane \in Lane /\ \A rows : Finding(rows, Feed!NoLane)
  BY DEF Feed!NoLane, Lane, Finding

LEMMA AnswerStep ==
  ASSUME FeedInv, NEW r \in Feed!Runs, NEW s \in Twins, NEW l \in Listings \cup {None},
         Feed!Answer(r, s, l)
  PROVE  FeedInv'
<1>. PICK new : new = IF l = None THEN Feed!NoLane
                      ELSE [step |-> "finds", listing |-> l, row |-> 0]
  OBVIOUS
<1>1. new \in Lane /\ Finding(job, new)
  <2>1. CASE l = None
    BY <2>1, NoLaneIsLane
  <2>2. CASE l # None
    BY <2>2 DEF Lane, Finding
  <2>. QED
    BY <2>1, <2>2
<1>2. /\ lane' = [lane EXCEPT ![r][s] = new]
      /\ UNCHANGED <<job, clock, hour, run, known, heard, excused, deaths>>
  BY DEF Feed!Answer
<1>3. job' \in Seq(JobRow) /\ RowsApart' /\ TableGrows(job, job')
  BY <1>2 DEF FeedInv, FeedTypes, RowsApart, TableGrows
<1>. QED
  BY <1>1, <1>2, <1>3, LaneStep

(* Rows of one listing are one row at most, so the least of them is it.      *)
LEMMA MinOfOne ==
  ASSUME NEW rows \in SUBSET Nat, NEW i \in rows, \A j \in rows : j = i
  PROVE  Feed!Min(rows) = i
<1>1. rows = {i}
  OBVIOUS
<1>2. i \in Int
  OBVIOUS
<1>. QED
  BY <1>1, <1>2 DEF Feed!Min

LEMMA FindStep ==
  ASSUME FeedInv, NEW r \in Feed!Runs, NEW s \in Twins, NEW keyed \in BOOLEAN,
         Feed!Find(r, s, keyed)
  PROVE  FeedInv'
<1>. PICK l : l = lane[r][s]
  OBVIOUS
<1>. DEFINE rows == {i \in DOMAIN job : job[i].listing = lane[r][s].listing /\ job[i].keyed = keyed}
            new == IF rows # {} THEN [lane[r][s] EXCEPT !.step = "stores", !.row = Feed!Min(rows)]
                   ELSE [lane[r][s] EXCEPT !.step = IF keyed THEN "finds-old" ELSE "stores"]
<1>1. /\ lane' = [lane EXCEPT ![r][s] = new]
      /\ l.step = IF keyed THEN "finds" ELSE "finds-old"
      /\ UNCHANGED <<job, clock, hour, run, known, heard, excused, deaths>>
  BY ZenonT(30) DEF Feed!Find
<1>a. \A i : i \in rows <=> i \in DOMAIN job /\ job[i].listing = l.listing /\ job[i].keyed = keyed
  OBVIOUS
<1>b. new = IF rows # {} THEN [l EXCEPT !.step = "stores", !.row = Feed!Min(rows)]
            ELSE [l EXCEPT !.step = IF keyed THEN "finds-old" ELSE "stores"]
  BY Zenon
<1>. HIDE DEF rows, new
<1>2. l \in Lane /\ Finding(job, l) /\ l.listing \in Listings
  BY <1>1 DEF FeedInv, FeedTypes, Findings, Finding
<1>3. new \in Lane /\ Finding(job, new)
  <2>1. CASE rows # {}
    <3>1. PICK i \in rows : TRUE
      BY <2>1
    <3>2. i \in DOMAIN job /\ job[i].listing = l.listing /\ i \in Nat
      BY <1>a, <3>1, JobsAreNumbers DEF FeedInv
    <3>3. \A j \in rows : j = i
      BY <1>a, <3>2 DEF FeedInv, RowsApart
    <3>4. rows \in SUBSET Nat
      BY <1>a, JobsAreNumbers DEF FeedInv
    <3>5. Feed!Min(rows) = i
      BY <3>1, <3>3, <3>4, MinOfOne
    <3>6. new = [l EXCEPT !.step = "stores", !.row = i]
      BY <1>b, <2>1, <3>5
    <3>7. i # 0
      BY <3>2, JobsAreNumbers DEF FeedInv
    <3>. QED
      BY <1>2, <3>2, <3>6, <3>7 DEF Lane, Finding
  <2>2. CASE rows = {} /\ keyed
    <3>1. new = [l EXCEPT !.step = "finds-old"] /\ l.step = "finds"
      BY <1>1, <1>b, <2>2
    <3>. QED
      BY <1>2, <3>1 DEF Lane, Finding
  <2>3. CASE rows = {} /\ ~keyed
    <3>1. new = [l EXCEPT !.step = "stores"] /\ l.step = "finds-old"
      BY <1>1, <1>b, <2>3
    <3>2. ASSUME NEW i \in DOMAIN job, job[i].listing = l.listing
          PROVE  job[i].keyed
      <4>1. job[i].keyed \in BOOLEAN
        BY JobsAreNumbers DEF FeedInv, JobRow
      <4>2. job[i].keyed # FALSE
        BY <1>a, <2>3, <3>2
      <4>. QED
        BY <4>1, <4>2
    <3>. QED
      BY <1>2, <3>1, <3>2 DEF Lane, Finding
  <2>. QED
    BY <2>1, <2>2, <2>3
<1>4. job' \in Seq(JobRow) /\ RowsApart' /\ TableGrows(job, job')
  BY <1>1 DEF FeedInv, FeedTypes, RowsApart, TableGrows
<1>. QED
  BY <1>1, <1>3, <1>4, LaneStep

(* The first row about a listing.                                            *)
LEMMA NewRow ==
  ASSUME FeedInv, NEW new \in JobRow, new.keyed, job' = Append(job, new),
         \A j \in DOMAIN job : job[j].listing # new.listing,
         NEW r \in Feed!Runs, NEW s \in Twins, NEW none \in Lane, Finding(job, none),
         lane' = [lane EXCEPT ![r][s] = none],
         UNCHANGED <<clock, hour, run, known, heard, excused>>
  PROVE  FeedInv'
<1>1. Len(job) \in Nat /\ DOMAIN job = 1..Len(job) /\ job \in Seq(JobRow)
  BY JobsAreNumbers DEF FeedInv, FeedTypes
<1>2. /\ job' \in Seq(JobRow) /\ Len(job') = Len(job) + 1 /\ job'[Len(job) + 1] = new
      /\ \A i \in 1..Len(job) : job'[i] = job[i]
  BY <1>1, AppendProperties
<1>3. DOMAIN job' = 1..(Len(job) + 1)
  BY <1>1, <1>2
<1>4. DOMAIN job' \ DOMAIN job = {Len(job) + 1} /\ DOMAIN job \subseteq DOMAIN job'
  BY <1>1, <1>3
<1>5. RowsApart'
  <2>1. ASSUME NEW i \in DOMAIN job', NEW j \in DOMAIN job', job'[i].listing = job'[j].listing
        PROVE  i = j
    <3>1. CASE i \in DOMAIN job /\ j \in DOMAIN job
      BY <1>1, <1>2, <2>1, <3>1 DEF FeedInv, RowsApart
    <3>2. CASE i \notin DOMAIN job /\ j \notin DOMAIN job
      BY <1>4, <3>2
    <3>3. CASE i \in DOMAIN job /\ j \notin DOMAIN job
      BY <1>1, <1>2, <1>4, <2>1, <3>3
    <3>4. CASE i \notin DOMAIN job /\ j \in DOMAIN job
      BY <1>1, <1>2, <1>4, <2>1, <3>4
    <3>. QED
      BY <3>1, <3>2, <3>3, <3>4
  <2>. QED
    BY <2>1 DEF RowsApart
<1>6. TableGrows(job, job')
  BY <1>1, <1>2, <1>4 DEF TableGrows
<1>7. \A i \in DOMAIN job' \ DOMAIN job :
        \A j \in DOMAIN job : job[j].listing # job'[i].listing
  BY <1>2, <1>4
<1>. QED
  BY <1>2, <1>5, <1>6, <1>7, LaneStep

LEMMA StoreStep ==
  ASSUME FeedInv, NEW r \in Feed!Runs, NEW s \in Twins, Feed!Store(r, s)
  PROVE  FeedInv'
<1>. PICK l : l = lane[r][s]
  OBVIOUS
<1>. PICK none : none = Feed!NoLane
  OBVIOUS
<1>1. /\ lane' = [lane EXCEPT ![r][s] = none] /\ l.step = "stores"
      /\ UNCHANGED <<clock, hour, run, known, heard, excused, deaths>>
  BY DEF Feed!Store
<1>2. l \in Lane /\ Finding(job, l) /\ l.listing \in Listings
  BY <1>1 DEF FeedInv, FeedTypes, Findings, Finding
<1>3. none \in Lane /\ Finding(job, none)
  BY NoLaneIsLane
<1>4. Len(job) \in Nat /\ DOMAIN job = 1..Len(job) /\ \A i \in DOMAIN job : job[i] \in JobRow
  BY JobsAreNumbers DEF FeedInv
<1>5. CASE l.row # 0
  <2>. PICK i : i = l.row
    OBVIOUS
  <2>. PICK stored : stored = [job[i] EXCEPT !.keyed = TRUE, !.active = TRUE, !.fresh = TRUE]
    OBVIOUS
  <2>1. i \in DOMAIN job
    BY <1>1, <1>2, <1>5 DEF Finding
  <2>2. stored \in JobRow /\ stored.listing = job[i].listing /\ stored.keyed
    <3>1. job[i] \in JobRow
      BY <1>4, <2>1
    <3>. QED
      BY <3>1 DEF JobRow
  <2>3. job' = [job EXCEPT ![i] = stored]
    <3>1. lane[r][s].row # 0
      BY <1>5
    <3>2. job' = [job EXCEPT ![lane[r][s].row] =
                    [job[lane[r][s].row] EXCEPT !.keyed = TRUE, !.active = TRUE, !.fresh = TRUE]]
      BY <3>1 DEF Feed!Store
    <3>. QED
      BY <3>2
  <2>4. job' \in Seq(JobRow) /\ DOMAIN job' = DOMAIN job
    <3>1. job \in Seq(JobRow)
      BY DEF FeedInv, FeedTypes
    <3>2. job \in [1..Len(job) -> JobRow]
      BY <3>1
    <3>3. job' \in [1..Len(job) -> JobRow]
      BY <2>2, <2>3, <3>2
    <3>. QED
      BY <1>4, <3>2, <3>3
  <2>5. \A j \in DOMAIN job : job'[j].listing = job[j].listing /\ (job[j].keyed => job'[j].keyed)
    <3>1. ASSUME NEW j \in DOMAIN job
          PROVE  job'[j].listing = job[j].listing /\ (job[j].keyed => job'[j].keyed)
      <4>1. CASE j = i
        <5>1. job'[j] = stored
          BY <2>1, <2>3, <4>1
        <5>. QED
          BY <2>2, <4>1, <5>1
      <4>2. CASE j # i
        BY <2>3, <4>2
      <4>. QED
        BY <4>1, <4>2
    <3>. QED
      BY <3>1
  <2>6. RowsApart' /\ TableGrows(job, job')
    BY <2>4, <2>5 DEF FeedInv, RowsApart, TableGrows
  <2>. QED
    BY <1>1, <1>3, <2>4, <2>6, LaneStep
<1>6. CASE l.row = 0 /\ \E i \in DOMAIN job : job[i].listing = l.listing /\ job[i].keyed
  <2>1. job' = job
    BY <1>6 DEF Feed!Store
  <2>2. job' \in Seq(JobRow) /\ RowsApart' /\ TableGrows(job, job')
    BY <2>1 DEF FeedInv, FeedTypes, RowsApart, TableGrows
  <2>. QED
    BY <1>1, <1>3, <2>1, <2>2, LaneStep
<1>7. CASE l.row = 0 /\ ~\E i \in DOMAIN job : job[i].listing = l.listing /\ job[i].keyed
  <2>1. /\ Feed!Row(l.listing, TRUE) \in JobRow /\ Feed!Row(l.listing, TRUE).listing = l.listing
        /\ Feed!Row(l.listing, TRUE).keyed
    BY <1>2 DEF FeedInv, FeedTypes, Feed!Row, JobRow
  <2>2. job' = Append(job, Feed!Row(l.listing, TRUE))
    BY <1>7 DEF Feed!Store
  <2>3. \A j \in DOMAIN job : job[j].listing # l.listing
    <3>1. ASSUME NEW j \in DOMAIN job, job[j].listing = l.listing
          PROVE  job[j].keyed
      BY <1>1, <1>2, <1>7, <3>1 DEF Finding
    <3>. QED
      BY <1>7, <3>1
  <2>. QED
    BY <1>1, <1>3, <2>1, <2>2, <2>3, NewRow
<1>. QED
  BY <1>5, <1>6, <1>7

LEMMA SameCounting ==
  ASSUME NEW S
  PROVE  Feed!Cardinality(S) = Cardinality(S)
  BY DEF Feed!Cardinality, Cardinality

(* An alert goes out: to a seeker who is told of what is news by the profile *)
(* that was read, which is the profile as it is.                             *)
LEMMA AlertStep ==
  ASSUME FeedInv, NEW r \in Feed!Refreshes, NEW s \in Seekers,
         NEW best \in SUBSET DOMAIN job, NEW delivered \in BOOLEAN,
         Feed!Alert(r, s, best, delivered)
  PROVE  FeedInv'
<1>. r \in Feed!Runs
  BY PlaybookIsNoRefresh
<1>1. /\ FeedTypes /\ run[r] \in Pass /\ PassOK(r, run[r])
      /\ run[r].phase = "alerts" /\ run[r].sent = None /\ s \in run[r].left
      /\ UNCHANGED <<job, clock, hour, lane, known, excused, deaths>>
  BY DEF FeedInv, FeedTypes, PassesOK, Feed!Alert
<1>2. CASE ~delivered
  BY <1>1, <1>2, GoPast DEF Feed!Alert
<1>3. CASE delivered
  <2>. PICK sent : sent = [seeker |-> s, jobs |-> best]
    OBVIOUS
  <2>. PICK new : new = [run[r] EXCEPT !.sent = sent]
    OBVIOUS
  <2>. DEFINE count(l) == Feed!Cardinality({i \in best : job[i].listing = l})
  <2>1. sent \in Message /\ sent # None /\ sent.seeker = s /\ sent.jobs = best
    BY JobsAreNumbers, <1>1 DEF Message
  <2>2. /\ new \in Pass /\ new.phase = "alerts" /\ new.sent = sent
        /\ new.left = run[r].left /\ new.state = run[r].state
    BY <1>1, <2>1 DEF Pass
  <2>3. run' = [run EXCEPT ![r] = new]
    BY <1>1, <1>3 DEF Feed!Alert
  <2>4. heard' = [heard EXCEPT ![s] = [l \in Listings |-> heard[s][l] + count(l)]]
    BY <1>3 DEF Feed!Alert
  <2>5. ASSUME NEW l \in Listings
        PROVE  /\ count(l) \in Nat /\ count(l) <= 1
               /\ count(l) >= 1 => \E i \in best : job[i].listing = l
    <3>. DEFINE about == {i \in best : job[i].listing = l}
    <3>1. count(l) = Cardinality(about)
      BY SameCounting
    <3>. HIDE DEF count
    <3>2. CASE about = {}
      <4>1. Cardinality(about) = 0
        BY <3>2, FS_EmptySet
      <4>. QED
        BY <3>1, <4>1
    <3>3. CASE about # {}
      <4>1. PICK i \in about : TRUE
        BY <3>3
      <4>2. i \in best /\ job[i].listing = l
        BY <4>1
      <4>3. about = {i}
        BY <4>2 DEF FeedInv, RowsApart
      <4>4. Cardinality(about) = 1
        BY <4>3, FS_Singleton
      <4>. QED
        BY <3>1, <4>2, <4>4
    <3>. QED
      BY <3>2, <3>3
  <2>. HIDE DEF count
  <2>6. FeedTypes'
    <3>1. heard' \in [Seekers -> [Listings -> Nat]]
      <4>1. heard \in [Seekers -> [Listings -> Nat]]
        BY <1>1 DEF FeedTypes
      <4>2. [l \in Listings |-> heard[s][l] + count(l)] \in [Listings -> Nat]
        BY <2>5, <4>1
      <4>. QED
        BY <2>4, <4>1, <4>2
    <3>2. run' \in [Feed!Runs -> Pass]
      BY <1>1, <2>2, <2>3 DEF FeedTypes
    <3>. QED
      BY <1>1, <3>1, <3>2 DEF FeedTypes
  <2>7. run'[r] = new /\ \A q \in Feed!Runs : q # r => run'[q] = run[q]
    BY <1>1, <2>3 DEF FeedTypes
  <2>h. /\ \A t \in Seekers : t # s => heard'[t] = heard[t]
        /\ \A l \in Listings : heard'[s][l] = heard[s][l] + count(l)
        /\ \A t \in Seekers, l \in Listings : heard[t][l] \in Nat
    BY <1>1, <2>4 DEF FeedTypes
  <2>8. RowsApart' /\ Findings'
    BY <1>1 DEF FeedInv, RowsApart, Findings
  <2>9. PassesOK'
    <3>1. PassOK(r, new)
      BY <1>1, <2>1, <2>2 DEF PassOK
    <3>2. \A q \in Feed!Runs : PassOK(q, run'[q])
      BY <2>7, <3>1 DEF FeedInv, PassesOK
    <3>. QED
      BY <3>2 DEF PassesOK
  <2>10. ASSUME NEW t \in Seekers, NEW l \in Listings, heard'[t][l] >= 1
         PROVE  heard[t][l] >= 1 \/ (t = s /\ \E i \in best : job[i].listing = l)
    BY <2>5, <2>h, <2>10
  <2>11. HeardIsListed'
    BY <1>1, <2>10 DEF FeedInv, HeardIsListed
  <2>12. ASSUME ~excused
         PROVE  /\ OnePass' /\ (\A q \in Feed!Runs : ByProfile(run[q]))'
                /\ HeardIsNoted' /\ Feed!AlertedOnce'
    <3>1. OnePass /\ (\A q \in Feed!Runs : ByProfile(run[q])) /\ HeardIsNoted /\ Feed!AlertedOnce
      BY <2>12 DEF FeedInv, Alerting
    <3>2. OnePass'
      BY <1>1, <2>2, <2>7, <3>1 DEF OnePass
    <3>3. \A q \in Feed!Runs : ByProfile(run[q])'
      <4>1. \A q \in Feed!Runs : run'[q].phase = run[q].phase /\ run'[q].left = run[q].left
                                 /\ run'[q].state = run[q].state
        BY <1>1, <2>2, <2>7
      <4>. QED
        BY <1>1, <3>1, <4>1 DEF ByProfile
    <3>4. \A t \in Seekers : \A i : Noted(t, i) => Noted(t, i)'
      BY <1>1, <2>7 DEF Noted
    <3>5. ASSUME NEW i \in best
          PROVE  Noted(s, i)'
      <4>1. run'[r].sent # None /\ run'[r].sent.seeker = s /\ i \in run'[r].sent.jobs
        BY <2>1, <2>2, <2>7
      <4>. QED
        BY <4>1 DEF Noted
    <3>6. ASSUME NEW t \in Seekers, NEW i \in DOMAIN job, heard'[t][job[i].listing] >= 1
          PROVE  Noted(t, i)'
      <4>1. job[i].listing \in Listings
        BY <1>1, JobsAreNumbers DEF JobRow
      <4>2. CASE heard[t][job[i].listing] >= 1
        BY <3>1, <3>4, <4>2 DEF HeardIsNoted
      <4>3. CASE t = s /\ \E j \in best : job[j].listing = job[i].listing
        BY <3>5, <4>3 DEF FeedInv, RowsApart
      <4>. QED
        BY <2>10, <3>6, <4>1, <4>2, <4>3
    <3>7. HeardIsNoted'
      BY <1>1, <3>6 DEF HeardIsNoted
    <3>8. ASSUME NEW i \in best
          PROVE  heard[s][job[i].listing] = 0
      <4>1. job[i].listing \in Listings /\ i \in DOMAIN job
        BY <1>1, JobsAreNumbers DEF JobRow
      <4>2. i \notin run[r].state[s].told
        BY DEF Feed!Alert, Feed!News
      <4>3. i \notin known[s].told
        BY <1>1, <3>1, <4>2 DEF ByProfile
      <4>4. ~Noted(s, i)
        <5>1. ASSUME NEW q \in Feed!Runs, run[q].sent # None
              PROVE  FALSE
          <6>1. run[q].phase = "alerts"
            BY <5>1 DEF FeedInv, PassesOK, PassOK
          <6>. QED
            BY <1>1, <3>1, <5>1, <6>1 DEF OnePass
        <5>. QED
          BY <4>3, <5>1 DEF Noted
      <4>5. ~(heard[s][job[i].listing] >= 1)
        BY <3>1, <4>1, <4>4 DEF HeardIsNoted
      <4>. QED
        BY <2>h, <4>1, <4>5
    <3>9. ASSUME NEW t \in Seekers, NEW l \in Listings
          PROVE  heard'[t][l] <= 1
      <4>1. heard[t][l] <= 1
        BY <2>12, <3>1 DEF Feed!AlertedOnce
      <4>2. CASE t = s /\ \E i \in best : job[i].listing = l
        BY <2>5, <2>h, <3>8, <4>2
      <4>3. CASE ~(t = s /\ \E i \in best : job[i].listing = l)
        <5>1. heard[t][l] \in Nat /\ heard'[t][l] \in Nat
          BY <1>1, <2>6, <2>h DEF FeedTypes
        <5>. QED
          BY <2>5, <2>h, <2>10, <4>1, <4>3, <5>1
      <4>. QED
        BY <4>2, <4>3
    <3>. QED
      BY <3>2, <3>3, <3>7, <3>9 DEF Feed!AlertedOnce
  <2>. QED
    BY <1>1, <2>6, <2>8, <2>9, <2>11, <2>12 DEF FeedInv, Alerting
<1>. QED
  BY <1>2, <1>3

(* The note that an alert is out.                                            *)
LEMMA RememberStep ==
  ASSUME FeedInv, NEW r \in Feed!Refreshes, Feed!Remember(r)
  PROVE  FeedInv'
<1>. r \in Feed!Runs
  BY PlaybookIsNoRefresh
<1>. PICK sent : sent = run[r].sent
  OBVIOUS
<1>1. /\ FeedTypes /\ run[r] \in Pass /\ PassOK(r, run[r]) /\ sent # None
      /\ UNCHANGED <<job, clock, hour, lane, heard, excused, deaths>>
  BY DEF FeedInv, FeedTypes, PassesOK, Feed!Remember
<1>. PICK s : s = sent.seeker
  OBVIOUS
<1>2. /\ s \in Seekers /\ sent.jobs \in SUBSET Nat /\ run[r].phase = "alerts"
      /\ run[r].state \in Profiles /\ s \in run[r].left
  BY <1>1 DEF Pass, Message, PassOK
<1>. PICK profile : profile = [told |-> run[r].state[s].told \cup sent.jobs, last |-> hour]
  OBVIOUS
<1>. PICK new : new = [run[r] EXCEPT !.sent = None, !.left = @ \ {s}]
  OBVIOUS
<1>3. /\ profile \in [told : SUBSET Nat, last : Nat \cup {None}]
      /\ profile.told = run[r].state[s].told \cup sent.jobs
  BY <1>1, <1>2 DEF FeedTypes, Profiles
<1>4. /\ new \in Pass /\ new.phase = "alerts" /\ new.sent = None
      /\ new.left = run[r].left \ {s} /\ new.state = run[r].state
  BY <1>1, <1>2 DEF Pass
<1>5. run' = [run EXCEPT ![r] = new] /\ known' = [known EXCEPT ![s] = profile]
  BY <1>1 DEF Feed!Remember
<1>6. FeedTypes'
  <2>1. run' \in [Feed!Runs -> Pass]
    BY <1>1, <1>4, <1>5 DEF FeedTypes
  <2>2. known' \in Profiles
    BY <1>1, <1>3, <1>5 DEF FeedTypes, Profiles
  <2>. QED
    BY <1>1, <2>1, <2>2 DEF FeedTypes
<1>7. /\ run'[r] = new /\ \A q \in Feed!Runs : q # r => run'[q] = run[q]
      /\ known'[s] = profile /\ \A t \in Seekers : t # s => known'[t] = known[t]
  BY <1>1, <1>2, <1>5 DEF FeedTypes, Profiles
<1>8. RowsApart' /\ Findings' /\ HeardIsListed'
  BY <1>1 DEF FeedInv, RowsApart, Findings, HeardIsListed
<1>9. PassesOK'
  <2>1. PassOK(r, new)
    BY <1>1, <1>4 DEF PassOK
  <2>2. \A q \in Feed!Runs : PassOK(q, run'[q])
    BY <1>7, <2>1 DEF FeedInv, PassesOK
  <2>. QED
    BY <2>2 DEF PassesOK
<1>10. ASSUME ~excused
       PROVE  /\ OnePass' /\ (\A q \in Feed!Runs : ByProfile(run[q]))'
              /\ HeardIsNoted' /\ Feed!AlertedOnce'
  <2>1. OnePass /\ (\A q \in Feed!Runs : ByProfile(run[q])) /\ HeardIsNoted /\ Feed!AlertedOnce
    BY <1>10 DEF FeedInv, Alerting
  <2>2. OnePass'
    <3>1. \A q \in Feed!Runs : run'[q].phase = run[q].phase
      BY <1>2, <1>4, <1>7
    <3>. QED
      BY <2>1, <3>1 DEF OnePass
  <2>3. ASSUME NEW q \in Feed!Runs
        PROVE  ByProfile(run[q])'
    <3>1. CASE q = r
      <4>1. \A t \in new.left : t \in Seekers /\ t # s /\ run[r].state[t] = known[t]
        <5>1. run[r].left \subseteq Seekers
          BY <1>1 DEF Pass
        <5>. QED
          BY <1>2, <1>4, <2>1, <5>1 DEF ByProfile
      <4>. QED
        <5>1. ASSUME NEW t \in run'[r].left
              PROVE  run'[r].state[t] = known'[t]
          <6>1. run'[r] = new /\ new.state = run[r].state
            BY <1>4, <1>7
          <6>2. known'[t] = known[t]
            BY <1>7, <4>1, <6>1
          <6>. QED
            BY <4>1, <6>1, <6>2
        <5>. QED
          BY <3>1, <5>1 DEF ByProfile
    <3>2. CASE q # r
      <4>1. run[q].phase # "alerts"
        BY <1>2, <2>1, <3>2 DEF OnePass
      <4>. QED
        BY <1>7, <3>2, <4>1 DEF ByProfile
    <3>. QED
      BY <3>1, <3>2
  <2>4. run[r].state[s] = known[s]
    BY <1>2, <2>1 DEF ByProfile
  <2>5. ASSUME NEW t \in Seekers, NEW i, Noted(t, i)
        PROVE  Noted(t, i)'
    <3>1. CASE t = s
      <4>1. CASE i \in known[s].told \/ i \in sent.jobs
        BY <1>3, <1>7, <2>4, <3>1, <4>1 DEF Noted
      <4>2. CASE i \notin known[s].told /\ i \notin sent.jobs
        BY <1>7, <2>5, <3>1, <4>2 DEF Noted
      <4>. QED
        BY <4>1, <4>2
    <3>2. CASE t # s
      BY <1>7, <2>5, <3>2 DEF Noted
    <3>. QED
      BY <3>1, <3>2
  <2>6. HeardIsNoted'
    BY <1>1, <2>1, <2>5 DEF HeardIsNoted
  <2>7. Feed!AlertedOnce'
    BY <1>1, <2>1 DEF Feed!AlertedOnce
  <2>. QED
    BY <2>2, <2>3, <2>6, <2>7
<1>. QED
  BY <1>1, <1>6, <1>8, <1>9, <1>10 DEF FeedInv, Alerting

LEMMA TimeStep ==
  ASSUME FeedInv, Feed!HoursPass \/ Feed!MonthPasses
  PROVE  FeedInv'
<1>1. /\ FeedTypes /\ hour' \in Nat
      /\ UNCHANGED <<clock, run, lane, known, heard, excused, deaths>>
  BY DEF FeedInv, FeedTypes, Feed!HoursPass, Feed!MonthPasses
<1>2. job' \in Seq(JobRow) /\ TableGrows(job, job') /\ DOMAIN job' = DOMAIN job
  <2>1. CASE Feed!HoursPass
    BY <1>1, <2>1 DEF Feed!HoursPass, FeedTypes, TableGrows
  <2>2. CASE Feed!MonthPasses
    BY <1>1, <2>2, Aged DEF Feed!MonthPasses
  <2>. QED
    BY <2>1, <2>2
<1>3. FeedTypes'
  BY <1>1, <1>2 DEF FeedTypes
<1>4. RowsApart'
  BY <1>2 DEF FeedInv, RowsApart, TableGrows
<1>. QED
  BY <1>1, <1>2, <1>3, <1>4, TableStep

LEMMA FeedStep ==
  ASSUME FeedInv, Feed!Next \/ UNCHANGED feedVars
  PROVE  FeedInv'
<1>1. CASE UNCHANGED feedVars
  <2>1. UNCHANGED <<job, clock, hour, run, lane, known, heard, excused>>
    BY <1>1 DEF feedVars
  <2>2. FeedTypes' /\ RowsApart' /\ TableGrows(job, job')
    BY <2>1 DEF FeedInv, FeedTypes, RowsApart, TableGrows
  <2>. QED
    BY <2>1, <2>2, TableStep
<1>2. ASSUME NEW r \in Feed!Refreshes,
             Feed!Start(r) \/ Feed!BeginAlerts(r) \/ Feed!Remember(r) \/ Feed!EndRefresh(r)
      PROVE  FeedInv'
  BY <1>2, PlaybookIsNoRefresh, StartStep, BeginAlertsStep, RememberStep, EndStep
<1>3. CASE (\E s \in Seekers : Feed!StartPlaybook(s)) \/ Feed!EndPlaybook
  BY <1>3, PlaybookSteps
<1>4. ASSUME NEW r \in Feed!Runs, NEW s \in Twins,
             \/ \E l \in Listings \cup {None} : Feed!Answer(r, s, l)
             \/ \E keyed \in BOOLEAN : Feed!Find(r, s, keyed)
             \/ Feed!Store(r, s)
      PROVE  FeedInv'
  BY <1>4, AnswerStep, FindStep, StoreStep
<1>5. ASSUME NEW r \in Feed!Refreshes, NEW s \in Seekers, Feed!Skip(r, s)
      PROVE  FeedInv'
  BY <1>5, GoPast DEF Feed!Skip
<1>6. ASSUME NEW r \in Feed!Refreshes, NEW s \in Seekers, NEW best \in SUBSET DOMAIN job,
             NEW delivered \in BOOLEAN, Feed!Alert(r, s, best, delivered)
      PROVE  FeedInv'
  BY <1>6, AlertStep
<1>7. ASSUME NEW r \in Feed!Runs, Feed!Die(r)
      PROVE  FeedInv'
  BY <1>7, EndStep
<1>8. CASE Feed!HoursPass \/ Feed!MonthPasses
  BY <1>8, TimeStep
<1>. QED
  BY <1>1, <1>2, <1>3, <1>4, <1>5, <1>6, <1>7, <1>8 DEF Feed!Next

LEMMA FeedInitially ==
  ASSUME Feed!Init
  PROVE  FeedInv
<1>1. /\ clock = 0 /\ hour = 0 /\ excused = FALSE
      /\ known = [s \in Seekers |-> Feed!NoAlerts]
      /\ heard = [s \in Seekers |-> [l \in Listings |-> 0]]
  BY DEF Feed!Init
<1>2. job \in Seq(JobRow) /\ \A i, j \in DOMAIN job : i = j
  <2>1. CASE job = <<>>
    BY <2>1
  <2>2. ASSUME NEW l \in Listings, NEW keyed \in BOOLEAN, job = <<Feed!Row(l, keyed)>>
        PROVE  job \in Seq(JobRow) /\ \A i, j \in DOMAIN job : i = j
    <3>. PICK first : first = Feed!Row(l, keyed)
      OBVIOUS
    <3>1. first \in JobRow
      BY <1>1 DEF Feed!Row, JobRow
    <3>. QED
      BY <2>2, <3>1
  <2>. QED
    BY <2>1, <2>2 DEF Feed!Init
<1>3. /\ run \in [Feed!Runs -> Pass]
      /\ \A r \in Feed!Runs : run[r].phase = "idle" /\ run[r].sent = None
  <2>. PICK idle : idle = Feed!Idle
    OBVIOUS
  <2>1. run = [r \in Feed!Runs |-> idle]
    BY DEF Feed!Init
  <2>. QED
    BY <2>1, IdleIsPass
<1>4. /\ lane \in [Feed!Runs -> [Twins -> Lane]]
      /\ \A r \in Feed!Runs, s \in Twins : lane[r][s].step = "done"
  <2>. PICK none : none = Feed!NoLane
    OBVIOUS
  <2>1. lane = [r \in Feed!Runs |-> [s \in Twins |-> none]]
    BY DEF Feed!Init
  <2>2. none \in Lane /\ none.step = "done"
    BY NoLaneIsLane DEF Feed!NoLane
  <2>. QED
    BY <2>1, <2>2
<1>5. known \in Profiles
  <2>1. Feed!NoAlerts \in [told : SUBSET Nat, last : Nat \cup {None}]
    BY DEF Feed!NoAlerts
  <2>. QED
    BY <1>1, <2>1 DEF Profiles
<1>6. FeedTypes
  BY <1>1, <1>2, <1>3, <1>4, <1>5 DEF FeedTypes
<1>7. RowsApart /\ Findings /\ PassesOK
  BY <1>2, <1>3, <1>4 DEF RowsApart, Findings, Finding, PassesOK, PassOK
<1>8. \A s \in Seekers, l \in Listings : heard[s][l] = 0
  BY <1>1
<1>9. \A i \in DOMAIN job : job[i].listing \in Listings
  BY <1>6, JobsAreNumbers DEF JobRow
<1>10. HeardIsListed /\ HeardIsNoted /\ Feed!AlertedOnce
  BY <1>8, <1>9 DEF HeardIsListed, HeardIsNoted, Feed!AlertedOnce
<1>11. Alerting
  BY <1>3, <1>10 DEF Alerting, OnePass, ByProfile
<1>. QED
  BY <1>6, <1>7, <1>10, <1>11 DEF FeedInv

-----------------------------------------------------------------------------
(* The inbox.                                                                *)
Entry == [incoming : BOOLEAN, at : Nat, sent : BOOLEAN]

Sending == [step : {"idle", "uploads", "calls", "records", "again"}, since : Nat,
            ok : BOOLEAN, queued : BOOLEAN]

InboxTypes ==
  /\ thread \in Seq(Entry)
  /\ unread \in Nat /\ now \in Nat /\ late \in BOOLEAN
  /\ sender \in [Senders -> Sending]
  /\ viewer \in [step : {"idle", "clears"}, page : SUBSET Nat]
  /\ seen \subseteq DOMAIN thread /\ viewer.page \subseteq DOMAIN thread

(* A page that is about to clear the counter shows all that came in, if      *)
(* everything is on one page and nothing came in since.                      *)
PageCovers ==
  viewer.step = "clears" /\ Len(thread) <= PageSize /\ ~late => Chat!Incoming \subseteq viewer.page

(* Whatever is on its way to Instagram was allowed when it set out.          *)
AllowedAt(sending) ==
  /\ sending.since <= now
  /\ channel = "instagram" /\ sending.step \in {"uploads", "calls"} /\ sending.since = now =>
       Chat!InWindow

(* One of the messages that came in is the last of them.                     *)
LastOne == Chat!Incoming # {} => \E i \in Chat!Incoming : \A j \in Chat!Incoming : i >= j

InboxInv ==
  /\ InboxTypes
  /\ LastOne
  /\ Chat!UnreadCounts
  /\ PageCovers
  /\ \A s \in Senders : AllowedAt(sender[s])

LEMMA ThreadIsNumbered ==
  ASSUME InboxTypes
  PROVE  /\ Len(thread) \in Nat /\ DOMAIN thread = 1..Len(thread)
         /\ IsFiniteSet(DOMAIN thread)
<1>1. Len(thread) \in Nat /\ DOMAIN thread = 1..Len(thread)
  BY DEF InboxTypes
<1>. QED
  BY <1>1, FS_Interval

LEMMA CountsAgree ==
  ASSUME NEW S
  PROVE  Chat!Cardinality(S) = Cardinality(S)
  BY DEF Chat!Cardinality, Cardinality

(* Sending leaves what came in, and who has seen it, alone.                  *)
LEMMA SenderStep ==
  ASSUME InboxInv, NEW s \in Senders, NEW new \in Sending,
         sender' = [sender EXCEPT ![s] = new],
         UNCHANGED <<channel, thread, unread, viewer, seen, late, now>>,
         AllowedAt(new)
  PROVE  InboxInv'
<1>1. InboxTypes'
  BY DEF InboxInv, InboxTypes
<1>2. Chat!UnreadCounts' /\ PageCovers' /\ LastOne'
  BY DEF InboxInv, Chat!UnreadCounts, PageCovers, LastOne, Chat!Incoming
<1>3. Chat!InWindow' <=> Chat!InWindow
  BY DEF Chat!InWindow, Chat!Incoming
<1>4. ASSUME NEW q \in Senders
      PROVE  AllowedAt(sender[q])'
  <2>1. sender'[q] = new \/ sender'[q] = sender[q]
    BY DEF InboxInv, InboxTypes
  <2>. QED
    BY <1>3, <2>1 DEF InboxInv, AllowedAt
<1>. QED
  BY <1>1, <1>2, <1>4 DEF InboxInv

LEMMA SendingSteps ==
  ASSUME InboxInv, NEW s \in Senders,
         \/ \E kind \in Chat!Kinds, queued \in BOOLEAN : Chat!Begin(s, kind, queued)
         \/ \E ok \in BOOLEAN : Chat!Upload(s, ok) \/ Chat!Call(s, ok)
         \/ Chat!Die(s) \/ Chat!Retry(s)
  PROVE  InboxInv'
<1>1. /\ InboxTypes /\ sender[s] \in Sending /\ AllowedAt(sender[s]) /\ now \in Nat
  BY DEF InboxInv, InboxTypes
<1>. PICK none : none = Chat!NoSend
  OBVIOUS
<1>2. none \in Sending /\ AllowedAt(none)
  BY <1>1 DEF Chat!NoSend, Sending, AllowedAt
<1>3. ASSUME NEW kind \in Chat!Kinds, NEW queued \in BOOLEAN, Chat!Begin(s, kind, queued)
      PROVE  InboxInv'
  <2>. PICK new : new = [step |-> Chat!FirstStep(kind), since |-> now, ok |-> kind = "recorded",
                         queued |-> queued]
    OBVIOUS
  <2>1. Chat!FirstStep(kind) \in {"uploads", "records", "calls"}
    BY DEF Chat!FirstStep
  <2>2. new \in Sending
    BY <1>1, <2>1 DEF Sending
  <2>3. AllowedAt(new)
    <3>1. CASE kind = "recorded"
      BY <1>1, <3>1 DEF Chat!FirstStep, AllowedAt
    <3>2. CASE kind # "recorded"
      BY <1>1, <1>3, <3>2 DEF Chat!Begin, Chat!Allowed, AllowedAt
    <3>. QED
      BY <3>1, <3>2
  <2>. QED
    BY <1>3, <2>2, <2>3, SenderStep DEF Chat!Begin
<1>4. ASSUME NEW ok \in BOOLEAN, Chat!Upload(s, ok)
      PROVE  InboxInv'
  <2>. PICK new : new = IF ok THEN [sender[s] EXCEPT !.step = "calls"] ELSE none
    OBVIOUS
  <2>1. new \in Sending /\ AllowedAt(new)
    BY <1>1, <1>2, <1>4 DEF Sending, AllowedAt, Chat!Upload
  <2>2. sender' = [sender EXCEPT ![s] = new]
    BY <1>4 DEF Chat!Upload
  <2>. QED
    BY <1>4, <2>1, <2>2, SenderStep DEF Chat!Upload
<1>5. ASSUME NEW ok \in BOOLEAN, Chat!Call(s, ok)
      PROVE  InboxInv'
  <2>. PICK new : new = [sender[s] EXCEPT !.step = "records", !.ok = ok]
    OBVIOUS
  <2>1. new \in Sending /\ AllowedAt(new)
    BY <1>1 DEF Sending, AllowedAt
  <2>2. sender' = [sender EXCEPT ![s] = new]
    BY <1>1, <1>5 DEF Chat!Call, InboxTypes
  <2>. QED
    BY <1>5, <2>1, <2>2, SenderStep DEF Chat!Call
<1>6. CASE Chat!Die(s)
  <2>. PICK new : new = IF sender[s].queued THEN [sender[s] EXCEPT !.step = "again"] ELSE none
    OBVIOUS
  <2>1. new \in Sending /\ AllowedAt(new)
    BY <1>1, <1>2 DEF Sending, AllowedAt
  <2>2. sender' = [sender EXCEPT ![s] = new]
    BY <1>6 DEF Chat!Die
  <2>. QED
    BY <1>6, <2>1, <2>2, SenderStep DEF Chat!Die
<1>7. CASE Chat!Retry(s)
  <2>. PICK new : new = IF Chat!Allowed("text")
                        THEN [sender[s] EXCEPT !.step = "calls", !.since = now] ELSE none
    OBVIOUS
  <2>1. new \in Sending
    BY <1>1, <1>2 DEF Sending
  <2>2. AllowedAt(new)
    BY <1>1, <1>2 DEF Sending, AllowedAt, Chat!Allowed
  <2>3. sender' = [sender EXCEPT ![s] = new]
    BY <1>7 DEF Chat!Retry
  <2>. QED
    BY <1>7, <2>1, <2>2, <2>3, SenderStep DEF Chat!Retry
<1>. QED
  BY <1>3, <1>4, <1>5, <1>6, <1>7

(* A message that came in is the last one to have come in.                   *)
LEMMA LastIn ==
  ASSUME InboxInv, Chat!Store
  PROVE  /\ thread' \in Seq(Entry) /\ Len(thread') = Len(thread) + 1
         /\ DOMAIN thread' = 1..(Len(thread) + 1)
         /\ Chat!Incoming' = Chat!Incoming \cup {Len(thread) + 1}
         /\ Chat!Max(Chat!Incoming') = Len(thread) + 1
         /\ thread'[Len(thread) + 1].at = now
<1>1. /\ Len(thread) \in Nat /\ DOMAIN thread = 1..Len(thread) /\ thread \in Seq(Entry)
      /\ now \in Nat
  BY ThreadIsNumbered DEF InboxInv, InboxTypes
<1>. PICK new : new = [incoming |-> TRUE, at |-> now, sent |-> TRUE]
  OBVIOUS
<1>2. new \in Entry /\ new.incoming /\ new.at = now
  BY <1>1 DEF Entry
<1>3. thread' = Append(thread, new)
  BY DEF Chat!Store
<1>4. /\ thread' \in Seq(Entry) /\ Len(thread') = Len(thread) + 1
      /\ thread'[Len(thread) + 1] = new /\ \A i \in 1..Len(thread) : thread'[i] = thread[i]
  BY <1>1, <1>2, <1>3, AppendProperties
<1>5. DOMAIN thread' = 1..(Len(thread) + 1)
  BY <1>1, <1>4
<1>6. Chat!Incoming' = Chat!Incoming \cup {Len(thread) + 1}
  BY <1>1, <1>2, <1>4, <1>5 DEF Chat!Incoming
<1>7. Chat!Max(Chat!Incoming') = Len(thread) + 1
  <2>. PICK last : last = Len(thread) + 1
    OBVIOUS
  <2>1. /\ last \in Chat!Incoming' /\ last \in Int
        /\ \A i \in Chat!Incoming' : i \in Int /\ i <= last
    BY <1>1, <1>6 DEF Chat!Incoming
  <2>2. \A i \in Chat!Incoming' : (\A j \in Chat!Incoming' : i >= j) <=> i = last
    BY <2>1
  <2>. QED
    BY <2>1, <2>2 DEF Chat!Max
<1>. QED
  BY <1>2, <1>4, <1>5, <1>6, <1>7

LEMMA ComesIn ==
  ASSUME InboxInv, Chat!Store
  PROVE  InboxInv'
<1>1. /\ InboxTypes /\ Len(thread) \in Nat /\ DOMAIN thread = 1..Len(thread)
      /\ IsFiniteSet(DOMAIN thread) /\ now \in Nat /\ late \in BOOLEAN
      /\ PageSize \in Nat /\ Careful \in Nat \ {0}
  BY ThreadIsNumbered DEF InboxInv, InboxTypes
<1>2. /\ unread' = unread + 1 /\ late' = (late \/ viewer.step = "clears")
      /\ UNCHANGED <<channel, connected, sender, viewer, seen, now, cuts>>
  BY DEF Chat!Store
<1>3. InboxTypes'
  BY <1>1, <1>2, LastIn DEF InboxTypes
<1>4. Chat!UnreadCounts'
  <2>. DEFINE Waiting == Chat!Incoming \ seen
  <2>1. IsFiniteSet(Waiting) /\ Len(thread) + 1 \notin Waiting
    BY <1>1, FS_Subset DEF Chat!Incoming
  <2>2. Cardinality(Waiting \cup {Len(thread) + 1}) = Cardinality(Waiting) + 1
    BY <2>1, FS_AddElement
  <2>3. Chat!Incoming' \ seen' = Waiting \cup {Len(thread) + 1}
    <3>1. Len(thread) + 1 \notin seen
      BY <1>1 DEF InboxTypes
    <3>. QED
      BY <1>2, <3>1, LastIn
  <2>4. ASSUME Len(thread') <= PageSize, ~late'
        PROVE  unread' = Chat!Cardinality(Chat!Incoming' \ seen')
    <3>1. Len(thread) <= PageSize /\ ~late
      <4>1. Len(thread') = Len(thread) + 1
        BY LastIn
      <4>2. late' = (late \/ viewer.step = "clears")
        BY <1>2
      <4>. QED
        BY <1>1, <2>4, <4>1, <4>2
    <3>2. unread = Cardinality(Waiting)
      BY <3>1, CountsAgree DEF InboxInv, Chat!UnreadCounts
    <3>. QED
      BY <1>2, <2>2, <2>3, <3>2, CountsAgree
  <2>. QED
    BY <2>4 DEF Chat!UnreadCounts
<1>5. PageCovers'
  BY <1>2 DEF PageCovers
<1>6. Chat!InWindow'
  <2>1. Chat!Incoming' # {} /\ now' - thread'[Chat!Max(Chat!Incoming')].at < Careful
    <3>1. thread'[Chat!Max(Chat!Incoming')].at = now /\ now' = now /\ Chat!Incoming' # {}
      BY <1>2, LastIn
    <3>. QED
      BY <1>1, <3>1
  <2>. QED
    BY <2>1 DEF Chat!InWindow
<1>7. \A s \in Senders : AllowedAt(sender[s])'
  BY <1>2, <1>6 DEF InboxInv, AllowedAt
<1>8. LastOne'
  <2>1. \A j \in Chat!Incoming' : j \in Int /\ Len(thread) + 1 >= j
    BY <1>1, LastIn DEF Chat!Incoming
  <2>. QED
    BY <2>1, LastIn DEF LastOne
<1>. QED
  BY <1>3, <1>4, <1>5, <1>7, <1>8 DEF InboxInv

LEMMA IsRecorded ==
  ASSUME InboxInv, NEW s \in Senders, Chat!Record(s)
  PROVE  InboxInv'
<1>1. /\ InboxTypes /\ Len(thread) \in Nat /\ DOMAIN thread = 1..Len(thread)
      /\ thread \in Seq(Entry) /\ now \in Nat /\ sender[s] \in Sending
  BY ThreadIsNumbered DEF InboxInv, InboxTypes
<1>. PICK new : new = [incoming |-> FALSE, at |-> now, sent |-> sender[s].ok]
  OBVIOUS
<1>. PICK none : none = Chat!NoSend
  OBVIOUS
<1>2. new \in Entry /\ ~new.incoming /\ none \in Sending /\ AllowedAt(none)
  BY <1>1 DEF Entry, Chat!NoSend, Sending, AllowedAt
<1>3. /\ thread' = Append(thread, new) /\ sender' = [sender EXCEPT ![s] = none]
      /\ UNCHANGED <<channel, connected, unread, viewer, seen, late, now, cuts>>
  BY DEF Chat!Record
<1>4. /\ thread' \in Seq(Entry) /\ Len(thread') = Len(thread) + 1
      /\ thread'[Len(thread) + 1] = new /\ \A i \in 1..Len(thread) : thread'[i] = thread[i]
  BY <1>1, <1>2, <1>3, AppendProperties
<1>5. DOMAIN thread' = 1..(Len(thread) + 1)
  BY <1>1, <1>4
<1>6. Chat!Incoming' = Chat!Incoming
  BY <1>1, <1>2, <1>4, <1>5 DEF Chat!Incoming
<1>7. InboxTypes'
  BY <1>1, <1>2, <1>3, <1>4, <1>5 DEF InboxTypes
<1>8. Chat!UnreadCounts' /\ PageCovers' /\ LastOne'
  BY <1>1, <1>3, <1>4, <1>6 DEF InboxInv, Chat!UnreadCounts, PageCovers, LastOne
<1>9. Chat!InWindow' <=> Chat!InWindow
  <2>1. Chat!Incoming # {} => Chat!Max(Chat!Incoming) \in DOMAIN thread
    <3>1. Chat!Incoming # {} => Chat!Max(Chat!Incoming) \in Chat!Incoming
      BY DEF InboxInv, LastOne, Chat!Max
    <3>. QED
      BY <3>1 DEF Chat!Incoming
  <2>. QED
    BY <1>1, <1>3, <1>4, <1>6, <2>1 DEF Chat!InWindow
<1>10. ASSUME NEW q \in Senders
       PROVE  AllowedAt(sender[q])'
  <2>1. sender'[q] = none \/ sender'[q] = sender[q]
    BY <1>1, <1>3 DEF InboxTypes
  <2>. QED
    BY <1>2, <1>3, <1>9, <2>1 DEF InboxInv, AllowedAt
<1>. QED
  BY <1>7, <1>8, <1>10 DEF InboxInv

LEMMA IsOpened ==
  ASSUME InboxInv, (\E n \in 1..2 : Chat!View(n)) \/ Chat!Clear
  PROVE  InboxInv'
<1>1. /\ InboxTypes /\ Len(thread) \in Nat /\ DOMAIN thread = 1..Len(thread)
      /\ PageSize \in Nat
  BY ThreadIsNumbered DEF InboxInv
<1>2. UNCHANGED <<channel, thread, sender, late, now>>
  BY DEF Chat!View, Chat!Clear
<1>3. Chat!Incoming' = Chat!Incoming /\ (Chat!InWindow' <=> Chat!InWindow)
  BY <1>2 DEF Chat!Incoming, Chat!InWindow
<1>4. LastOne' /\ \A s \in Senders : AllowedAt(sender[s])'
  BY <1>2, <1>3 DEF InboxInv, AllowedAt, LastOne
<1>5. ASSUME NEW n \in 1..2, Chat!View(n)
      PROVE  InboxTypes' /\ Chat!UnreadCounts' /\ PageCovers'
  <2>. PICK shows : shows = Chat!Page(n)
    OBVIOUS
  <2>1. viewer' = [step |-> "clears", page |-> shows] /\ UNCHANGED <<unread, seen>>
    BY <1>5 DEF Chat!View
  <2>2. shows \subseteq DOMAIN thread /\ shows \in SUBSET Nat
    BY <1>1 DEF Chat!Page
  <2>3. Len(thread) <= PageSize => shows = DOMAIN thread
    <3>1. CASE n = 1
      BY <1>1, <3>1 DEF Chat!Page
    <3>2. CASE n = 2
      <4>1. PICK i : i \in shows
        BY <1>5, <3>2 DEF Chat!View
      <4>2. i \in 1..Len(thread) /\ PageSize * (2 - 1) < i
        BY <1>1, <3>2, <4>1 DEF Chat!Page
      <4>. QED
        BY <1>1, <4>2
    <3>. QED
      BY <3>1, <3>2
  <2>4. InboxTypes'
    BY <1>1, <1>2, <2>1, <2>2 DEF InboxTypes
  <2>5. PageCovers'
    BY <1>2, <1>3, <2>1, <2>3 DEF PageCovers, Chat!Incoming
  <2>6. Chat!UnreadCounts'
    BY <1>2, <1>3, <2>1 DEF InboxInv, Chat!UnreadCounts
  <2>. QED
    BY <2>4, <2>5, <2>6
<1>6. CASE Chat!Clear
  <2>1. /\ viewer.step = "clears" /\ unread' = 0 /\ seen' = seen \cup viewer.page
        /\ viewer' = [step |-> "idle", page |-> {}]
    BY <1>6 DEF Chat!Clear, Chat!NoView
  <2>2. InboxTypes'
    BY <1>1, <1>2, <2>1 DEF InboxTypes
  <2>3. PageCovers'
    BY <2>1 DEF PageCovers
  <2>4. ASSUME Len(thread) <= PageSize, ~late
        PROVE  Chat!Cardinality(Chat!Incoming \ seen') = 0
    <3>1. Chat!Incoming \ seen' = {}
      BY <2>1, <2>4 DEF InboxInv, PageCovers
    <3>. QED
      BY <3>1, CountsAgree, FS_EmptySet
  <2>5. Chat!UnreadCounts'
    <3>1. Chat!Incoming' \ seen' = Chat!Incoming \ seen'
      BY <1>3
    <3>2. Len(thread') = Len(thread) /\ late' = late
      BY <1>2
    <3>. QED
      BY <2>1, <2>4, <3>1, <3>2 DEF Chat!UnreadCounts
  <2>. QED
    BY <1>4, <2>2, <2>3, <2>5 DEF InboxInv
<1>. QED
  BY <1>4, <1>5, <1>6 DEF InboxInv

LEMMA InboxStep ==
  ASSUME InboxInv, Chat!Next \/ UNCHANGED inboxVars
  PROVE  InboxInv'
<1>1. CASE Chat!Connect \/ UNCHANGED inboxVars
  <2>1. UNCHANGED <<channel, thread, unread, sender, viewer, seen, late, now>>
    BY <1>1 DEF Chat!Connect, inboxVars
  <2>. QED
    BY <2>1 DEF InboxInv, InboxTypes, LastOne, Chat!UnreadCounts, PageCovers, AllowedAt, Chat!InWindow,
                Chat!Incoming
<1>2. CASE Chat!Pass
  <2>1. /\ UNCHANGED <<channel, thread, unread, sender, viewer, seen, late>>
        /\ now' = now + 1 /\ InboxTypes
    BY <1>2 DEF Chat!Pass, InboxInv
  <2>2. InboxTypes'
    BY <2>1 DEF InboxTypes
  <2>3. Chat!UnreadCounts' /\ PageCovers' /\ LastOne'
    BY <2>1 DEF InboxInv, Chat!UnreadCounts, PageCovers, LastOne, Chat!Incoming
  <2>4. ASSUME NEW s \in Senders
        PROVE  AllowedAt(sender[s])'
    <3>1. sender[s] \in Sending /\ sender[s].since <= now /\ now \in Nat
      BY <2>1 DEF InboxInv, InboxTypes, AllowedAt
    <3>2. sender[s].since \in Nat
      BY <3>1 DEF Sending
    <3>. QED
      BY <2>1, <3>1, <3>2 DEF AllowedAt
  <2>. QED
    BY <2>2, <2>3, <2>4 DEF InboxInv
<1>. QED
  BY <1>1, <1>2, ComesIn, IsRecorded, IsOpened, SendingSteps DEF Chat!Next

LEMMA InboxInitially ==
  ASSUME Chat!Init
  PROVE  InboxInv
<1>. PICK none : none = Chat!NoSend
  OBVIOUS
<1>1. none \in Sending /\ none.since = 0 /\ none.step = "idle"
  BY DEF Chat!NoSend, Sending
<1>2. /\ thread = <<>> /\ unread = 0 /\ sender = [s \in Senders |-> none] /\ seen = {}
      /\ viewer = [step |-> "idle", page |-> {}] /\ late = FALSE /\ now = 0
  BY DEF Chat!Init, Chat!NoView
<1>3. thread \in Seq(Entry) /\ DOMAIN thread = {}
  BY <1>2
<1>4. InboxTypes
  BY <1>1, <1>2, <1>3 DEF InboxTypes
<1>5. Chat!UnreadCounts
  <2>1. Chat!Incoming \ seen = {}
    BY <1>3 DEF Chat!Incoming
  <2>. QED
    BY <1>2, <2>1, CountsAgree, FS_EmptySet DEF Chat!UnreadCounts
<1>6. PageCovers /\ LastOne /\ \A s \in Senders : AllowedAt(sender[s])
  BY <1>1, <1>2, <1>3 DEF PageCovers, LastOne, Chat!Incoming, AllowedAt
<1>. QED
  BY <1>4, <1>5, <1>6 DEF InboxInv

-----------------------------------------------------------------------------
(* Reminders.                                                                *)
Ends == 1..(MaxDays + Period)

Noticed == Ends \cup {None}

Seller == [status : Remind!Listed \cup {"pending_verification"}, trialEnds : Ends,
           periodEnd : Noticed, expiringFor : Noticed, expiredFor : Noticed]

Notice == [seller : Sellers, kind : {"expiring", "expired"}, end : Ends]

ReminderTypes ==
  /\ today \in 0..MaxDays
  /\ bill \in [Sellers -> Seller]
  /\ sweep \in [read : [Sellers -> Seller] \cup {None}, left : SUBSET Sellers,
                notice : Notice \cup {None}]
  /\ due \in BOOLEAN
  /\ notices \in [Sellers -> [{"expiring", "expired"} -> [Ends -> Nat]]]
  /\ changed \subseteq Sellers /\ forgiven \subseteq Sellers /\ adjusted \subseteq Sellers

(* The end they were last told of.                                           *)
For(r, k) == IF k = "expiring" THEN r.expiringFor ELSE r.expiredFor

(* Paid periods do not end before the trial; nobody on a trial or a plan was *)
(* told that this one has ended.                                             *)
RowRight(r) ==
  /\ r.trialEnds <= today + Period
  /\ r.periodEnd # None => r.trialEnds <= r.periodEnd /\ r.periodEnd <= today + Period
  /\ r.status = "trial" => r.periodEnd = None /\ r.expiredFor # r.trialEnds
  /\ r.status \in {"active", "past_due"} => r.periodEnd # None /\ r.expiredFor # r.periodEnd

(* Nobody is told that their access has ended before it has.                 *)
EndedBefore(r) == r.expiredFor # None => r.expiredFor <= today

RowsRight ==
  /\ \A s \in Sellers : EndedBefore(bill[s])
  /\ \A s \in Sellers \ adjusted : RowRight(bill[s])

(* Whose row reads expired has no period that runs: a stale note of the job  *)
(* may take one away, which forgiven remembers.                              *)
NoneRuns(r) == r.status = "expired" /\ r.periodEnd # None => r.periodEnd <= today

Pending(s) == sweep.notice # None /\ sweep.notice.seller = s

(* What the job relies on while it is at work.                               *)
Sweeping ==
  sweep # Remind!NoSweep =>
    /\ due /\ changed \subseteq forgiven
    /\ sweep.read \in [Sellers -> Seller]
    /\ \A s \in Sellers \ changed : s \in sweep.left \/ Pending(s) => bill[s] = sweep.read[s]
    /\ \A s \in Sellers : s \in sweep.left \/ Pending(s) => sweep.read[s].status \in Remind!Listed
    /\ \A s \in Sellers \ adjusted : sweep.read[s].status \in {"expired", "cancelled"} =>
         /\ bill[s].status = "trial" => bill[s].trialEnds > today
         /\ bill[s].status \in {"active", "past_due"} => bill[s].periodEnd > today

NoticeRight ==
  sweep.notice # None =>
    LET n == sweep.notice
    IN /\ n.seller \notin sweep.left
       /\ Remind!Wanted(sweep.read[n.seller]) = [kind |-> n.kind, end |-> n.end]
       /\ notices[n.seller][n.kind][n.end] >= 1

(* One notice of each kind for each end, and only of an end that is noted or *)
(* about to be is there a notice when it comes up again.                     *)
Told(s, k, e) == notices[s][k][e] >= 1

ToldOnce(s) ==
  \A k \in {"expiring", "expired"}, e \in Ends :
    /\ notices[s][k][e] <= 1
    /\ Told(s, k, e) => e <= Remind!LastEnd(bill[s])
    /\ Told(s, k, e) /\ e = Remind!LastEnd(bill[s]) =>
         For(bill[s], k) = e \/ sweep.notice = [seller |-> s, kind |-> k, end |-> e]

NotedIsTold == \A s \in Sellers, k \in {"expiring", "expired"} :
                 For(bill[s], k) # None => Told(s, k, For(bill[s], k))

(* Nothing that is due is left for a seller.                                 *)
Through(s) ==
  LET r == bill[s]
  IN /\ Remind!Access(r) # None /\ Remind!Access(r) - today <= Window =>
          Told(s, "expiring", Remind!Access(r))
     /\ Remind!EndedAt(r) # None /\ r.status # "pending_verification" =>
          /\ Told(s, "expired", Remind!EndedAt(r))
          /\ s \notin adjusted => r.status \in {"expired", "cancelled"}

NobodyForgotten ==
  \A s \in Sellers \ changed :
    \/ ~due
    \/ sweep # Remind!NoSweep /\ s \notin sweep.left /\ ~Pending(s)
    => Through(s)

RemindersInv ==
  /\ ReminderTypes
  /\ RowsRight
  /\ \A s \in Sellers \ (forgiven \cup adjusted) : NoneRuns(bill[s]) /\ ToldOnce(s)
  /\ Sweeping /\ NoticeRight /\ NotedIsTold /\ NobodyForgotten

LEMMA EndsAreNumbers ==
  /\ \A e \in Ends : e \in Nat /\ e # None
  /\ Trial \in Ends /\ Trial \in Nat /\ Period \in Nat /\ Period >= 1 /\ Trial <= Period
  /\ \A day \in 0..MaxDays : day \in Nat /\ day + Period \in Ends /\ day + Period > day
  /\ \A k \in {"expiring", "expired"}, e \in Ends : [kind |-> k, end |-> e] # None
<1>1. \A e \in Ends : e \in Nat /\ e # None
  BY ReminderConstants DEF Ends
<1>2. \A k \in {"expiring", "expired"}, e \in Nat :
        [kind |-> k, end |-> e] \in [kind : {"expiring", "expired"}, end : Nat]
  OBVIOUS
<1>3. \A k \in {"expiring", "expired"}, e \in Ends : [kind |-> k, end |-> e] # None
  BY <1>1, <1>2, ReminderConstants
<1>. QED
  BY <1>1, <1>3, ReminderConstants DEF Ends

(* What access and its end are, whatever the row says.                       *)
LEMMA EndsFacts ==
  ASSUME ReminderTypes, NEW r \in Seller
  PROVE  /\ Remind!Access(r) \in Noticed /\ Remind!EndedAt(r) \in Noticed
         /\ Remind!Access(r) # None => Remind!Access(r) > today
         /\ Remind!EndedAt(r) # None => Remind!EndedAt(r) <= today /\ Remind!Access(r) = None
         /\ r.status = "pending_verification" => Remind!Access(r) = None
<1>1. /\ r.trialEnds \in Ends /\ r.periodEnd \in Noticed /\ today \in Nat
      /\ \A e \in Ends : e \in Nat /\ e # None
  BY EndsAreNumbers DEF ReminderTypes, Seller
<1>2. /\ Remind!Access(r) \in Noticed
      /\ Remind!Access(r) # None => Remind!Access(r) > today
      /\ r.status = "pending_verification" => Remind!Access(r) = None
  BY <1>1 DEF Remind!Access, Remind!Running, Noticed
<1>3. /\ Remind!EndedAt(r) \in Noticed
      /\ Remind!EndedAt(r) # None => Remind!EndedAt(r) <= today /\ Remind!Access(r) = None
  BY <1>1, <1>2 DEF Remind!EndedAt, Remind!Running, Noticed
<1>. QED
  BY <1>2, <1>3

(* Of a row that is right there is one end to hear of.                       *)
LEMMA OneEnd ==
  ASSUME ReminderTypes, NEW r \in Seller, RowRight(r), NoneRuns(r),
         r.status # "pending_verification"
  PROVE  /\ Remind!Access(r) \in {None, Remind!LastEnd(r)}
         /\ Remind!EndedAt(r) \in {None, Remind!LastEnd(r)}
         /\ Remind!LastEnd(r) \in Ends
<1>1. /\ r.trialEnds \in Ends /\ r.periodEnd \in Noticed /\ today \in Nat
      /\ r.status \in {"trial", "active", "past_due", "cancelled", "expired"}
      /\ \A e \in Ends : e \in Nat /\ e # None
  BY EndsAreNumbers DEF ReminderTypes, Seller, Remind!Listed
<1>2. CASE r.periodEnd = None
  BY <1>1, <1>2 DEF Remind!Access, Remind!EndedAt, Remind!Running, Remind!LastEnd
<1>3. CASE r.periodEnd # None
  <2>1. r.periodEnd \in Ends /\ r.trialEnds <= r.periodEnd /\ r.status # "trial"
    BY <1>1, <1>3 DEF Noticed, RowRight
  <2>2. CASE Remind!Running(r.periodEnd)
    <3>1. r.status \in {"active", "past_due", "cancelled"}
      BY <1>1, <1>3, <2>1, <2>2 DEF NoneRuns, Remind!Running
    <3>2. Remind!Access(r) = r.periodEnd
      BY <2>2, <3>1 DEF Remind!Access
    <3>. QED
      BY <1>1, <1>3, <2>1, <3>2 DEF Remind!EndedAt, Remind!LastEnd
  <2>3. CASE ~Remind!Running(r.periodEnd)
    <3>1. Remind!Access(r) = None
      BY <1>1, <1>3, <2>1, <2>3 DEF Remind!Access, Remind!Running
    <3>. QED
      BY <1>3, <2>1, <2>3, <3>1 DEF Remind!EndedAt, Remind!LastEnd
  <2>. QED
    BY <2>2, <2>3
<1>. QED
  BY <1>2, <1>3

(* The notice a row asks for, and what it means to ask for none.             *)
LEMMA WantedIs ==
  ASSUME ReminderTypes, NEW r \in Seller
  PROVE  LET w == Remind!Wanted(r)
         IN /\ w # None =>
                 /\ w.kind \in {"expiring", "expired"} /\ w.end \in Ends
                 /\ w = [kind |-> w.kind, end |-> w.end]
                 /\ For(r, w.kind) # w.end
                 /\ w.kind = "expiring" => w.end = Remind!Access(r)
                 /\ w.kind = "expired" => w.end = Remind!EndedAt(r)
            /\ w = None =>
                 /\ Remind!Access(r) # None /\ Remind!Access(r) - today <= Window =>
                      r.expiringFor = Remind!Access(r)
                 /\ Remind!EndedAt(r) # None => r.expiredFor = Remind!EndedAt(r)
<1>. DEFINE near == Remind!Access(r) # None /\ Remind!Access(r) - today <= Window
                    /\ r.expiringFor # Remind!Access(r)
            over == Remind!EndedAt(r) # None /\ r.expiredFor # Remind!EndedAt(r)
            first == [kind |-> "expiring", end |-> Remind!Access(r)]
            last == [kind |-> "expired", end |-> Remind!EndedAt(r)]
<1>1. Remind!Wanted(r) = IF near THEN first ELSE IF over THEN last ELSE None
  BY DEF Remind!Wanted
<1>2. /\ Remind!Access(r) \in Noticed /\ Remind!EndedAt(r) \in Noticed
      /\ Remind!EndedAt(r) # None => Remind!Access(r) = None
  BY EndsFacts
<1>3. /\ near => first # None /\ Remind!Access(r) \in Ends
      /\ over => last # None /\ Remind!EndedAt(r) \in Ends
  BY <1>2, EndsAreNumbers DEF Noticed
<1>. HIDE DEF near, over, first, last
<1>4. CASE near
  <2>1. Remind!Wanted(r) = first
    BY <1>1, <1>4
  <2>2. /\ first.kind = "expiring" /\ first.end = Remind!Access(r)
        /\ first = [kind |-> first.kind, end |-> first.end]
    BY DEF first
  <2>3. For(r, first.kind) # first.end
    BY <1>4, <2>2 DEF near, For
  <2>. QED
    BY <1>3, <1>4, <2>1, <2>2, <2>3
<1>5. CASE ~near /\ over
  <2>1. Remind!Wanted(r) = last
    BY <1>1, <1>5
  <2>. QED
    BY <1>3, <1>5, <2>1 DEF last, over, For
<1>6. CASE ~near /\ ~over
  <2>1. Remind!Wanted(r) = None
    BY <1>1, <1>6
  <2>. QED
    BY <1>2, <1>6, <2>1 DEF near, over
<1>. QED
  BY <1>4, <1>5, <1>6

(* The same rows on the same day ask for the same.                           *)
LEMMA SameRowsSameDay ==
  ASSUME UNCHANGED <<today, bill, notices, adjusted>>
  PROVE  \A s \in Sellers : Through(s)' <=> Through(s)
<1>1. ASSUME NEW s \in Sellers
      PROVE  Remind!Access(bill[s])' = Remind!Access(bill[s])
  BY DEF Remind!Access, Remind!Running
<1>2. ASSUME NEW s \in Sellers
      PROVE  Remind!EndedAt(bill[s])' = Remind!EndedAt(bill[s])
  BY <1>1 DEF Remind!EndedAt, Remind!Running
<1>. QED
  BY <1>1, <1>2 DEF Through, Told

LEMMA SameReadSameDay ==
  ASSUME today' = today, sweep'.read = sweep.read, NEW s
  PROVE  Remind!Wanted(sweep.read[s])' = Remind!Wanted(sweep.read[s])
<1>1. Remind!Access(sweep.read[s])' = Remind!Access(sweep.read[s])
  BY DEF Remind!Access, Remind!Running
<1>2. Remind!EndedAt(sweep.read[s])' = Remind!EndedAt(sweep.read[s])
  BY <1>1 DEF Remind!EndedAt, Remind!Running
<1>. QED
  BY <1>1, <1>2 DEF Remind!Wanted

LEMMA RemindersInitially ==
  ASSUME Remind!Init
  PROVE  RemindersInv
<1>1. /\ today = 0 /\ bill = [s \in Sellers |-> Remind!NewRow] /\ sweep = Remind!NoSweep
      /\ due = FALSE /\ changed = Sellers /\ forgiven = {} /\ adjusted = {}
      /\ notices = [s \in Sellers |-> [k \in {"expiring", "expired"} |-> [e \in Ends |-> 0]]]
  BY DEF Remind!Init, Remind!Kinds, Remind!Ends, Ends
<1>2. /\ Remind!NewRow \in Seller /\ RowRight(Remind!NewRow) /\ NoneRuns(Remind!NewRow)
      /\ EndedBefore(Remind!NewRow)
      /\ \A k \in {"expiring", "expired"} : For(Remind!NewRow, k) = None
  BY <1>1, EndsAreNumbers
     DEF Remind!NewRow, Seller, Noticed, RowRight, EndedBefore, NoneRuns, For, Remind!Listed
<1>3. ReminderTypes
  <2>1. 0 \in 0..MaxDays
    BY ReminderConstants
  <2>. QED
    BY <1>1, <1>2, <2>1 DEF ReminderTypes, Remind!NoSweep
<1>4. \A s \in Sellers : bill[s] = Remind!NewRow
  BY <1>1
<1>5. \A s \in Sellers, k \in {"expiring", "expired"}, e \in Ends : notices[s][k][e] = 0
  BY <1>1
<1>6. \A s \in Sellers : ToldOnce(s)
  BY <1>5 DEF ToldOnce, Told
<1>7. Sweeping /\ NoticeRight /\ NotedIsTold /\ NobodyForgotten
  BY <1>1, <1>2, <1>4 DEF Sweeping, NoticeRight, NotedIsTold, NobodyForgotten, Remind!NoSweep
<1>. QED
  BY <1>2, <1>3, <1>4, <1>6, <1>7 DEF RemindersInv, RowsRight

(* The job reads: whoever it does not ask for is under review, and nothing   *)
(* is due for them.                                                          *)
LEMMA BeginReminds ==
  ASSUME RemindersInv, Remind!Begin
  PROVE  RemindersInv'
<1>. USE DEF RemindersInv
<1>1. /\ today' = today /\ bill' = bill /\ notices' = notices /\ due' = due /\ due
      /\ forgiven' = forgiven /\ adjusted' = adjusted /\ changed' = {} /\ sweep = Remind!NoSweep
      /\ sweep' = [read |-> bill, left |-> {s \in Sellers : bill[s].status \in Remind!Listed},
                   notice |-> None]
  BY DEF Remind!Begin
<1>2. sweep'.read = bill /\ sweep'.notice = None
      /\ sweep'.left = {s \in Sellers : bill[s].status \in Remind!Listed}
  BY <1>1
<1>3. ReminderTypes'
  BY <1>1 DEF ReminderTypes
<1>4. RowsRight'
  BY <1>1 DEF RowsRight, RowRight, EndedBefore
<1>5. (\A s \in Sellers \ (forgiven \cup adjusted) : NoneRuns(bill[s]) /\ ToldOnce(s))'
  <2>1. sweep.notice = None
    BY <1>1 DEF Remind!NoSweep
  <2>2. None \notin [seller : Sellers, kind : {"expiring", "expired"}, end : Nat]
    BY ReminderConstants
  <2>3. ASSUME NEW s \in Sellers \ (forgiven \cup adjusted)
        PROVE  ToldOnce(s)'
    BY <1>1, <2>1, <2>2, EndsAreNumbers DEF ToldOnce, Told
  <2>. QED
    BY <1>1, <2>3 DEF NoneRuns
<1>6. Sweeping'
  BY <1>1, <1>2 DEF Sweeping, Pending, ReminderTypes
<1>7. NoticeRight'
  BY <1>2 DEF NoticeRight
<1>8. NotedIsTold'
  BY <1>1 DEF NotedIsTold, Told
<1>9. NobodyForgotten'
  <2>1. ASSUME NEW s \in Sellers, s \notin sweep'.left
        PROVE  Through(s)'
    <3>1. bill[s] \in Seller /\ bill[s].status = "pending_verification"
      BY <1>2, <2>1 DEF ReminderTypes, Seller
    <3>2. Remind!Access(bill[s]) = None
      BY <3>1, EndsFacts
    <3>3. Remind!Access(bill[s])' = None
      BY <1>1, <3>2 DEF Remind!Access, Remind!Running
    <3>. QED
      BY <1>1, <3>1, <3>3 DEF Through
  <2>. QED
    BY <1>1, <2>1 DEF NobodyForgotten
<1>. QED
  BY <1>3, <1>4, <1>5, <1>6, <1>7, <1>8, <1>9

LEMMA SkipReminds ==
  ASSUME RemindersInv, NEW s \in Sellers, Remind!Skip(s)
  PROVE  RemindersInv'
<1>. USE DEF RemindersInv
<1>1. /\ today' = today /\ bill' = bill /\ notices' = notices /\ due' = due
      /\ forgiven' = forgiven /\ adjusted' = adjusted /\ changed' = changed
      /\ s \in sweep.left /\ sweep.notice = None
      /\ Remind!Wanted(sweep.read[s]) = None
  BY DEF Remind!Skip
<1>2. /\ sweep'.read = sweep.read /\ sweep'.notice = sweep.notice
      /\ sweep'.left = sweep.left \ {s}
      /\ sweep' \in [read : [Sellers -> Seller] \cup {None}, left : SUBSET Sellers,
                     notice : Notice \cup {None}]
  BY <1>1 DEF Remind!Skip, ReminderTypes
<1>. sweep # Remind!NoSweep
  BY <1>1 DEF Remind!NoSweep
<1>3. ReminderTypes'
  BY <1>1, <1>2 DEF ReminderTypes
<1>4. RowsRight'
  BY <1>1 DEF RowsRight, RowRight, EndedBefore
<1>5. (\A t \in Sellers \ (forgiven \cup adjusted) : NoneRuns(bill[t]) /\ ToldOnce(t))'
  BY <1>1, <1>2 DEF NoneRuns, ToldOnce, Told
<1>6. Sweeping'
  BY <1>1, <1>2 DEF Sweeping, Pending
<1>7. NoticeRight'
  BY <1>1, <1>2 DEF NoticeRight
<1>8. NotedIsTold'
  BY <1>1 DEF NotedIsTold, Told
<1>9. NobodyForgotten'
  <2>1. ASSUME s \notin changed
        PROVE  Through(s)
    <3>1. /\ bill[s] = sweep.read[s] /\ bill[s] \in Seller
          /\ s \notin adjusted => RowRight(bill[s])
          /\ bill[s].status \in Remind!Listed
      BY <1>1, <1>2, <2>1 DEF Sweeping, ReminderTypes, RowsRight
    <3>2. /\ Remind!Access(bill[s]) # None /\ Remind!Access(bill[s]) - today <= Window =>
                For(bill[s], "expiring") = Remind!Access(bill[s])
          /\ Remind!EndedAt(bill[s]) # None => For(bill[s], "expired") = Remind!EndedAt(bill[s])
      BY <1>1, <3>1, WantedIs DEF For
    <3>3. s \notin adjusted /\ Remind!EndedAt(bill[s]) # None =>
            bill[s].status \in {"expired", "cancelled"}
      <4>1. ASSUME s \notin adjusted, Remind!EndedAt(bill[s]) # None
            PROVE  bill[s].status \notin {"trial", "active", "past_due"}
        <5>1. bill[s].expiredFor = Remind!EndedAt(bill[s])
          BY <3>2, <4>1 DEF For
        <5>2. bill[s].status # "trial"
          BY <3>1, <4>1, <5>1 DEF RowRight, Remind!EndedAt, Seller
        <5>3. bill[s].status \notin {"active", "past_due"}
          BY <3>1, <4>1, <5>1 DEF RowRight, Remind!EndedAt, Remind!Access
        <5>. QED
          BY <5>2, <5>3
      <4>. QED
        BY <3>1, <4>1 DEF Remind!Listed
    <3>. QED
      BY <3>2, <3>3 DEF Through, NotedIsTold
  <2>2. ASSUME NEW t \in Sellers \ changed, ~due \/ t = s \/ (t \notin sweep.left /\ ~Pending(t))
        PROVE  Through(t)
    BY <1>2, <2>1, <2>2 DEF NobodyForgotten
  <2>3. \A t \in Sellers : Through(t) => Through(t)'
    BY <1>1, SameRowsSameDay
  <2>. QED
    BY <1>1, <1>2, <2>2, <2>3 DEF NobodyForgotten, Pending
<1>. QED
  BY <1>3, <1>4, <1>5, <1>6, <1>7, <1>8, <1>9

(* A mail goes out: with a row that nobody has touched, of the end to hear   *)
(* of, for which there was none.                                             *)
LEMMA NotifyReminds ==
  ASSUME RemindersInv, NEW s \in Sellers, Remind!Notify(s)
  PROVE  RemindersInv'
<1>. USE DEF RemindersInv
<1>. DEFINE w == Remind!Wanted(sweep.read[s])
            n == [seller |-> s, kind |-> w.kind, end |-> w.end]
<1>1. /\ today' = today /\ bill' = bill /\ due' = due
      /\ forgiven' = forgiven /\ adjusted' = adjusted /\ changed' = changed
      /\ s \in sweep.left /\ sweep.notice = None /\ w # None
      /\ notices' = [notices EXCEPT ![s][w.kind][w.end] = @ + 1]
  BY DEF Remind!Notify
<1>2. sweep # Remind!NoSweep /\ sweep.read[s] \in Seller
  BY <1>1 DEF Sweeping, ReminderTypes, Remind!NoSweep
<1>3. /\ w.kind \in {"expiring", "expired"} /\ w.end \in Ends
      /\ w = [kind |-> w.kind, end |-> w.end]
      /\ For(sweep.read[s], w.kind) # w.end
      /\ w.kind = "expiring" => w.end = Remind!Access(sweep.read[s])
      /\ w.kind = "expired" => w.end = Remind!EndedAt(sweep.read[s])
  BY <1>1, <1>2, WantedIs
<1>. HIDE DEF w
<1>4. n \in Notice /\ n # None
  <2>1. n \in [seller : Sellers, kind : {"expiring", "expired"}, end : Nat] /\ n \in Notice
    BY <1>3, EndsAreNumbers DEF Notice
  <2>. QED
    BY <2>1, ReminderConstants
<1>5. /\ sweep'.read = sweep.read /\ sweep'.notice = n
      /\ sweep'.left = sweep.left \ {s}
      /\ sweep' \in [read : [Sellers -> Seller] \cup {None}, left : SUBSET Sellers,
                     notice : Notice \cup {None}]
  BY <1>4 DEF Remind!Notify, ReminderTypes, w
<1>6. /\ notices' \in [Sellers -> [{"expiring", "expired"} -> [Ends -> Nat]]]
      /\ \A t \in Sellers, k \in {"expiring", "expired"}, e \in Ends :
           notices'[t][k][e] = IF t = s /\ k = w.kind /\ e = w.end THEN notices[t][k][e] + 1
                               ELSE notices[t][k][e]
      /\ \A t \in Sellers, k \in {"expiring", "expired"}, e \in Ends : notices[t][k][e] \in Nat
  BY <1>1, <1>3 DEF ReminderTypes
<1>7. ReminderTypes'
  BY <1>1, <1>5, <1>6 DEF ReminderTypes
<1>8. RowsRight'
  BY <1>1 DEF RowsRight, RowRight, EndedBefore
<1>9. (\A t \in Sellers \ (forgiven \cup adjusted) : NoneRuns(bill[t]) /\ ToldOnce(t))'
  <2>1. ASSUME s \notin forgiven \cup adjusted
        PROVE  ToldOnce(s)'
    <3>1. /\ bill[s] = sweep.read[s] /\ RowRight(bill[s]) /\ NoneRuns(bill[s])
          /\ bill[s].status # "pending_verification"
      BY <1>1, <1>2, <2>1 DEF Sweeping, Remind!Listed, RowsRight
    <3>2. w.end = Remind!LastEnd(bill[s]) /\ For(bill[s], w.kind) # w.end
      BY <1>2, <1>3, <3>1, OneEnd, EndsAreNumbers
    <3>3. ~Told(s, w.kind, w.end)
      <4>1. sweep.notice # [seller |-> s, kind |-> w.kind, end |-> w.end]
        BY <1>1, <1>4
      <4>. QED
        BY <1>3, <2>1, <3>2, <4>1 DEF ToldOnce
    <3>4. notices[s][w.kind][w.end] = 0
      BY <1>3, <1>6, <3>3 DEF Told
    <3>5. ASSUME NEW k \in {"expiring", "expired"}, NEW e \in Ends
          PROVE  /\ notices'[s][k][e] <= 1
                 /\ notices'[s][k][e] >= 1 => e <= Remind!LastEnd(bill[s])
                 /\ notices'[s][k][e] >= 1 /\ e = Remind!LastEnd(bill[s]) =>
                      For(bill[s], k) = e \/ sweep'.notice = [seller |-> s, kind |-> k, end |-> e]
      <4>1. CASE k = w.kind /\ e = w.end
        BY <1>5, <1>6, <3>2, <3>4, <4>1, EndsAreNumbers
      <4>2. CASE ~(k = w.kind /\ e = w.end)
        <5>1. notices'[s][k][e] = notices[s][k][e]
          BY <1>6, <4>2
        <5>2. sweep.notice # [seller |-> s, kind |-> k, end |-> e]
          <6>1. [seller |-> s, kind |-> k, end |-> e]
                  \in [seller : Sellers, kind : {"expiring", "expired"}, end : Nat]
            BY EndsAreNumbers
          <6>. QED
            BY <1>1, <6>1, ReminderConstants
        <5>. QED
          BY <2>1, <5>1, <5>2 DEF ToldOnce, Told
      <4>. QED
        BY <4>1, <4>2
    <3>. QED
      BY <1>1, <3>5 DEF ToldOnce, Told, Remind!LastEnd, For
  <2>2. ASSUME NEW t \in Sellers \ (forgiven \cup adjusted), t # s
        PROVE  ToldOnce(t)'
    <3>1. \A k \in {"expiring", "expired"}, e \in Ends :
            sweep.notice # [seller |-> t, kind |-> k, end |-> e]
      <4>1. \A k \in {"expiring", "expired"}, e \in Ends :
              [seller |-> t, kind |-> k, end |-> e]
                \in [seller : Sellers, kind : {"expiring", "expired"}, end : Nat]
        BY EndsAreNumbers
      <4>. QED
        BY <1>1, <4>1, ReminderConstants
    <3>. QED
      BY <1>1, <1>6, <2>2, <3>1 DEF ToldOnce, Told, Remind!LastEnd, For
  <2>. QED
    BY <1>1, <2>1, <2>2 DEF NoneRuns
<1>10. Sweeping'
  BY <1>1, <1>2, <1>4, <1>5 DEF Sweeping, Pending
<1>11. NoticeRight'
  <2>1. w = Remind!Wanted(sweep.read[s])
    BY DEF w
  <2>2. Remind!Wanted(sweep.read[s])' = Remind!Wanted(sweep.read[s])
    BY <1>1, <1>5, SameReadSameDay
  <2>3. notices'[s][w.kind][w.end] >= 1
    BY <1>3, <1>6
  <2>. QED
    <3>1. /\ n.seller = s /\ n.kind = w.kind /\ n.end = w.end
          /\ sweep'.notice.seller = s
      BY <1>5
    <3>. HIDE DEF n
    <3>. QED
      BY <1>3, <1>5, <2>1, <2>2, <2>3, <3>1 DEF NoticeRight
<1>12. \A t \in Sellers, k \in {"expiring", "expired"}, e \in Ends : Told(t, k, e) => Told(t, k, e)'
  BY <1>6 DEF Told
<1>13. NotedIsTold'
  <2>1. \A t \in Sellers, k \in {"expiring", "expired"} :
          For(bill[t], k) \in Noticed
    BY DEF For, ReminderTypes, Seller
  <2>. QED
    BY <1>1, <1>12, <2>1 DEF NotedIsTold, Noticed, For
<1>14. NobodyForgotten'
  <2>1. ASSUME NEW t \in Sellers \ changed, ~due \/ (t \notin sweep'.left /\ t # s)
        PROVE  Through(t)
    BY <1>1, <1>2, <1>5, <2>1 DEF NobodyForgotten, Pending
  <2>2. ASSUME NEW t \in Sellers, Through(t)
        PROVE  Through(t)'
    <3>1. Remind!Access(bill[t]) \in Noticed /\ Remind!EndedAt(bill[t]) \in Noticed
      BY EndsFacts DEF ReminderTypes
    <3>2. Remind!Access(bill[t])' = Remind!Access(bill[t])
          /\ Remind!EndedAt(bill[t])' = Remind!EndedAt(bill[t])
      BY <1>1 DEF Remind!Access, Remind!EndedAt, Remind!Running
    <3>. QED
      BY <1>1, <1>12, <2>2, <3>1, <3>2 DEF Through, Noticed
  <2>3. due \/ sweep = Remind!NoSweep
    BY DEF Sweeping
  <2>. QED
    BY <1>1, <1>2, <1>4, <1>5, <2>1, <2>2 DEF NobodyForgotten, Pending, Notice
<1>. QED
  BY <1>7, <1>8, <1>9, <1>10, <1>11, <1>13, <1>14

(* The column is written.  Of who was not touched meanwhile the notice was   *)
(* of the end to hear of, so nothing is due after it.                        *)
LEMMA NoteReminds ==
  ASSUME RemindersInv, Remind!Note
  PROVE  RemindersInv'
<1>. USE DEF RemindersInv
<1>0. PICK s \in Sellers : s = sweep.notice.seller
  BY DEF Remind!Note, ReminderTypes, Notice
<1>. DEFINE n == sweep.notice
            read == sweep.read[s]
            new == Remind!Noted(bill[s], read, n)
<1>1. /\ today' = today /\ notices' = notices /\ due' = due
      /\ forgiven' = forgiven /\ adjusted' = adjusted /\ changed' = changed
      /\ n # None /\ bill' = [bill EXCEPT ![s] = new]
  BY <1>0 DEF Remind!Note
<1>2. /\ sweep'.read = sweep.read /\ sweep'.notice = None /\ sweep'.left = sweep.left
      /\ sweep' \in [read : [Sellers -> Seller] \cup {None}, left : SUBSET Sellers,
                     notice : Notice \cup {None}]
  BY DEF Remind!Note, ReminderTypes
<1>3. sweep # Remind!NoSweep
  BY <1>1 DEF Remind!NoSweep
<1>4. /\ n \in Notice /\ s \in Sellers /\ n.kind \in {"expiring", "expired"} /\ n.end \in Ends
      /\ n = [seller |-> s, kind |-> n.kind, end |-> n.end]
  BY <1>0, <1>1 DEF ReminderTypes, Notice
<1>5. /\ read \in Seller /\ bill[s] \in Seller
      /\ EndedBefore(bill[s]) /\ (s \notin adjusted => RowRight(bill[s]))
      /\ read.status \in Remind!Listed /\ s \notin sweep.left
      /\ Remind!Wanted(read) = [kind |-> n.kind, end |-> n.end]
      /\ Told(s, n.kind, n.end)
  BY <1>0, <1>1, <1>3, <1>4
     DEF Sweeping, NoticeRight, Pending, ReminderTypes, Told, RowsRight
<1>6. /\ n.kind = "expiring" => n.end = Remind!Access(read)
      /\ n.kind = "expired" => n.end = Remind!EndedAt(read)
  <2>1. Remind!Wanted(read) # None
    BY <1>4, <1>5, EndsAreNumbers
  <2>2. Remind!Wanted(read).kind = n.kind /\ Remind!Wanted(read).end = n.end
    BY <1>5
  <2>. QED
    BY <1>5, <2>1, <2>2, WantedIs
<1>7. n.kind = "expired" => n.end <= today
  BY <1>4, <1>5, <1>6, EndsFacts, EndsAreNumbers
<1>8. /\ new \in Seller /\ new.periodEnd = bill[s].periodEnd /\ new.trialEnds = bill[s].trialEnds
      /\ new.status \in {bill[s].status, "expired"}
      /\ For(new, n.kind) = n.end
      /\ \A k \in {"expiring", "expired"} : k # n.kind => For(new, k) = For(bill[s], k)
      /\ new.expiredFor = IF n.kind = "expired" THEN n.end ELSE bill[s].expiredFor
      /\ n.kind = "expiring" => new.status = bill[s].status
      /\ n.kind = "expired" /\ read.status \notin {"expired", "cancelled"} => new.status = "expired"
      /\ n.kind = "expired" /\ read.status \in {"expired", "cancelled"} => new.status = bill[s].status
  <2>1. CASE n.kind = "expiring"
    <3>1. new = [bill[s] EXCEPT !.expiringFor = n.end]
      BY <2>1 DEF Remind!Noted
    <3>. QED
      BY <1>4, <1>5, <2>1, <3>1 DEF Seller, Noticed, For
  <2>2. CASE n.kind = "expired"
    <3>1. new = [bill[s] EXCEPT !.expiredFor = n.end,
                    !.status = IF read.status \in {"expired", "cancelled"} THEN @ ELSE "expired"]
      BY <2>2 DEF Remind!Noted
    <3>. QED
      BY <1>4, <1>5, <2>2, <3>1 DEF Seller, Noticed, For, Remind!Listed
  <2>. QED
    BY <1>4, <2>1, <2>2
<1>9. bill'[s] = new /\ \A t \in Sellers : t # s => bill'[t] = bill[t]
  BY <1>1, <1>4 DEF ReminderTypes
<1>10. s \notin changed => bill[s] = read
  BY <1>0, <1>1, <1>3, <1>4 DEF Sweeping, Pending
<1>. HIDE DEF n, new, read
<1>11. ReminderTypes'
  BY <1>1, <1>2, <1>4, <1>8, <1>9 DEF ReminderTypes
<1>12. ASSUME s \notin adjusted
       PROVE  RowRight(new)
  <2>1. new.status = "trial" => new.expiredFor # new.trialEnds /\ bill[s].status = "trial"
    <3>1. CASE n.kind = "expiring"
      BY <1>5, <1>8, <1>12, <3>1 DEF RowRight
    <3>2. CASE n.kind = "expired"
      <4>1. new.status = "trial" => bill[s].trialEnds > today
        BY <1>3, <1>4, <1>8, <1>12, <3>2 DEF Sweeping, read
      <4>2. today \in Nat /\ n.end \in Nat /\ bill[s].trialEnds \in Nat
        BY <1>4, <1>5, EndsAreNumbers DEF ReminderTypes, Seller
      <4>. QED
        BY <1>7, <1>8, <3>2, <4>1, <4>2
    <3>. QED
      BY <1>4, <3>1, <3>2
  <2>2. new.status \in {"active", "past_due"} =>
          new.periodEnd # None /\ new.expiredFor # new.periodEnd
    <3>1. CASE n.kind = "expiring"
      BY <1>5, <1>8, <1>12, <3>1 DEF RowRight
    <3>2. CASE n.kind = "expired"
      <4>1. new.status \in {"active", "past_due"} => bill[s].periodEnd > today
        BY <1>3, <1>4, <1>8, <1>12, <3>2 DEF Sweeping, read
      <4>2. new.status \in {"active", "past_due"} => bill[s].periodEnd \in Ends
        BY <1>5, <1>8, <1>12 DEF RowRight, Seller, Noticed
      <4>3. today \in Nat /\ n.end \in Nat /\ \A e \in Ends : e \in Nat /\ e # None
        BY <1>4, EndsAreNumbers DEF ReminderTypes
      <4>4. new.expiredFor = n.end /\ n.end <= today
        BY <1>7, <1>8, <3>2
      <4>. QED
        BY <1>8, <4>1, <4>2, <4>3, <4>4
    <3>. QED
      BY <1>4, <3>1, <3>2
  <2>. QED
    BY <1>5, <1>8, <1>12, <2>1, <2>2 DEF RowRight
<1>13. RowsRight'
  <2>1. EndedBefore(new)
    BY <1>4, <1>5, <1>7, <1>8 DEF EndedBefore
  <2>. QED
    BY <1>1, <1>9, <1>12, <2>1 DEF RowsRight, RowRight, EndedBefore
<1>14. (\A t \in Sellers \ (forgiven \cup adjusted) : NoneRuns(bill[t]) /\ ToldOnce(t))'
  <2>1. ASSUME s \notin forgiven \cup adjusted
        PROVE  NoneRuns(new) /\ ToldOnce(s)' /\ n.end = Remind!LastEnd(bill[s])
    <3>1. /\ bill[s] = read /\ bill[s].status # "pending_verification"
          /\ RowRight(bill[s]) /\ NoneRuns(bill[s])
      BY <1>4, <1>5, <1>10, <2>1, <1>3 DEF Sweeping, Remind!Listed
    <3>2. n.end = Remind!LastEnd(bill[s])
      BY <1>4, <1>5, <1>6, <3>1, OneEnd, EndsAreNumbers
    <3>3. NoneRuns(new)
      BY <1>4, <1>7, <1>8, <3>1, <3>2 DEF NoneRuns, Remind!LastEnd
    <3>4. Remind!LastEnd(new) = Remind!LastEnd(bill[s])
      BY <1>8 DEF Remind!LastEnd
    <3>5. ASSUME NEW k \in {"expiring", "expired"}, NEW e \in Ends
          PROVE  /\ notices[s][k][e] <= 1
                 /\ Told(s, k, e) => e <= Remind!LastEnd(new)
                 /\ Told(s, k, e) /\ e = Remind!LastEnd(new) => For(new, k) = e
      <4>1. CASE k = n.kind
        BY <1>4, <1>8, <2>1, <3>2, <3>4, <4>1 DEF ToldOnce
      <4>2. CASE k # n.kind
        <5>1. n # [seller |-> s, kind |-> k, end |-> e]
          BY <4>2
        <5>. QED
          BY <1>4, <1>8, <2>1, <3>4, <4>2, <5>1 DEF ToldOnce, n
      <4>. QED
        BY <4>1, <4>2
    <3>. QED
      BY <1>1, <1>9, <3>2, <3>3, <3>5 DEF ToldOnce, Told, Remind!LastEnd, For
  <2>2. ASSUME NEW t \in Sellers \ (forgiven \cup adjusted), t # s
        PROVE  ToldOnce(t)'
    <3>1. \A k \in {"expiring", "expired"}, e \in Ends :
            n # [seller |-> t, kind |-> k, end |-> e]
      BY <1>4, <2>2
    <3>. QED
      BY <1>1, <1>9, <2>2, <3>1 DEF ToldOnce, Told, Remind!LastEnd, For, n
  <2>. QED
    BY <1>1, <1>4, <1>9, <2>1, <2>2 DEF NoneRuns
<1>15. Sweeping'
  <2>1. \A t \in Sellers : t \in sweep.left => t # s
    BY <1>5
  <2>2. /\ new.status = "trial" => bill[s].status = "trial"
        /\ new.status \in {"active", "past_due"} => bill[s].status \in {"active", "past_due"}
    BY <1>8
  <2>. QED
    BY <1>1, <1>2, <1>3, <1>4, <1>8, <1>9, <2>1, <2>2 DEF Sweeping, Pending
<1>16. NoticeRight'
  BY <1>2 DEF NoticeRight
<1>17. NotedIsTold'
  BY <1>1, <1>4, <1>5, <1>8, <1>9 DEF NotedIsTold, Told, For
<1>18. NobodyForgotten'
  <2>1. ASSUME s \notin changed
        PROVE  Through(s)'
    <3>1. /\ bill[s] = read /\ bill[s].status # "pending_verification"
          /\ today \in Nat /\ n.end \in Nat /\ n.end # None
          /\ \A e \in Ends : e \in Nat /\ e # None
          /\ bill[s].trialEnds \in Ends /\ bill[s].periodEnd \in Noticed
      BY <1>4, <1>5, <1>10, <2>1, EndsAreNumbers DEF Remind!Listed, Seller, ReminderTypes
    <3>2. CASE n.kind = "expiring"
      <4>1. Remind!Access(new) = n.end /\ Remind!EndedAt(new) = None
        BY <1>6, <1>8, <3>1, <3>2 DEF Remind!Access, Remind!EndedAt
      <4>2. Remind!Access(bill[s])' = n.end /\ Remind!EndedAt(bill[s])' = None
        BY <1>1, <1>9, <4>1 DEF Remind!Access, Remind!EndedAt, Remind!Running
      <4>. QED
        BY <1>1, <1>5, <3>2, <4>2 DEF Through, Told
    <3>3. CASE n.kind = "expired"
      <4>1. Remind!Access(bill[s]) = None /\ Remind!EndedAt(bill[s]) = n.end
        BY <1>6, <3>1, <3>3 DEF Remind!EndedAt
      <4>2. new.status \in {"expired", "cancelled"}
        BY <1>8, <3>1, <3>3
      <4>3. ~Remind!Running(bill[s].trialEnds)
        BY <3>1, <4>1 DEF Remind!Access, Remind!Running
      <4>4. Remind!Access(new) = None
        BY <1>8, <3>1, <4>1, <4>2, <4>3 DEF Remind!Access
      <4>5. Remind!EndedAt(new) = n.end
        BY <1>8, <4>1, <4>4, <3>1 DEF Remind!EndedAt
      <4>6. Remind!Access(bill[s])' = None /\ Remind!EndedAt(bill[s])' = n.end
        BY <1>1, <1>9, <4>4, <4>5 DEF Remind!Access, Remind!EndedAt, Remind!Running
      <4>. QED
        BY <1>1, <1>5, <1>9, <3>3, <4>2, <4>6 DEF Through, Told
    <3>. QED
      BY <1>4, <3>2, <3>3
  <2>2. ASSUME NEW t \in Sellers, t # s, Through(t)
        PROVE  Through(t)'
    BY <1>1, <1>9, <2>2 DEF Through, Told, Remind!Access, Remind!EndedAt, Remind!Running
  <2>3. ASSUME NEW t \in Sellers \ changed, ~due \/ t \notin sweep.left, t # s
        PROVE  Through(t)
    BY <1>0, <1>3, <2>3 DEF NobodyForgotten, Pending, n
  <2>. QED
    BY <1>1, <1>2, <2>1, <2>2, <2>3 DEF NobodyForgotten
<1>. QED
  BY <1>11, <1>13, <1>14, <1>15, <1>16, <1>17, <1>18

LEMMA EndReminds ==
  ASSUME RemindersInv, Remind!End
  PROVE  RemindersInv'
<1>. USE DEF RemindersInv
<1>1. /\ today' = today /\ bill' = bill /\ notices' = notices
      /\ forgiven' = forgiven /\ adjusted' = adjusted /\ changed' = changed
      /\ sweep # Remind!NoSweep /\ sweep.left = {} /\ sweep.notice = None
      /\ sweep' = Remind!NoSweep /\ due' = FALSE
  BY DEF Remind!End
<1>2. sweep'.left = {} /\ sweep'.notice = None
  BY <1>1 DEF Remind!NoSweep
<1>3. ReminderTypes'
  BY <1>1 DEF ReminderTypes, Remind!NoSweep
<1>4. RowsRight'
  BY <1>1 DEF RowsRight, RowRight, EndedBefore
<1>5. (\A t \in Sellers \ (forgiven \cup adjusted) : NoneRuns(bill[t]) /\ ToldOnce(t))'
  BY <1>1, <1>2 DEF NoneRuns, ToldOnce, Told
<1>6. Sweeping' /\ NoticeRight' /\ NotedIsTold'
  BY <1>1, <1>2 DEF Sweeping, NoticeRight, NotedIsTold, Told
<1>7. NobodyForgotten'
  <2>1. \A t \in Sellers \ changed : Through(t)
    BY <1>1 DEF NobodyForgotten, Pending
  <2>2. \A t \in Sellers : Through(t) => Through(t)'
    BY <1>1, SameRowsSameDay
  <2>. QED
    BY <1>1, <2>1, <2>2 DEF NobodyForgotten
<1>. QED
  BY <1>3, <1>4, <1>5, <1>6, <1>7

LEMMA DieReminds ==
  ASSUME RemindersInv, Remind!Die
  PROVE  RemindersInv'
<1>. USE DEF RemindersInv
<1>1. /\ today' = today /\ bill' = bill /\ notices' = notices /\ due' = due /\ due
      /\ changed' = changed /\ adjusted' = adjusted /\ sweep' = Remind!NoSweep
      /\ forgiven' = IF sweep.notice = None THEN forgiven
                     ELSE forgiven \cup {sweep.notice.seller}
  BY DEF Remind!Die, Sweeping
<1>2. sweep'.left = {} /\ sweep'.notice = None
  BY <1>1 DEF Remind!NoSweep
<1>3. ReminderTypes'
  BY <1>1 DEF ReminderTypes, Remind!NoSweep, Notice
<1>4. RowsRight'
  BY <1>1 DEF RowsRight, RowRight, EndedBefore
<1>5. (\A t \in Sellers \ (forgiven \cup adjusted) : NoneRuns(bill[t]) /\ ToldOnce(t))'
  <2>1. ASSUME NEW t \in Sellers \ (forgiven' \cup adjusted')
        PROVE  /\ t \notin forgiven
               /\ \A k \in {"expiring", "expired"}, e \in Ends :
                    sweep.notice # [seller |-> t, kind |-> k, end |-> e]
    <3>1. t \notin forgiven /\ (sweep.notice # None => sweep.notice.seller # t)
      BY <1>1
    <3>2. \A k \in {"expiring", "expired"}, e \in Ends :
            [seller |-> t, kind |-> k, end |-> e]
              \in [seller : Sellers, kind : {"expiring", "expired"}, end : Nat]
      BY EndsAreNumbers
    <3>. QED
      BY <3>1, <3>2, ReminderConstants
  <2>. QED
    BY <1>1, <2>1 DEF NoneRuns, ToldOnce, Told
<1>6. Sweeping' /\ NoticeRight' /\ NotedIsTold' /\ NobodyForgotten'
  BY <1>1, <1>2 DEF Sweeping, NoticeRight, NotedIsTold, Told, NobodyForgotten
<1>. QED
  BY <1>3, <1>4, <1>5, <1>6

LEMMA NextDayReminds ==
  ASSUME RemindersInv, Remind!NextDay
  PROVE  RemindersInv'
<1>. USE DEF RemindersInv
<1>1. /\ today' = today + 1 /\ today < MaxDays /\ bill' = bill /\ notices' = notices
      /\ due' = TRUE /\ changed' = changed /\ sweep' = sweep /\ forgiven' = forgiven
      /\ adjusted' = adjusted
      /\ sweep = Remind!NoSweep
  BY DEF Remind!NextDay
<1>2. today \in Nat /\ today' \in 0..MaxDays
  BY <1>1, ReminderConstants DEF ReminderTypes
<1>3. ReminderTypes'
  BY <1>1, <1>2 DEF ReminderTypes
<1>4. RowsRight'
  <2>1. ASSUME NEW t \in Sellers
        PROVE  /\ EndedBefore(bill[t])'
               /\ t \notin adjusted => RowRight(bill[t])'
    <3>1. /\ bill[t].trialEnds \in Nat
          /\ bill[t].periodEnd # None => bill[t].periodEnd \in Nat
          /\ bill[t].expiredFor # None => bill[t].expiredFor \in Nat
      BY EndsAreNumbers DEF ReminderTypes, Seller, Noticed
    <3>2. bill[t].expiredFor # None => bill[t].expiredFor <= today + 1
      BY <1>2, <3>1 DEF RowsRight, EndedBefore
    <3>3. t \notin adjusted =>
            /\ bill[t].trialEnds <= today + 1 + Period
            /\ bill[t].periodEnd # None => bill[t].periodEnd <= today + 1 + Period
      BY <1>2, <3>1, EndsAreNumbers DEF RowsRight, RowRight
    <3>. QED
      BY <1>1, <3>2, <3>3 DEF RowsRight, RowRight, EndedBefore
  <2>. QED
    BY <1>1, <2>1 DEF RowsRight
<1>5. (\A t \in Sellers \ (forgiven \cup adjusted) : NoneRuns(bill[t]) /\ ToldOnce(t))'
  <2>1. ASSUME NEW t \in Sellers \ (forgiven \cup adjusted)
        PROVE  NoneRuns(bill[t])'
    <3>1. bill[t].periodEnd # None => bill[t].periodEnd \in Nat
      BY EndsAreNumbers DEF ReminderTypes, Seller, Noticed
    <3>2. bill[t].periodEnd # None /\ bill[t].periodEnd <= today => bill[t].periodEnd <= today + 1
      BY <1>2, <3>1
    <3>. QED
      BY <1>1, <3>2 DEF NoneRuns
  <2>. QED
    BY <1>1, <2>1 DEF ToldOnce, Told
<1>6. Sweeping' /\ NoticeRight' /\ NotedIsTold' /\ NobodyForgotten'
  <2>1. sweep.notice = None
    BY <1>1 DEF Remind!NoSweep
  <2>. QED
    BY <1>1, <2>1 DEF Sweeping, NoticeRight, NotedIsTold, Told, NobodyForgotten
<1>. QED
  BY <1>3, <1>4, <1>5, <1>6

(* Others write: who is written to while the job is at work, or back to an   *)
(* earlier end, is forgiven.                                                 *)
LEMMA ChangeReminds ==
  ASSUME RemindersInv, NEW s \in Sellers, NEW new \in Seller, Remind!Change(s, new),
         adjusted \subseteq adjusted', adjusted' \subseteq adjusted \cup {s},
         new.expiringFor = bill[s].expiringFor, new.expiredFor = bill[s].expiredFor,
         NoneRuns(new),
         s \notin adjusted' =>
           /\ RowRight(new)
           /\ new.status = "trial" => new.trialEnds > today
           /\ new.status \in {"active", "past_due"} =>
                \/ new.periodEnd > today
                \/ bill[s].status \in {"active", "past_due"} /\ new.periodEnd = bill[s].periodEnd
  PROVE  RemindersInv'
<1>. USE DEF RemindersInv
<1>1. /\ today' = today /\ notices' = notices /\ due' = due /\ sweep' = sweep
      /\ changed' = changed \cup {s} /\ bill' = [bill EXCEPT ![s] = new]
      /\ forgiven' = IF sweep = Remind!NoSweep /\ Remind!LastEnd(new) >= Remind!LastEnd(bill[s])
                     THEN forgiven ELSE forgiven \cup {s}
  BY DEF Remind!Change
<1>2. bill'[s] = new /\ \A t \in Sellers : t # s => bill'[t] = bill[t]
  BY <1>1 DEF ReminderTypes
<1>3. /\ \A t \in Sellers : t \notin forgiven' \cup adjusted' => t \notin forgiven \cup adjusted
      /\ \A t \in Sellers : t # s => (t \in adjusted' <=> t \in adjusted)
      /\ \A t \in Sellers : t \notin adjusted' => t \notin adjusted
      /\ forgiven' \subseteq Sellers /\ adjusted' \subseteq Sellers
  BY <1>1 DEF ReminderTypes
<1>4. s \notin forgiven' =>
        sweep = Remind!NoSweep /\ Remind!LastEnd(bill[s]) <= Remind!LastEnd(new)
  BY <1>1
<1>5. ReminderTypes'
  BY <1>1, <1>3 DEF ReminderTypes
<1>6. RowsRight'
  <2>1. EndedBefore(new)
    BY DEF RowsRight, EndedBefore
  <2>. QED
    BY <1>1, <1>2, <1>3, <2>1 DEF RowsRight, RowRight, EndedBefore
<1>7. (\A t \in Sellers \ (forgiven \cup adjusted) : NoneRuns(bill[t]) /\ ToldOnce(t))'
  <2>1. ASSUME s \notin forgiven' \cup adjusted'
        PROVE  ToldOnce(s)'
    <3>1. \A k \in {"expiring", "expired"} : For(new, k) = For(bill[s], k)
      BY DEF For
    <3>2. sweep.notice = None
      BY <1>4, <2>1 DEF Remind!NoSweep
    <3>3. Remind!LastEnd(new) \in Nat /\ Remind!LastEnd(bill[s]) \in Nat
      <4>1. \A r \in Seller : r.trialEnds \in Ends /\ r.periodEnd \in Ends \cup {None}
        BY DEF Seller, Noticed
      <4>2. \A r \in Seller : Remind!LastEnd(r) \in Nat
        BY <4>1, EndsAreNumbers DEF Remind!LastEnd
      <4>. QED
        BY <4>2 DEF ReminderTypes
    <3>4. ASSUME NEW k \in {"expiring", "expired"}, NEW e \in Ends
          PROVE  /\ notices[s][k][e] <= 1
                 /\ Told(s, k, e) => e <= Remind!LastEnd(new)
                 /\ Told(s, k, e) /\ e = Remind!LastEnd(new) => For(new, k) = e
      <4>1. sweep.notice # [seller |-> s, kind |-> k, end |-> e]
        <5>1. [seller |-> s, kind |-> k, end |-> e]
                \in [seller : Sellers, kind : {"expiring", "expired"}, end : Nat]
          BY EndsAreNumbers
        <5>. QED
          BY <3>2, <5>1, ReminderConstants
      <4>2. /\ notices[s][k][e] <= 1
            /\ Told(s, k, e) => e <= Remind!LastEnd(bill[s])
            /\ Told(s, k, e) /\ e = Remind!LastEnd(bill[s]) => For(bill[s], k) = e
        BY <1>3, <2>1, <4>1 DEF ToldOnce
      <4>3. Remind!LastEnd(bill[s]) <= Remind!LastEnd(new) /\ e \in Nat
        BY <1>4, <2>1, EndsAreNumbers
      <4>. QED
        BY <3>1, <3>3, <4>2, <4>3
    <3>. QED
      BY <1>1, <1>2, <3>4 DEF ToldOnce, Told, Remind!LastEnd, For
  <2>2. ASSUME NEW t \in Sellers \ (forgiven' \cup adjusted'), t # s
        PROVE  ToldOnce(t)'
    BY <1>1, <1>2, <1>3, <2>2 DEF ToldOnce, Told, Remind!LastEnd, For
  <2>. QED
    BY <1>1, <1>2, <1>3, <2>1, <2>2 DEF NoneRuns
<1>8. Sweeping'
  <2>. SUFFICES ASSUME sweep # Remind!NoSweep
                PROVE  Sweeping'
    BY <1>1 DEF Sweeping
  <2>1. s \in forgiven' /\ forgiven \subseteq forgiven'
    BY <1>1
  <2>2. \A t \in Sellers \ adjusted' : sweep.read[t].status \in {"expired", "cancelled"} =>
          /\ bill'[t].status = "trial" => bill'[t].trialEnds > today
          /\ bill'[t].status \in {"active", "past_due"} => bill'[t].periodEnd > today
    BY <1>2, <1>3 DEF Sweeping
  <2>. QED
    BY <1>1, <1>2, <2>1, <2>2 DEF Sweeping, Pending
<1>9. NoticeRight'
  BY <1>1, SameReadSameDay DEF NoticeRight
<1>10. NotedIsTold'
  BY <1>1, <1>2 DEF NotedIsTold, Told, For
<1>11. NobodyForgotten'
  <2>1. ASSUME NEW t \in Sellers, t # s, Through(t)
        PROVE  Through(t)'
    BY <1>1, <1>2, <1>3, <2>1 DEF Through, Told, Remind!Access, Remind!EndedAt, Remind!Running
  <2>. QED
    BY <1>1, <2>1 DEF NobodyForgotten, Pending
<1>. QED
  BY <1>5, <1>6, <1>7, <1>8, <1>9, <1>10, <1>11

LEMMA PaymentsRemind ==
  ASSUME RemindersInv, NEW s \in Sellers,
         \/ Remind!Pay(s) \/ Remind!Submit(s) \/ Remind!Reject(s)
         \/ \E fallen \in {"past_due", "cancelled"} : Remind!Fall(s, fallen)
  PROVE  RemindersInv'
<1>1. /\ bill[s] \in Seller /\ (s \notin adjusted => RowRight(bill[s])) /\ EndedBefore(bill[s])
      /\ today \in Nat /\ bill[s].trialEnds \in Ends /\ bill[s].periodEnd \in Noticed
      /\ bill[s].expiredFor \in Noticed
      /\ today + Period \in Ends /\ today + Period > today
      /\ \A e \in Ends : e \in Nat /\ e # None
  BY EndsAreNumbers DEF RemindersInv, ReminderTypes, RowsRight, Seller
<1>2. CASE Remind!Pay(s)
  <2>. DEFINE new == [bill[s] EXCEPT !.status = "active", !.periodEnd = today + Period]
  <2>1. Remind!Change(s, new) /\ adjusted' = adjusted
    BY <1>2 DEF Remind!Pay
  <2>2. /\ new \in Seller /\ new.status = "active" /\ new.periodEnd = today + Period
        /\ new.trialEnds = bill[s].trialEnds
        /\ new.expiringFor = bill[s].expiringFor /\ new.expiredFor = bill[s].expiredFor
    BY <1>1 DEF Seller, Noticed, Remind!Listed
  <2>. HIDE DEF new
  <2>3. new.expiredFor # None => new.expiredFor # new.periodEnd
    BY <1>1, <2>2, EndsAreNumbers DEF EndedBefore, Noticed
  <2>4. s \notin adjusted => RowRight(new)
    BY <1>1, <2>2, <2>3, EndsAreNumbers DEF RowRight
  <2>5. NoneRuns(new)
    BY <2>2 DEF NoneRuns
  <2>. QED
    BY <1>1, <2>1, <2>2, <2>4, <2>5, ChangeReminds
<1>3. CASE Remind!Submit(s)
  <2>. DEFINE new == [bill[s] EXCEPT !.status = "pending_verification"]
  <2>1. Remind!Change(s, new) /\ adjusted' = adjusted
    BY <1>3 DEF Remind!Submit
  <2>2. /\ new \in Seller /\ new.status = "pending_verification"
        /\ new.periodEnd = bill[s].periodEnd /\ new.trialEnds = bill[s].trialEnds
        /\ new.expiringFor = bill[s].expiringFor /\ new.expiredFor = bill[s].expiredFor
    BY <1>1 DEF Seller
  <2>. HIDE DEF new
  <2>3. NoneRuns(new) /\ (s \notin adjusted => RowRight(new))
    BY <1>1, <2>2 DEF RowRight, NoneRuns
  <2>. QED
    BY <2>1, <2>2, <2>3, ChangeReminds
<1>4. CASE Remind!Reject(s)
  <2>. DEFINE new == [bill[s] EXCEPT !.periodEnd = None,
                        !.status = IF Remind!Running(bill[s].trialEnds) THEN "trial" ELSE "expired"]
  <2>1. Remind!Change(s, new) /\ adjusted' = adjusted
    BY <1>4 DEF Remind!Reject
  <2>2. /\ new \in Seller /\ new.periodEnd = None /\ new.trialEnds = bill[s].trialEnds
        /\ new.status \in {"trial", "expired"}
        /\ new.status = "trial" => new.trialEnds > today
        /\ new.expiringFor = bill[s].expiringFor /\ new.expiredFor = bill[s].expiredFor
    BY <1>1 DEF Seller, Noticed, Remind!Listed, Remind!Running
  <2>. HIDE DEF new
  <2>3. new.status = "trial" => new.expiredFor # new.trialEnds
    BY <1>1, <2>2 DEF EndedBefore, Noticed
  <2>4. NoneRuns(new) /\ (s \notin adjusted => RowRight(new))
    BY <1>1, <2>2, <2>3 DEF RowRight, NoneRuns
  <2>. QED
    BY <2>1, <2>2, <2>4, ChangeReminds
<1>5. ASSUME NEW fallen \in {"past_due", "cancelled"}, Remind!Fall(s, fallen)
      PROVE  RemindersInv'
  <2>. DEFINE new == [bill[s] EXCEPT !.status = fallen]
  <2>1. Remind!Change(s, new) /\ adjusted' = adjusted /\ bill[s].status = "active"
    BY <1>5 DEF Remind!Fall
  <2>2. /\ new \in Seller /\ new.status = fallen
        /\ new.periodEnd = bill[s].periodEnd /\ new.trialEnds = bill[s].trialEnds
        /\ new.expiringFor = bill[s].expiringFor /\ new.expiredFor = bill[s].expiredFor
    BY <1>1 DEF Seller, Remind!Listed
  <2>. HIDE DEF new
  <2>3. NoneRuns(new) /\ (s \notin adjusted => RowRight(new))
    BY <1>1, <2>1, <2>2 DEF RowRight, NoneRuns
  <2>. QED
    BY <2>1, <2>2, <2>3, ChangeReminds
<1>. QED
  BY <1>2, <1>3, <1>4, <1>5

(* An admin writes: what a payment could have left is right, and of the rest *)
(* it is noted whose it is.                                                  *)
LEMMA AdministerReminds ==
  ASSUME RemindersInv, NEW s \in Sellers, NEW new \in Remind!ByHand(bill[s]),
         Remind!Administer(s, new)
  PROVE  RemindersInv'
<1>1. /\ bill[s] \in Seller /\ EndedBefore(bill[s])
      /\ today \in Nat /\ today + Period \in Ends /\ Dates \subseteq Ends
      /\ \A e \in Ends : e \in Nat /\ e # None
  BY EndsAreNumbers, ReminderConstants DEF RemindersInv, ReminderTypes, RowsRight, Ends
<1>2. /\ new \in Seller
      /\ new.expiringFor = bill[s].expiringFor /\ new.expiredFor = bill[s].expiredFor
      /\ new.status = "expired" => new.periodEnd = None
      /\ new.status # "past_due"
  <2>1. CASE \E d \in Dates \cup {today + Period} :
               new = [bill[s] EXCEPT !.status = "active", !.periodEnd = d]
    <3>1. PICK d \in Ends : new = [bill[s] EXCEPT !.status = "active", !.periodEnd = d]
      BY <1>1, <2>1
    <3>. QED
      BY <1>1, <3>1 DEF Seller, Noticed, Remind!Listed
  <2>2. CASE \E kept \in {"trial", "cancelled", "expired"} :
               new = [bill[s] EXCEPT !.status = kept, !.periodEnd = None]
    BY <1>1, <2>2 DEF Seller, Noticed, Remind!Listed
  <2>3. CASE \E kept \in {"trial", "active", "pending_verification"} :
               new = [bill[s] EXCEPT !.status = kept]
    BY <1>1, <2>3 DEF Seller, Noticed, Remind!Listed
  <2>4. CASE \E d \in Dates :
               new = [bill[s] EXCEPT !.status = "trial", !.periodEnd = None, !.trialEnds = d]
    BY <1>1, <2>4 DEF Seller, Noticed, Remind!Listed
  <2>. QED
    BY <2>1, <2>2, <2>3, <2>4 DEF Remind!ByHand
<1>3. Remind!Change(s, new)
      /\ adjusted' = IF Remind!Ordinary(new) THEN adjusted ELSE adjusted \cup {s}
  BY DEF Remind!Administer
<1>4. NoneRuns(new)
  BY <1>2 DEF NoneRuns
<1>5. ASSUME Remind!Ordinary(new)
      PROVE  /\ RowRight(new)
             /\ new.status = "trial" => new.trialEnds > today
             /\ new.status = "active" => new.periodEnd > today
  <2>1. /\ new.trialEnds \in Ends /\ new.periodEnd \in Noticed /\ new.expiredFor \in Noticed
        /\ new.expiredFor # None => new.expiredFor <= today
    BY <1>1, <1>2 DEF Seller, EndedBefore
  <2>2. /\ new.status = "trial" => new.periodEnd = None /\ new.trialEnds > today
        /\ new.status = "active" => new.periodEnd # None /\ new.periodEnd > today
    BY <1>5 DEF Remind!Ordinary, Remind!Running
  <2>3. /\ new.trialEnds <= today + Period
        /\ new.periodEnd # None => new.trialEnds <= new.periodEnd /\ new.periodEnd <= today + Period
    BY <1>1, <1>5, <2>1 DEF Remind!Ordinary, Remind!LastEnd, Noticed
  <2>4. /\ new.status = "trial" => new.expiredFor # new.trialEnds
        /\ new.status = "active" => new.expiredFor # new.periodEnd
    BY <1>1, <2>1, <2>2 DEF Noticed
  <2>. QED
    BY <1>2, <2>2, <2>3, <2>4 DEF RowRight
<1>. QED
  BY <1>2, <1>3, <1>4, <1>5, ChangeReminds

LEMMA RemindersStep ==
  ASSUME RemindersInv, [Remind!Next]_billVars
  PROVE  RemindersInv'
<1>1. ASSUME UNCHANGED billVars
      PROVE  RemindersInv'
  <2>1. /\ today' = today /\ bill' = bill /\ sweep' = sweep /\ due' = due /\ notices' = notices
        /\ changed' = changed /\ forgiven' = forgiven /\ adjusted' = adjusted
    BY <1>1 DEF billVars
  <2>2. ReminderTypes' = ReminderTypes /\ Sweeping' = Sweeping /\ NotedIsTold' = NotedIsTold
    BY <2>1 DEF ReminderTypes, Sweeping, Pending, NotedIsTold, Told
  <2>3. /\ RowsRight' = RowsRight
        /\ (\A s \in Sellers \ (forgiven \cup adjusted) : NoneRuns(bill[s]) /\ ToldOnce(s))' =
           (\A s \in Sellers \ (forgiven \cup adjusted) : NoneRuns(bill[s]) /\ ToldOnce(s))
    BY <2>1 DEF RowsRight, RowRight, EndedBefore, NoneRuns, ToldOnce, Told
  <2>4. NoticeRight' = NoticeRight
    BY <2>1, SameReadSameDay DEF NoticeRight
  <2>5. NobodyForgotten' = NobodyForgotten
    BY <2>1, SameRowsSameDay DEF NobodyForgotten, Pending
  <2>. QED
    BY <2>2, <2>3, <2>4, <2>5 DEF RemindersInv
<1>. QED
  BY <1>1, BeginReminds, SkipReminds, NotifyReminds, NoteReminds, EndReminds, DieReminds,
     NextDayReminds, PaymentsRemind, AdministerReminds DEF Remind!Next

-----------------------------------------------------------------------------
(* Every behaviour of the parts.                                             *)

(* No time of a resource is promised to two customers, however many bookings *)
(* and windows there are, as long as handlers do not overlap and a booking   *)
(* that was given up stays so ("This time slot is already booked").          *)
THEOREM NeverDoubleBooked == PartsSpec => []NoDoubleBooking
<1>. DEFINE Inv == part = "bookings" => Diary
<1>1. PartsInit => Inv
  BY DiaryInitially DEF PartsInit
<1>2. Inv /\ [PartsNext]_partsVars => Inv'
  BY DiaryPreserved DEF PartsNext, partsVars, bookingVars, Book!vars
<1>3. Inv => NoDoubleBooking
  BY DEF Diary, NoDoubleBooking
<1>. QED
  BY <1>1, <1>2, <1>3, PTL DEF PartsSpec

(* When nothing is under way, what the customer was last told of a booking   *)
(* is so, except that its completion is not announced, for any bookings and  *)
(* windows: where one request is handled at a time, messages arrive before   *)
(* the next one starts, and no booking is reopened (the instance Book).  The *)
(* conditions under which updateBookingStatus notifies.                      *)
THEOREM CustomersToldTheTruth == PartsSpec => []ToldTheTruth
<1>. DEFINE Inv == part = "bookings" => Diary /\ Messages
<1>1. PartsInit => Inv
  BY DiaryInitially DEF PartsInit
<1>2. Inv /\ [PartsNext]_partsVars => Inv'
  BY DiaryPreserved, MessagesPreserved DEF PartsNext, partsVars, bookingVars, Book!vars
<1>3. Inv => ToldTheTruth
  BY DEF Messages, Truth, ToldTheTruth, Book!ToldTheTruth, Book!Quiet
<1>. QED
  BY <1>1, <1>2, <1>3, PTL DEF PartsSpec

(* Accounts, links, sessions and requests are well formed, and none is of an *)
(* account that does not exist, for any number of requests at the same time  *)
(* and wherever the server dies.                                             *)
THEOREM AccountsExist == PartsSpec => [](part = "accounts" => AccountTypes /\ Known)
<1>. DEFINE Inv == part = "accounts" => AccountsInv
<1>1. PartsInit => Inv
  BY AccountsInitially DEF PartsInit
<1>2. Inv /\ [PartsNext]_partsVars => Inv'
  BY AccountsStep DEF PartsNext, partsVars, accountVars
<1>3. Inv => (part = "accounts" => AccountTypes /\ Known)
  BY DEF AccountsInv
<1>. HIDE DEF Inv
<1>. QED
  BY <1>1, <1>2, <1>3, PTL DEF PartsSpec

(* Once somebody was told that their password has been reset, no link to     *)
(* reset it that is older works again, for any number of accounts, links and *)
(* requests at the same time ("Invalidate other outstanding reset tokens").  *)
THEOREM OldLinksStayDead == PartsSpec => []OldLinksAreDead
<1>. DEFINE Inv == part = "accounts" => AccountsInv
<1>1. PartsInit => Inv
  BY AccountsInitially DEF PartsInit
<1>2. Inv /\ [PartsNext]_partsVars => Inv'
  BY AccountsStep DEF PartsNext, partsVars, accountVars
<1>3. Inv => OldLinksAreDead
  BY DEF AccountsInv, SpentAreUsed, OldLinksAreDead, Auth!OldLinksAreDead, Auth!Works
<1>. HIDE DEF Inv
<1>. QED
  BY <1>1, <1>2, <1>3, PTL DEF PartsSpec

(* A seeker is not told of the same opening twice, for any listings, seekers *)
(* and searches at the same time, whatever suits whom, unless two passes of  *)
(* alerts overlap or one is cut between the message and the note of it       *)
(* (runAlertsForNewJobs reads the profiles once, before the first alert).    *)
THEOREM SeekersAreToldOnce == PartsSpec => []AlertedOnce
<1>. DEFINE Inv == part = "feed" => FeedInv
<1>1. PartsInit => Inv
  BY FeedInitially DEF PartsInit
<1>2. Inv /\ [PartsNext]_partsVars => Inv'
  BY FeedStep DEF PartsNext, partsVars, feedVars
<1>3. Inv => AlertedOnce
  BY DEF FeedInv, Alerting, AlertedOnce, Feed!AlertedOnce
<1>. QED
  BY <1>1, <1>2, <1>3, PTL DEF PartsSpec

(* The badge counts what the seller has not been shown, as long as all of it *)
(* is on one page and nothing came in between the page and the counter; and  *)
(* nothing is handed to Instagram when the last message of the customer is   *)
(* too old: for any senders, page and window.                                *)
THEOREM InboxStaysRight == PartsSpec => []InboxIsRight
<1>. DEFINE Inv == part = "inbox" => InboxInv
<1>1. PartsInit => Inv
  BY InboxInitially DEF PartsInit
<1>2. Inv /\ [PartsNext]_partsVars => Inv'
  BY InboxStep DEF PartsNext, partsVars, inboxVars
<1>3. InboxInv => Chat!InboxIsRight
  BY DEF InboxInv, AllowedAt, Chat!InboxIsRight, Chat!WindowKept
<1>4. Inv => InboxIsRight
  BY <1>3 DEF InboxIsRight
<1>. QED
  BY <1>1, <1>2, <1>4, PTL DEF PartsSpec

(* Of each end of access a seller is told at most once before and once after *)
(* it, and when the job of a day is through, who has not changed since it    *)
(* read has had the notice that is due, for any sellers, trial, window and   *)
(* paid periods not shorter than the trial.  The first part leaves out who   *)
(* is forgiven: whose columns were ever written while the job was at work or *)
(* led back to an earlier end (as a rejection after a paid period does), and *)
(* who was being notified when the server died; and who is adjusted: whom an *)
(* admin has given a row that no payment leaves (processLifecycleReminders). *)
THEOREM SellersAreRemindedOnce == PartsSpec => []ToldExactlyOnce
<1>. DEFINE Inv == part = "reminders" => RemindersInv
<1>1. PartsInit => Inv
  BY RemindersInitially DEF PartsInit
<1>2. Inv /\ [PartsNext]_partsVars => Inv'
  BY RemindersStep DEF PartsNext, partsVars, billVars
<1>3. Inv => ToldExactlyOnce
  <2>. SUFFICES ASSUME RemindersInv
                PROVE  Remind!ToldExactlyOnce
    BY DEF ToldExactlyOnce
  <2>1. \A s \in Sellers \ (forgiven \cup adjusted), k \in Remind!Kinds, e \in Remind!Ends :
          notices[s][k][e] <= 1
    BY DEF RemindersInv, ToldOnce, Remind!Kinds, Remind!Ends, Ends
  <2>2. ~due => \A s \in Sellers \ changed : Through(s)
    BY DEF RemindersInv, NobodyForgotten
  <2>. QED
    BY <2>1, <2>2 DEF Remind!ToldExactlyOnce, Through, Told
<1>. HIDE DEF Inv
<1>. QED
  BY <1>1, <1>2, <1>3, PTL DEF PartsSpec

(* Whatever slots a customer is shown are of a time of day that they chose   *)
(* for the day and the person at hand, for any flow of the seller's own, any *)
(* team, hours and clock ("Clear stale booking fields when customer picks a  *)
(* retry menu option").                                                      *)
THEOREM OffersFollowChoices == PartsSpec => []PeriodWasChosen
<1>. DEFINE Inv == part = "talk" => TalkInv
<1>1. PartsInit => Inv
  BY TalkInitially DEF PartsInit
<1>2. Inv /\ [PartsNext]_partsVars => Inv'
  BY TalkStep DEF PartsNext, partsVars, talkVars
<1>3. Inv => PeriodWasChosen
  BY DEF TalkInv, PeriodWasChosen, Talk!PeriodWasChosen
<1>. HIDE DEF Inv
<1>. QED
  BY <1>1, <1>2, <1>3, PTL DEF PartsSpec

(* Each slot of a schedule is run if a tick within reach of it goes through  *)
(* and nobody edits the flow meanwhile, and twice at most; a call starts one *)
(* execution at most: for any schedule whose slots are far enough apart, any *)
(* number of servers, editors, deliveries and lost ticks (shouldRunNow,      *)
(* claimWebhookIdempotency).                                                 *)
THEOREM SchedulesAreKept == PartsSpec => []StartedAsDue
<1>. DEFINE Inv == part = "triggers" => TriggerInv
<1>1. PartsInit => Inv
  BY TriggerInitially DEF PartsInit
<1>2. Inv /\ [PartsNext]_partsVars => Inv'
  BY TriggerStep DEF PartsNext, partsVars, triggerVars
<1>3. Inv => StartedAsDue
  BY TriggersAreRight DEF StartedAsDue
<1>. HIDE DEF Inv
<1>. QED
  BY <1>1, <1>2, <1>3, PTL DEF PartsSpec
=============================================================================
