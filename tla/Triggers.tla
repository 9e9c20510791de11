------------------------------ MODULE Triggers ------------------------------
(***************************************************************************)
(* What starts a flow other than a message: a schedule, looked at every    *)
(* minute (workflow-schedule.service.ts), and calls from outside           *)
(* (workflow-webhook.controller.ts), with the columns that a publication   *)
(* or an edit derives from the flow (workflow-trigger.service.ts,          *)
(* workflows.controller.ts).                                               *)
(*                                                                         *)
(* One flow.  Time stands still within a request except where a tick is    *)
(* held up.                                                                *)
(***************************************************************************)
EXTENDS Integers, Sequences, FiniteSets, FiniteSetsExt

CONSTANTS
  Slots,         \* the times that the flow's schedule names
  Minute,        \* 60 s, 90 s and 55 s
  Reach,
  Recent,
  Delays,        \* how long after the minute a tick may come
  Minutes,       \* bound on the minutes
  Servers,       \* ticks that are handled at the same time
  Editors,       \* edits that are made at the same time
  Deliveries,    \* deliveries of one call from outside
  MaxEdits,      \* bounds
  MaxLost,
  None

VARIABLES
  clock,
  jobs,          \* minutes whose tick waits in the queue
  tick,          \* where each tick is
  flow,          \* the workflows row
  editor,        \* where each edit is
  starts,        \* the executions that the schedule made
  ticked,        \* times of the ticks that went through
  hook,          \* where each delivery of a call is
  claimed,       \* the keys in webhook_idempotency: there is one call by each token
  called,        \* [Tokens -> executions that the call made]
  edits,
  edited,        \* when an edit ended
  crossed,       \* two edits overlapped
  lost

vars == <<clock, jobs, tick, flow, editor, starts, ticked, hook, claimed, called, edits, edited,
          crossed, lost>>

-----------------------------------------------------------------------------
Definitions == {"schedule", "webhook", "message"}

NoTick == [step |-> "idle", at |-> 0]
NoEdit == [step |-> "idle", definition |-> "message", token |-> None, made |-> 0]
NoCall == [step |-> "new", token |-> 0]
Answered == [NoCall EXCEPT !.step = "answered"]

(* Each edit could make a token.                                             *)
Tokens == 1..MaxEdits

(* A draft.                                                                  *)
Init ==
  /\ clock = 0
  /\ jobs = {0}
  /\ tick = [s \in Servers |-> NoTick]
  /\ \E d \in Definitions :
       flow = [definition |-> d, type |-> "message", cron |-> FALSE, token |-> None,
               live |-> FALSE]
  /\ editor = [e \in Editors |-> NoEdit]
  /\ starts = <<>>
  /\ ticked = {}
  /\ hook = [d \in Deliveries |-> NoCall]
  /\ claimed = {}
  /\ called = [t \in Tokens |-> 0]
  /\ edits = 0
  /\ edited = 0
  /\ crossed = FALSE
  /\ lost = 0

tickVars == <<clock, jobs, tick, starts, ticked, lost>>
hookVars == <<hook, claimed, called>>
editVars == <<flow, editor, edits, edited, crossed>>

-----------------------------------------------------------------------------
(* The first statement of an edit; the columns follow with another.          *)
BeginEdit(e, new, step) ==
  /\ editor[e] = NoEdit
  /\ edits < MaxEdits
  /\ edits' = edits + 1
  /\ crossed' = (crossed \/ \E other \in Editors : editor[other] # NoEdit)
  /\ flow' = new
  /\ editor' = [editor EXCEPT ![e] =
                  [step |-> step, definition |-> new.definition, token |-> new.token,
                   made |-> edits']]
  /\ UNCHANGED <<tickVars, hookVars, edited>>

Publish(e) == BeginEdit(e, [flow EXCEPT !.live = TRUE], "derive")
Edit(e, d) == BeginEdit(e, [flow EXCEPT !.definition = d], "derive")
Unpublish(e) == BeginEdit(e, [flow EXCEPT !.live = FALSE], "clear")

EndEdit(e) ==
  /\ editor' = [editor EXCEPT ![e] = NoEdit]
  /\ edited' = clock
  /\ UNCHANGED <<tickVars, hookVars, edits, crossed>>

(* syncFromDefinition, by the row that was read.  A token that is there is   *)
(* kept.                                                                     *)
Derive(e) ==
  LET d == editor[e].definition
  IN /\ editor[e].step = "derive"
     /\ flow' = [flow EXCEPT
          !.type = d, !.cron = (d = "schedule"),
          !.token = CASE d # "webhook" -> None
                      [] d = "webhook" /\ editor[e].token = None -> editor[e].made
                      [] OTHER -> @]
     /\ EndEdit(e)

(* onUnpublished, by id alone.                                               *)
ClearColumns(e) ==
  /\ editor[e].step = "clear"
  /\ flow' = [flow EXCEPT !.token = None, !.cron = FALSE]
  /\ EndEdit(e)

-----------------------------------------------------------------------------
(* A minute begins, or its tick is late, or a tick is held up until into the *)
(* next one.  A server that is down loses the tick of a minute.              *)
Times == {Minute * m + d : m \in 0..Minutes, d \in Delays}

Pass ==
  LET next == {t \in Times : t > clock}
  IN /\ next # {}
     /\ clock' = Min(next)
     /\ clock' % Minute = 0 => jobs = {}
     /\ \A s \in Servers : tick[s] = NoTick \/ clock' < tick[s].at + 2 * Minute
     /\ jobs' = IF clock' % Minute = 0 THEN jobs \cup {clock'} ELSE jobs
     /\ UNCHANGED <<tick, starts, ticked, lost, hookVars, editVars>>

LoseTick ==
  /\ jobs # {} /\ lost < MaxLost
  /\ lost' = lost + 1
  /\ jobs' = jobs \ {Min(jobs)}
  /\ UNCHANGED <<clock, tick, starts, ticked, hookVars, editVars>>

(* processTick reads the flows that are scheduled.                           *)
Scheduled == flow.live /\ flow.type = "schedule" /\ flow.cron

TakeTick(s) ==
  /\ jobs # {} /\ tick[s] = NoTick
  /\ jobs' = jobs \ {Min(jobs)}
  /\ tick' = [tick EXCEPT ![s] = IF Scheduled THEN [step |-> "checks", at |-> clock] ELSE @]
  /\ ticked' = IF Scheduled THEN ticked ELSE ticked \cup {clock}
  /\ UNCHANGED <<clock, starts, lost, hookVars, editVars>>

Last(t) == Max({s \in Slots : s <= t} \cup {-Reach - 1})

(* Mutant of Check: a tick that is a minute late has missed its slot.        *)
CheckSameMinute(s) ==
  LET t == tick[s].at
      runs == t - Last(t) < Minute /\ \A i \in DOMAIN starts : starts[i].at < t - Recent
  IN /\ tick[s].step = "checks"
     /\ tick' = [tick EXCEPT ![s] = IF runs THEN [@ EXCEPT !.step = "starts"] ELSE NoTick]
     /\ ticked' = IF runs THEN ticked ELSE ticked \cup {t}
     /\ UNCHANGED <<clock, jobs, starts, lost, hookVars, editVars>>

(* shouldRunNow: the last slot is near, and nothing ran just now.            *)
Check(s) ==
  LET t == tick[s].at
      runs == t - Last(t) <= Reach /\ \A i \in DOMAIN starts : starts[i].at < t - Recent
  IN /\ tick[s].step = "checks"
     /\ tick' = [tick EXCEPT ![s] = IF runs THEN [@ EXCEPT !.step = "starts"] ELSE NoTick]
     /\ ticked' = IF runs THEN ticked ELSE ticked \cup {t}
     /\ UNCHANGED <<clock, jobs, starts, lost, hookVars, editVars>>

(* runScheduledWorkflow looks at the flow again.                             *)
StartRun(s) ==
  /\ tick[s].step = "starts"
  /\ starts' = IF flow.live /\ flow.type = "schedule"
               THEN Append(starts, [slot |-> Last(tick[s].at), at |-> clock]) ELSE starts
  /\ tick' = [tick EXCEPT ![s] = NoTick]
  /\ ticked' = ticked \cup {tick[s].at}
  /\ UNCHANGED <<clock, jobs, lost, hookVars, editVars>>

-----------------------------------------------------------------------------
(* A call claims its key before it looks for the flow, so a call that found  *)
(* none, or whose owner has not paid, is answered as a duplicate when it is  *)
(* repeated.                                                                 *)
Claim(d, t) ==
  /\ hook[d] = NoCall /\ t <= edits
  /\ hook' = [hook EXCEPT ![d] =
                IF t \in claimed THEN Answered ELSE [step |-> "claimed", token |-> t]]
  /\ claimed' = claimed \cup {t}
  /\ UNCHANGED <<called, tickVars, editVars>>

Invoke(d, paid) ==
  LET found == flow.live /\ flow.type = "webhook" /\ flow.token = hook[d].token
  IN /\ hook[d].step = "claimed"
     /\ hook' = [hook EXCEPT ![d] = Answered]
     /\ called' = IF found /\ paid THEN [called EXCEPT ![hook[d].token] = @ + 1] ELSE called
     /\ UNCHANGED <<claimed, tickVars, editVars>>

Next ==
  \/ Pass \/ LoseTick
  \/ \E s \in Servers : TakeTick(s) \/ Check(s) \/ StartRun(s)
  \/ \E e \in Editors :
       \/ Publish(e) \/ Unpublish(e) \/ Derive(e) \/ ClearColumns(e)
       \/ \E d \in Definitions : Edit(e, d)
  \/ \E d \in Deliveries :
       \/ \E t \in Tokens : Claim(d, t)
       \/ \E paid \in BOOLEAN : Invoke(d, paid)

-----------------------------------------------------------------------------
Runs(slot) == Cardinality({i \in DOMAIN starts : starts[i].slot = slot})

Settled == ~crossed /\ \A e \in Editors : editor[e] = NoEdit

(* A slot of a live flow is run if any tick within the reach of it goes      *)
(* through, even when the tick of its own minute is lost, and it is run      *)
(* twice at most, however the ticks are held up; it takes an edit after the  *)
(* slot, or two edits that overlap, to miss one.  And one call starts one    *)
(* execution at most, however often it is delivered.                         *)
StartedAsDue ==
  /\ \A slot \in Slots :
       /\ Runs(slot) <= 2
       /\ /\ Settled /\ edited < slot /\ flow.live /\ flow.definition = "schedule"
          /\ \E t \in ticked : slot <= t /\ t <= slot + Reach
          => Runs(slot) >= 1
  /\ \A t \in Tokens : called[t] <= 1
=============================================================================
