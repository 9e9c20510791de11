------------------------------ MODULE Reminders ------------------------------
(***************************************************************************)
(* The daily job that reminds sellers before their access ends and tells   *)
(* them when it has (subscription-lifecycle.service.ts, scheduled by       *)
(* billing-pgboss.scheduler.ts), with what payments and admins write to    *)
(* the same columns (manual-payment.service.ts, billing.service.ts,        *)
(* admin.service.ts).                                                      *)
(*                                                                         *)
(* The unit of time is a day.  The job reads every seller at once and then *)
(* goes through what it has read, a notice and a statement at a time.  A   *)
(* mail that fails is logged and counts as sent (billing-notification      *)
(* .service.ts), so the notices are those that were tried.                 *)
(***************************************************************************)
EXTENDS Integers, FiniteSets

CONSTANTS
  Sellers,
  Trial,         \* length of the trial, in days
  Period,        \* of a paid period
  Window,        \* SUBSCRIPTION_EXPIRING_DAYS
  Dates,         \* the dates an admin may choose
  MaxDays,       \* bounds
  MaxChanges,
  MaxDeaths,
  None

VARIABLES
  today,
  row,           \* the users rows
  sweep,         \* what the job has read, and where it is
  due,           \* the job of today has not finished
  notices,       \* [Sellers -> how often each notice was tried]
  changed,       \* who signed up, or whose columns others wrote, since the job read
  forgiven,      \* sellers whose notices may repeat
  adjusted,      \* sellers whom an admin has given what no payment would
  changes,
  deaths

vars == <<today, row, sweep, due, notices, changed, forgiven, adjusted, changes, deaths>>

-----------------------------------------------------------------------------
NewRow == [status |-> "trial", trialEnds |-> Trial, periodEnd |-> None,
           expiringFor |-> None, expiredFor |-> None]

(* The statuses that the job asks the database for.                          *)
Listed == {"trial", "active", "past_due", "cancelled", "expired"}

NoSweep == [read |-> None, left |-> {}, notice |-> None]

Kinds == {"expiring", "expired"}
Ends == 1..(MaxDays + Period)

Init ==
  /\ today = 0
  /\ row = [s \in Sellers |-> NewRow]
  /\ sweep = NoSweep
  /\ due = FALSE
  /\ notices = [s \in Sellers |-> [k \in Kinds |-> [e \in Ends |-> 0]]]
  /\ changed = Sellers
  /\ forgiven = {}
  /\ adjusted = {}
  /\ changes = 0
  /\ deaths = 0

-----------------------------------------------------------------------------
Running(end) == end # None /\ end > today

(* resolveAccessWindow: a paid period comes before the trial.                *)
Access(r) ==
  IF r.status \in {"active", "past_due", "cancelled"} /\ Running(r.periodEnd) THEN r.periodEnd
  ELSE IF r.status # "pending_verification" /\ Running(r.trialEnds) THEN r.trialEnds
  ELSE None

(* resolveExpiredAt.                                                         *)
EndedAt(r) ==
  IF Access(r) # None THEN None
  ELSE IF r.periodEnd # None /\ ~Running(r.periodEnd) THEN r.periodEnd
  ELSE IF ~Running(r.trialEnds) THEN r.trialEnds
  ELSE None

(* Mutant of Wanted: the dates are compared as objects, so none is the same. *)
WantedAgain(r) ==
  IF Access(r) # None /\ Access(r) - today <= Window
  THEN [kind |-> "expiring", end |-> Access(r)]
  ELSE IF EndedAt(r) # None THEN [kind |-> "expired", end |-> EndedAt(r)]
  ELSE None

(* The notice that a row asks for.                                           *)
Wanted(r) ==
  IF Access(r) # None /\ Access(r) - today <= Window /\ r.expiringFor # Access(r)
  THEN [kind |-> "expiring", end |-> Access(r)]
  ELSE IF EndedAt(r) # None /\ r.expiredFor # EndedAt(r)
  THEN [kind |-> "expired", end |-> EndedAt(r)]
  ELSE None

-----------------------------------------------------------------------------
Begin ==
  /\ due /\ sweep = NoSweep
  /\ sweep' = [read |-> row, left |-> {s \in Sellers : row[s].status \in Listed}, notice |-> None]
  /\ changed' = {}
  /\ UNCHANGED <<today, row, due, notices, forgiven, adjusted, changes, deaths>>

Skip(s) ==
  /\ s \in sweep.left /\ sweep.notice = None
  /\ Wanted(sweep.read[s]) = None
  /\ sweep' = [sweep EXCEPT !.left = @ \ {s}]
  /\ UNCHANGED <<today, row, due, notices, changed, forgiven, adjusted, changes, deaths>>

Notify(s) ==
  LET wanted == Wanted(sweep.read[s])
  IN /\ s \in sweep.left /\ sweep.notice = None
     /\ wanted # None
     /\ notices' = [notices EXCEPT ![s][wanted.kind][wanted.end] = @ + 1]
     /\ sweep' = [sweep EXCEPT !.left = @ \ {s},
                               !.notice = [seller |-> s, kind |-> wanted.kind, end |-> wanted.end]]
     /\ UNCHANGED <<today, row, due, changed, forgiven, adjusted, changes, deaths>>

(* The columns are written by what was read, whatever they are by now.       *)
Noted(r, read, notice) ==
  IF notice.kind = "expiring" THEN [r EXCEPT !.expiringFor = notice.end]
  ELSE [r EXCEPT !.expiredFor = notice.end,
                 !.status = IF read.status \in {"expired", "cancelled"} THEN @ ELSE "expired"]

Note ==
  LET s == sweep.notice.seller
  IN /\ sweep.notice # None
     /\ row' = [row EXCEPT ![s] = Noted(@, sweep.read[s], sweep.notice)]
     /\ sweep' = [sweep EXCEPT !.notice = None]
     /\ UNCHANGED <<today, due, notices, changed, forgiven, adjusted, changes, deaths>>

End ==
  /\ sweep # NoSweep /\ sweep.left = {} /\ sweep.notice = None
  /\ sweep' = NoSweep
  /\ due' = FALSE
  /\ UNCHANGED <<today, row, notices, changed, forgiven, adjusted, changes, deaths>>

(* The server dies, and the queue delivers the job again.  The notice whose  *)
(* column was not written comes again with it.                               *)
Die ==
  /\ sweep # NoSweep /\ deaths < MaxDeaths
  /\ deaths' = deaths + 1
  /\ forgiven' = IF sweep.notice = None THEN forgiven
                 ELSE forgiven \cup {sweep.notice.seller}
  /\ sweep' = NoSweep
  /\ UNCHANGED <<today, row, due, notices, changed, adjusted, changes>>

NextDay ==
  /\ sweep = NoSweep /\ ~due
  /\ today < MaxDays
  /\ today' = today + 1
  /\ due' = TRUE
  /\ UNCHANGED <<row, sweep, notices, changed, forgiven, adjusted, changes, deaths>>

-----------------------------------------------------------------------------
(* The end that a row is about.                                              *)
LastEnd(r) == IF r.periodEnd = None THEN r.trialEnds ELSE r.periodEnd

(* What others write.  A change while the job is at work may be overwritten  *)
(* or misread by it; one that leads back to an earlier end finds what was    *)
(* told of it forgotten, as a column holds one date.                         *)
Change(s, new) ==
  /\ changes < MaxChanges
  /\ changes' = changes + 1
  /\ row' = [row EXCEPT ![s] = new]
  /\ changed' = changed \cup {s}
  /\ forgiven' = IF sweep = NoSweep /\ LastEnd(new) >= LastEnd(row[s]) THEN forgiven
                 ELSE forgiven \cup {s}
  /\ UNCHANGED <<today, sweep, due, notices, deaths>>

(* An approval or a charge: a period from today on.                          *)
Pay(s) ==
  /\ Change(s, [row[s] EXCEPT !.status = "active", !.periodEnd = today + Period])
  /\ UNCHANGED adjusted

Fall(s, status) ==
  /\ row[s].status = "active"
  /\ Change(s, [row[s] EXCEPT !.status = status])
  /\ UNCHANGED adjusted

Submit(s) ==
  /\ row[s].status # "pending_verification"
  /\ row[s].status = "active" => ~Running(row[s].periodEnd)
  /\ Change(s, [row[s] EXCEPT !.status = "pending_verification"])
  /\ UNCHANGED adjusted

(* A rejection forgets the period, too, so the end of the trial is what is   *)
(* told next, even to who was told before.                                   *)
Reject(s) ==
  /\ row[s].status = "pending_verification"
  /\ Change(s, [row[s] EXCEPT !.periodEnd = None,
                  !.status = IF Running(row[s].trialEnds) THEN "trial" ELSE "expired"])
  /\ UNCHANGED adjusted

(* What an admin may make of a row, by each field of a request to            *)
(* updateUserSubscription or updateUserAccess: a period that is granted,     *)
(* extended or dated; a status that ends the period, or one that leaves it   *)
(* (cancel_at_period_end makes who has a period active); a longer trial.     *)
ByHand(r) ==
  {[r EXCEPT !.status = "active", !.periodEnd = d] : d \in Dates \cup {today + Period}}
  \cup {[r EXCEPT !.status = status, !.periodEnd = None] :
           status \in {"trial", "cancelled", "expired"}}
  \cup {[r EXCEPT !.status = status] : status \in {"trial", "active", "pending_verification"}}
  \cup {[r EXCEPT !.status = "trial", !.periodEnd = None, !.trialEnds = d] :
           d \in {d \in Dates : d > today}}

(* A payment or a rejection could have left this row, too.                   *)
Ordinary(r) ==
  /\ r.status = "trial" => r.periodEnd = None /\ Running(r.trialEnds)
  /\ r.status = "active" => Running(r.periodEnd)
  /\ r.trialEnds <= LastEnd(r) /\ LastEnd(r) <= today + Period

Administer(s, new) ==
  /\ Change(s, new)
  /\ adjusted' = IF Ordinary(new) THEN adjusted ELSE adjusted \cup {s}

Next ==
  \/ Begin \/ Note \/ End \/ Die \/ NextDay
  \/ \E s \in Sellers :
       \/ Skip(s) \/ Notify(s) \/ Pay(s) \/ Submit(s) \/ Reject(s)
       \/ \E status \in {"past_due", "cancelled"} : Fall(s, status)
       \/ \E new \in ByHand(row[s]) : Administer(s, new)

-----------------------------------------------------------------------------
(* "Idempotent via billing_expiring_notified_for /                           *)
(* billing_expired_notified_for": an end of access is announced once and     *)
(* told once.  When the job of a day is through, who stayed as they were     *)
(* read has had the notice that is due, and their status says that it is     *)
(* over.  Not so in the code, and left out here:                             *)
(*  - notices of the forgiven may repeat: those whose columns were written   *)
(*    while the job was at work, or led back to an earlier end, as a         *)
(*    rejection after a paid period does, and who was being notified when    *)
(*    the server died;                                                       *)
(*  - of the adjusted, whom an admin put on a trial or a period that is over *)
(*    or longer than what is sold, notices may repeat and the status may     *)
(*    stay;                                                                  *)
(*  - who has changed since the job read waits for the next one.             *)
ToldExactlyOnce ==
  /\ \A s \in Sellers \ (forgiven \cup adjusted), k \in Kinds, e \in Ends :
       notices[s][k][e] <= 1
  /\ ~due => \A s \in Sellers \ changed :
       LET r == row[s]
       IN /\ Access(r) # None /\ Access(r) - today <= Window =>
               notices[s]["expiring"][Access(r)] >= 1
          /\ EndedAt(r) # None /\ r.status # "pending_verification" =>
               /\ notices[s]["expired"][EndedAt(r)] >= 1
               /\ s \notin adjusted => r.status \in {"expired", "cancelled"}
=============================================================================
