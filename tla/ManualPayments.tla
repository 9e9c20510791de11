--------------------------- MODULE ManualPayments ---------------------------
(***************************************************************************)
(* UPI payments for the platform plan: a user submits a payment reference  *)
(* (UTR), an admin approves or rejects the submission, a daily job expires *)
(* the ones nobody decided, and each of them rewrites the user's           *)
(* subscription columns.  ManualPaymentService, ManualPaymentExpiryService *)
(* and the other writers of those columns: SubscriptionLifecycleService's  *)
(* daily sweep, the payment provider's events and the admin's edits.       *)
(*                                                                         *)
(* A handler is a task: it reads, checks and writes in separate statements *)
(* with no transaction around them (expiry's write is the exception), and  *)
(* carries from statement to statement what it has read.                   *)
(* "platform" and "website" submissions run the same code on columns of    *)
(* their own; this module is the platform's.                               *)
(***************************************************************************)
EXTENDS Integers

CONSTANTS
  Users,          \* accounts
  Subs,           \* ids of the submissions that may be made
  Utrs,           \* payment references a user may type
  Tasks,          \* handler activations that may be in flight at once
  NoTask,         \* a free activation
  NoUser, NoUtr,  \* the columns of a submission that does not exist yet
  MaxCrashes,     \* bound on process crashes
  MaxEvents       \* bound on provider events and admin edits

Steps == {"check", "create", "mark",                 \* submitManualPayment
          "conflict", "activate", "record", "close", \* approveSubmission
          "demote", "refuse", "note",                \* rejectSubmission
          "expire",                                  \* expireSubmission
          "sweep"}                                   \* processLifecycleReminders

Status == {"trial", "pending_verification", "active", "past_due", "cancelled",
           "expired"}

(* What a task carries: where it is, the rows it works on, and the user's    *)
(* status and trial as it read them.  'sub' is any submission before one is  *)
(* created, and in a sweep.                                                  *)
Task == [at : Steps, user : Users, sub : Subs, utr : Utrs \cup {NoUtr},
         seen : Status, trial : BOOLEAN]

ASSUME ConstantsOK ==
  /\ MaxCrashes \in Nat
  /\ MaxEvents \in Nat
  /\ NoUser \notin Users
  /\ NoUtr \notin Utrs
  /\ NoTask \notin Task

VARIABLES
  user,           \* the subscription columns of each user
  trial,          \* whether trialEndsAt is still in the future
  sub,            \* the payment_submissions rows
  stale,          \* submissions older than the verification window
  ledger,         \* billing_transactions written for a submission, by verdict
  task,           \* the handlers in flight
  crashes, events

rows == <<user, trial, sub, stale, ledger>>
vars == <<rows, task, crashes, events>>

-----------------------------------------------------------------------------
Period == {"none", "running", "ended"}         \* currentPeriodEnd against now

Verdicts == {"approved", "rejected", "expired"}

Account == [status : Status, paid : Period]

Submission == [status : {"none", "pending"} \cup Verdicts,
               user : Users \cup {NoUser}, utr : Utrs \cup {NoUtr}]

NoSubmission == [status |-> "none", user |-> NoUser, utr |-> NoUtr]

Init ==
  /\ user = [u \in Users |-> [status |-> "trial", paid |-> "none"]]
  /\ trial \in [Users -> BOOLEAN]
  /\ sub = [s \in Subs |-> NoSubmission]
  /\ stale = {}
  /\ ledger = [s \in Subs |-> [approved |-> 0, rejected |-> 0]]
  /\ task = [h \in Tasks |-> NoTask]
  /\ crashes = 0
  /\ events = 0

(* BillingService.resolveStatus: what the columns amount to now.             *)
Standing(u) ==
  CASE user[u].status = "active" /\ user[u].paid = "running" -> "active"
    [] user[u].status \in {"pending_verification", "past_due", "cancelled"} ->
         user[u].status
    [] OTHER -> IF trial[u] THEN "trial" ELSE "expired"

(* The columns a user falls back to when a payment is refused or expires.    *)
Demoted(trialStillValid) ==
  [status |-> IF trialStillValid THEN "trial" ELSE "expired", paid |-> "none"]

-----------------------------------------------------------------------------
Free(h) == task[h] = NoTask

At(h, step) == /\ ~Free(h)
               /\ task[h].at = step

Goto(h, step) == task' = [task EXCEPT ![h].at = step]

End(h) == task' = [task EXCEPT ![h] = NoTask]

Quiet == UNCHANGED <<crashes, events>>

Pending(s) == sub[s].status = "pending"

(* submitManualPayment: read the user, look for the same UTR, insert the     *)
(* submission, then mark the user.                                           *)
BeginSubmit(h, u, t) ==
  /\ Free(h)
  /\ Standing(u) \notin {"active", "pending_verification"}
  /\ \E s \in Subs :
       /\ sub[s].status = "none"
       /\ task' = [task EXCEPT ![h] =
            [at |-> "check", user |-> u, sub |-> s, utr |-> t,
             seen |-> user[u].status, trial |-> trial[u]]]
  /\ UNCHANGED rows /\ Quiet

SameUtr(t, statuses) == {s \in Subs : sub[s].utr = t /\ sub[s].status \in statuses}

CheckUtr(h) ==
  /\ At(h, "check")
  /\ IF SameUtr(task[h].utr, {"pending", "approved"}) # {}
     THEN End(h)
     ELSE Goto(h, "create")
  /\ UNCHANGED rows /\ Quiet

CreateSubmission(h) ==
  /\ At(h, "create")
  /\ \E s \in Subs :
       /\ sub[s].status = "none"
       /\ sub' = [sub EXCEPT ![s] = [status |-> "pending", user |-> task[h].user,
                                     utr |-> task[h].utr]]
       /\ task' = [task EXCEPT ![h] = [@ EXCEPT !.at = "mark", !.sub = s]]
  /\ UNCHANGED <<user, trial, stale, ledger>> /\ Quiet

MarkUser(h) ==
  /\ At(h, "mark")
  /\ user' = [user EXCEPT ![task[h].user].status = "pending_verification"]
  /\ End(h)
  /\ UNCHANGED <<trial, sub, stale, ledger>> /\ Quiet

-----------------------------------------------------------------------------
(* A review starts on a pending submission, with what it reads of the user.  *)
Take(h, s, step) ==
  /\ Free(h)
  /\ Pending(s)
  /\ task' = [task EXCEPT ![h] =
       [at |-> step, user |-> sub[s].user, sub |-> s, utr |-> sub[s].utr,
        seen |-> user[sub[s].user].status, trial |-> trial[sub[s].user]]]
  /\ UNCHANGED rows /\ Quiet

BeginApprove(h, s) == Take(h, s, "conflict")

CheckConflict(h) ==
  /\ At(h, "conflict")
  /\ IF SameUtr(task[h].utr, {"approved"}) \ {task[h].sub} # {}
     THEN End(h)
     ELSE Goto(h, "activate")
  /\ UNCHANGED rows /\ Quiet

Activate(h) ==
  /\ At(h, "activate")
  /\ user' = [user EXCEPT ![task[h].user] = [status |-> "active", paid |-> "running"]]
  /\ Goto(h, "record")
  /\ UNCHANGED <<trial, sub, stale, ledger>> /\ Quiet

RecordApproval(h) ==
  /\ At(h, "record")
  /\ ledger' = [ledger EXCEPT ![task[h].sub].approved = @ + 1]
  /\ Goto(h, "close")
  /\ UNCHANGED <<user, trial, sub, stale>> /\ Quiet

MarkApproved(h) ==
  /\ At(h, "close")
  /\ sub' = [sub EXCEPT ![task[h].sub].status = "approved"]
  /\ End(h)
  /\ UNCHANGED <<user, trial, stale, ledger>> /\ Quiet

(* rejectSubmission: demote the user, close the submission, record it.       *)
BeginReject(h, s) == Take(h, s, "demote")

Demote(h) ==
  /\ At(h, "demote")
  /\ user' = [user EXCEPT ![task[h].user] = Demoted(task[h].trial)]
  /\ Goto(h, "refuse")
  /\ UNCHANGED <<trial, sub, stale, ledger>> /\ Quiet

MarkRejected(h) ==
  /\ At(h, "refuse")
  /\ sub' = [sub EXCEPT ![task[h].sub].status = "rejected"]
  /\ Goto(h, "note")
  /\ UNCHANGED <<user, trial, stale, ledger>> /\ Quiet

RecordRejection(h) ==
  /\ At(h, "note")
  /\ ledger' = [ledger EXCEPT ![task[h].sub].rejected = @ + 1]
  /\ End(h)
  /\ UNCHANGED <<user, trial, sub, stale>> /\ Quiet

-----------------------------------------------------------------------------
(* Mutant of BeginExpire: only users who read as under review are looked at. *)
BeginExpireUnderReview(h, s) ==
  /\ s \in stale
  /\ Pending(s) /\ user[sub[s].user].status = "pending_verification"
  /\ Take(h, s, "expire")

(* expireSubmission, from the daily job or from any call of getStatus.       *)
BeginExpire(h, s) == s \in stale /\ Take(h, s, "expire")

(* One transaction; the user's status is the one read before it began.       *)
Expire(h) ==
  /\ At(h, "expire")
  /\ sub' = [sub EXCEPT ![task[h].sub].status = "expired"]
  /\ LET u == task[h].user
         others == {s \in Subs \ {task[h].sub} : Pending(s) /\ sub[s].user = u}
     IN user' = IF task[h].seen = "pending_verification" /\ others = {}
                THEN [user EXCEPT ![u] = Demoted(task[h].trial)]
                ELSE user
  /\ End(h)
  /\ UNCHANGED <<trial, stale, ledger>> /\ Quiet

(* Mutant of BeginSweep: the end of the trial decides for paying users too.  *)
BeginSweepOnTrial(h, u) ==
  /\ Free(h)
  /\ user[u].status \in {"trial", "active", "past_due"}
  /\ ~trial[u]
  /\ \E s \in Subs :
       task' = [task EXCEPT ![h] =
         [at |-> "sweep", user |-> u, sub |-> s, utr |-> NoUtr,
          seen |-> user[u].status, trial |-> FALSE]]
  /\ UNCHANGED rows /\ Quiet

(* processLifecycleReminders reads every account first; when it gets to one  *)
(* whose access was over, it writes what it read to be so.  An account that  *)
(* already reads expired or cancelled keeps its status.                      *)
BeginSweep(h, u) ==
  /\ Free(h)
  /\ user[u].status \in {"trial", "active", "past_due"}
  /\ user[u].paid # "running" \/ user[u].status = "trial"
  /\ ~trial[u]
  /\ \E s \in Subs :
       task' = [task EXCEPT ![h] =
         [at |-> "sweep", user |-> u, sub |-> s, utr |-> NoUtr,
          seen |-> user[u].status, trial |-> FALSE]]
  /\ UNCHANGED rows /\ Quiet

Sweep(h) ==
  /\ At(h, "sweep")
  /\ user' = [user EXCEPT ![task[h].user].status = "expired"]
  /\ End(h)
  /\ UNCHANGED <<trial, sub, stale, ledger>> /\ Quiet

-----------------------------------------------------------------------------
(* Time passes.                                                              *)
GrowStale(s) ==
  /\ Pending(s) /\ s \notin stale
  /\ stale' = stale \cup {s}
  /\ UNCHANGED <<user, trial, sub, ledger, task>> /\ Quiet

EndTrial(u) ==
  /\ trial[u]
  /\ trial' = [trial EXCEPT ![u] = FALSE]
  /\ UNCHANGED <<user, sub, stale, ledger, task>> /\ Quiet

EndPeriod(u) ==
  /\ user[u].paid = "running"
  /\ user' = [user EXCEPT ![u].paid = "ended"]
  /\ UNCHANGED <<trial, sub, stale, ledger, task>> /\ Quiet

Event(u, account) ==
  /\ events < MaxEvents
  /\ events' = events + 1
  /\ user' = [user EXCEPT ![u] = account]
  /\ UNCHANGED <<sub, stale, ledger, task, crashes>>

(* applySubscriptionEvent: one blind update per provider event.              *)
ProviderEvent(u) ==
  /\ \/ Event(u, [status |-> "active", paid |-> "running"])
     \/ \E s \in {"past_due", "cancelled"} :
          Event(u, [user[u] EXCEPT !.status = s])
  /\ UNCHANGED trial

(* updateUserSubscription and the admin's user editor.                       *)
AdminEdit(u) ==
  \/ /\ \E p \in {"running", "ended"} : Event(u, [status |-> "active", paid |-> p])
     /\ UNCHANGED trial
  \/ /\ \E s \in {"trial", "cancelled", "expired"} :
          Event(u, [status |-> s, paid |-> "none"])
     /\ UNCHANGED trial
  \/ /\ Event(u, [user[u] EXCEPT !.status = "pending_verification"])
     /\ UNCHANGED trial
  \/ /\ Event(u, [status |-> "trial", paid |-> "none"])
     /\ trial' = [trial EXCEPT ![u] = TRUE]

(* The process stops between two statements.                                 *)
Crash ==
  /\ crashes < MaxCrashes
  /\ \E h \in Tasks : ~Free(h)
  /\ crashes' = crashes + 1
  /\ task' = [h \in Tasks |-> NoTask]
  /\ UNCHANGED <<rows, events>>

-----------------------------------------------------------------------------
Continue(h) ==
  \/ CheckUtr(h) \/ CreateSubmission(h) \/ MarkUser(h)
  \/ CheckConflict(h) \/ Activate(h) \/ RecordApproval(h) \/ MarkApproved(h)
  \/ Demote(h) \/ MarkRejected(h) \/ RecordRejection(h)
  \/ Expire(h) \/ Sweep(h)

Next ==
  \/ \E h \in Tasks :
       \/ \E u \in Users, t \in Utrs : BeginSubmit(h, u, t)
       \/ \E s \in Subs : \/ BeginApprove(h, s)
                          \/ BeginReject(h, s)
                          \/ BeginExpire(h, s)
       \/ \E u \in Users : BeginSweep(h, u)
       \/ Continue(h)
  \/ \E s \in Subs : GrowStale(s)
  \/ \E u \in Users : EndTrial(u) \/ EndPeriod(u) \/ ProviderEvent(u) \/ AdminEdit(u)
  \/ Crash

Spec == Init /\ [][Next]_vars

(* A handler that was started goes on; time passes; and the expiry job runs  *)
(* every day, so a stale submission cannot be passed over for ever.  Strong  *)
(* fairness, because Tasks bounds what the server does at once and a free    *)
(* activation comes and goes.                                                *)
Fairness ==
  /\ \A h \in Tasks : WF_vars(Continue(h))
  /\ \A s \in Subs : /\ WF_vars(GrowStale(s))
                     /\ SF_vars(\E h \in Tasks : BeginExpire(h, s))

FairSpec == Spec /\ Fairness

-----------------------------------------------------------------------------
TypeOK ==
  /\ user \in [Users -> Account]
  /\ trial \in [Users -> BOOLEAN]
  /\ sub \in [Subs -> Submission]
  /\ stale \subseteq Subs
  /\ ledger \in [Subs -> [approved : Nat, rejected : Nat]]
  /\ task \in [Tasks -> Task \cup {NoTask}]
  /\ crashes \in Nat
  /\ events \in Nat

(* An approval is never on file without its transaction: whatever handlers   *)
(* overlap and wherever the process stops, a submission that reads approved  *)
(* has a manual.approved row in billing_transactions.                        *)
ApprovedIsRecorded ==
  \A s \in Subs : sub[s].status = "approved" => ledger[s].approved >= 1

(* No payment waits for ever: the admin decides it or the daily job expires  *)
(* it, also after the process crashed between its insert and its user.       *)
ReviewEnds == \A s \in Subs : Pending(s) ~> sub[s].status \in Verdicts
=============================================================================
