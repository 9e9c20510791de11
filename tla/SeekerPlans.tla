---------------------------- MODULE SeekerPlans ----------------------------
(***************************************************************************)
(* How a job seeker pays for the career assistant, and what that gives:    *)
(* CareerSeekerBillingService (Razorpay links of the seller's own          *)
(* account), CareerSeekerManualPaymentService (UPI references that the     *)
(* seller reviews) and the career branch of ManualPaymentExpiryService.    *)
(* All of them write the same four columns of one career_profiles row.     *)
(*                                                                         *)
(* The seller chooses the payment mode: one of the two ways, or both.      *)
(* One handler of the UPI side is in flight at a time (ManualPayments has  *)
(* them overlap over the same statements), and events of the provider and  *)
(* returns from its checkout come between any two of its statements.       *)
(* Plans and prices are left out: no step decides on them.                 *)
(***************************************************************************)
EXTENDS Integers, Sequences

CONSTANTS
  Modes,          \* payment modes to look at
  Subs,           \* ids of the submissions that may be made
  Utrs,           \* payment references the seeker may type
  Links,          \* ids of the subscriptions that may be created at Razorpay
  NoUtr, NoLink, NoTask,
  MaxEvents,      \* bound on the events of one link
  MaxCrashes      \* bound on process crashes

Status == {"trial", "pending_verification", "active", "past_due", "cancelled",
           "expired"}

Steps == {"create", "mark",                 \* submitManualPayment
          "activate", "record", "close",    \* approveSubmission
          "demote", "refuse", "note",       \* rejectSubmission
          "expire"}                         \* expireCareerSubmission

(* What a handler of the UPI side carries: its submission and what it read.  *)
Task == [at : Steps, sub : Subs, utr : Utrs, seen : Status, trial : BOOLEAN]

ASSUME ConstantsOK ==
  /\ Modes \subseteq {"razorpay", "upi_manual", "both"}
  /\ NoUtr \notin Utrs
  /\ NoLink \notin Links
  /\ NoTask \notin Task
  /\ MaxEvents \in Nat /\ MaxCrashes \in Nat

VARIABLES
  mode,           \* the seller's payment mode, which does not change
  profile,        \* the billing columns of the seeker's row
  trial,          \* whether trialEndsAt is still in the future
  sub,            \* the payment_submissions rows
  stale,          \* submissions older than the verification window
  ledger,         \* billing_transactions of a submission: its event type
  provider,       \* the life of each link at Razorpay
  due,            \* events of each link not yet handled, oldest first
  receipts,       \* links whose payment is in billing_transactions
  task,           \* the UPI handler in flight
  crashes

columns == <<profile, trial>>
reviews == <<sub, stale, ledger>>
online == <<provider, due, receipts>>
vars == <<mode, columns, reviews, online, task, crashes>>

Profile == [status : Status, paid : {"none", "running", "ended"},
            link : Links \cup {NoLink}, cancelAtEnd : BOOLEAN]

Init ==
  /\ mode \in Modes
  /\ profile = [status |-> "trial", paid |-> "none", link |-> NoLink,
                cancelAtEnd |-> FALSE]
  /\ trial = TRUE
  /\ sub = [s \in Subs |-> [status |-> "none", utr |-> NoUtr]]
  /\ stale = {}
  /\ ledger = [s \in Subs |-> "none"]
  /\ provider = [l \in Links |-> "none"]
  /\ due = [l \in Links |-> << >>]
  /\ receipts = {}
  /\ task = NoTask
  /\ crashes = 0

Running == profile.paid = "running"

(* Mutant of Resolved: a failed charge ends access at once.                  *)
ResolvedWithoutGrace ==
  CASE profile.status = "active" /\ Running -> "active"
    [] profile.status \in {"pending_verification", "cancelled"} -> profile.status
    [] OTHER -> IF trial THEN "trial" ELSE "expired"

(* resolveStatus: what the columns amount to now.                            *)
Resolved ==
  CASE profile.status = "active" /\ Running -> "active"
    [] profile.status \in {"pending_verification", "past_due", "cancelled"} ->
         profile.status
    [] OTHER -> IF trial THEN "trial" ELSE "expired"

HasAccess ==
  \/ Resolved \in {"active", "trial"}
  \/ Resolved \in {"past_due", "cancelled"} /\ Running

-----------------------------------------------------------------------------
(* Razorpay: the life of a link is external; what it tells us is due.        *)
Happens(l, from, to, event) ==
  /\ provider[l] \in from
  /\ Len(due[l]) < MaxEvents
  /\ provider' = [provider EXCEPT ![l] = to]
  /\ due' = [due EXCEPT ![l] = Append(@, event)]
  /\ UNCHANGED <<mode, columns, reviews, receipts, task, crashes>>

Provider(l) ==
  \/ Happens(l, {"created"}, "authenticated", "authenticated")
  \/ Happens(l, {"authenticated", "active", "retrying"}, "active", "charged")
  \/ Happens(l, {"authenticated", "active"}, "retrying", "pending")
  \/ Happens(l, {"retrying"}, "halted", "halted")
  \/ Happens(l, {"active", "retrying", "halted", "ending"}, "cancelled", "cancelled")

(* createSubscription: whoever has no active plan gets a new link, and its   *)
(* id replaces the one on the row.                                           *)
CreateLink(l) ==
  /\ mode # "upi_manual"
  /\ Resolved # "active"
  /\ provider[l] = "none"
  /\ provider' = [provider EXCEPT ![l] = "created"]
  /\ profile' = [profile EXCEPT !.link = l]
  /\ UNCHANGED <<mode, trial, reviews, due, receipts, task, crashes>>

Activated(l) ==
  [status |-> "active", paid |-> "running", link |-> l, cancelAtEnd |-> FALSE]

Live == {"authenticated", "active", "retrying", "halted", "ending"}

(* activateFromCheckout: the browser comes back with a signed payment.       *)
Checkout(l) ==
  /\ provider[l] \in Live
  /\ l \notin receipts
  /\ profile.link \in {NoLink, l}
  /\ profile' = Activated(l)
  /\ receipts' = receipts \cup {l}
  /\ UNCHANGED <<mode, trial, reviews, provider, due, task, crashes>>

(* cancelSubscription: at the end of the cycle, if the provider agrees.      *)
Cancel ==
  /\ profile.link # NoLink
  /\ provider[profile.link] = "active"
  /\ provider' = [provider EXCEPT ![profile.link] = "ending"]
  /\ profile' = [profile EXCEPT !.cancelAtEnd = TRUE]
  /\ UNCHANGED <<mode, trial, reviews, due, receipts, task, crashes>>

(* Mutant of Addressed: only the id on the row is looked for.                *)
AddressedById(l) == profile.link = l

(* handleWebhookEvent: the row with the event's subscription, else the one   *)
(* that createSubscription named in the notes of the link.                   *)
Addressed(l) == profile.link = l \/ provider[l] # "none"

(* applySubscriptionEvent.                                                   *)
Applied(l, event) ==
  CASE event \in {"authenticated", "charged"} -> Activated(l)
    [] event \in {"pending", "halted"} -> [profile EXCEPT !.status = "past_due"]
    [] event = "cancelled" -> [profile EXCEPT !.status = "cancelled",
                                              !.cancelAtEnd = FALSE]

(* recordSeekerTransaction: a payment is inserted unless it is there.        *)
Receipts(l, event) == IF event = "charged" THEN receipts \cup {l} ELSE receipts

(* handleWebhookWithSignature: one event is handled.                         *)
Deliver(l) ==
  /\ due[l] # << >>
  /\ due' = [due EXCEPT ![l] = Tail(@)]
  /\ IF Addressed(l)
     THEN /\ profile' = Applied(l, Head(due[l]))
          /\ receipts' = Receipts(l, Head(due[l]))
     ELSE UNCHANGED <<profile, receipts>>
  /\ UNCHANGED <<mode, trial, reviews, provider, task, crashes>>

-----------------------------------------------------------------------------
Pending == {s \in Subs : sub[s].status = "pending"}

SameUtr(t, statuses) == {s \in Subs : sub[s].utr = t /\ sub[s].status \in statuses}

Reading(step, s, t) ==
  task' = [at |-> step, sub |-> s, utr |-> t, seen |-> profile.status, trial |-> trial]

At(step) == task # NoTask /\ task.at = step

Goto(step) == task' = [task EXCEPT !.at = step]

Paid(columnsNow, status, period) == [columnsNow EXCEPT !.status = status, !.paid = period]

Demoted(trialStillValid) ==
  Paid(profile, IF trialStillValid THEN "trial" ELSE "expired", "none")

(* submitManualPayment, which first expires what is stale.                   *)
BeginSubmit(s, t) ==
  /\ mode # "razorpay"
  /\ task = NoTask
  /\ Pending \cap stale = {}
  /\ Resolved \notin {"active", "pending_verification"}
  /\ sub[s].status = "none"
  /\ SameUtr(t, {"pending", "approved"}) = {}
  /\ Reading("create", s, t)
  /\ UNCHANGED <<mode, columns, reviews, online, crashes>>

CreateSubmission ==
  /\ At("create")
  /\ sub' = [sub EXCEPT ![task.sub] = [status |-> "pending", utr |-> task.utr]]
  /\ Goto("mark")
  /\ UNCHANGED <<mode, columns, stale, ledger, online, crashes>>

MarkProfile ==
  /\ At("mark")
  /\ profile' = [profile EXCEPT !.status = "pending_verification"]
  /\ task' = NoTask
  /\ UNCHANGED <<mode, trial, reviews, online, crashes>>

(* approveSubmission: activate, record, close.                               *)
BeginApprove(s) ==
  /\ task = NoTask
  /\ s \in Pending
  /\ SameUtr(sub[s].utr, {"approved"}) = {}
  /\ Reading("activate", s, sub[s].utr)
  /\ UNCHANGED <<mode, columns, reviews, online, crashes>>

Activate ==
  /\ At("activate")
  /\ profile' = [Paid(profile, "active", "running") EXCEPT !.cancelAtEnd = FALSE]
  /\ Goto("record")
  /\ UNCHANGED <<mode, trial, reviews, online, crashes>>

(* recordManualSeekerTransaction: one row per submission, the first one.     *)
Record(eventType, next) ==
  /\ ledger' = [ledger EXCEPT ![task.sub] = IF @ = "none" THEN eventType ELSE @]
  /\ task' = next
  /\ UNCHANGED <<mode, columns, sub, stale, online, crashes>>

RecordApproval == At("record") /\ Record("approved", [task EXCEPT !.at = "close"])

Decide(verdict, next) ==
  /\ sub' = [sub EXCEPT ![task.sub].status = verdict]
  /\ task' = next
  /\ UNCHANGED <<mode, columns, stale, ledger, online, crashes>>

Close == At("close") /\ Decide("approved", NoTask)

(* rejectSubmission: demote whatever the seeker has become, refuse, note.    *)
BeginReject(s) ==
  /\ task = NoTask
  /\ s \in Pending
  /\ Reading("demote", s, sub[s].utr)
  /\ UNCHANGED <<mode, columns, reviews, online, crashes>>

Demote ==
  /\ At("demote")
  /\ profile' = Demoted(task.trial)
  /\ Goto("refuse")
  /\ UNCHANGED <<mode, trial, reviews, online, crashes>>

Refuse == At("refuse") /\ Decide("rejected", [task EXCEPT !.at = "note"])

RecordRejection == At("note") /\ Record("rejected", NoTask)

(* expireCareerSubmission, by the daily job or when the seeker looks.        *)
BeginExpire(s) ==
  /\ task = NoTask
  /\ s \in Pending \cap stale
  /\ Reading("expire", s, sub[s].utr)
  /\ UNCHANGED <<mode, columns, reviews, online, crashes>>

(* Mutant of Expire: only the submission is closed.                          *)
ExpireSubmissionOnly ==
  /\ At("expire")
  /\ sub' = [sub EXCEPT ![task.sub].status = "expired"]
  /\ task' = NoTask
  /\ UNCHANGED <<mode, columns, stale, ledger, online, crashes>>

Expire ==
  /\ At("expire")
  /\ sub' = [sub EXCEPT ![task.sub].status = "expired"]
  /\ profile' = IF task.seen = "pending_verification" /\ Pending = {task.sub}
                THEN Demoted(task.trial) ELSE profile
  /\ task' = NoTask
  /\ UNCHANGED <<mode, trial, stale, ledger, online, crashes>>

-----------------------------------------------------------------------------
Time ==
  \/ /\ trial /\ trial' = FALSE
     /\ UNCHANGED <<mode, profile, reviews, online, task, crashes>>
  \/ /\ Running /\ profile' = [profile EXCEPT !.paid = "ended"]
     /\ UNCHANGED <<mode, trial, reviews, online, task, crashes>>

GrowStale(s) ==
  /\ s \in Pending \ stale
  /\ stale' = stale \cup {s}
  /\ UNCHANGED <<mode, columns, sub, ledger, online, task, crashes>>

Crash ==
  /\ task # NoTask
  /\ crashes < MaxCrashes
  /\ crashes' = crashes + 1
  /\ task' = NoTask
  /\ UNCHANGED <<mode, columns, reviews, online>>

Continue ==
  \/ CreateSubmission \/ MarkProfile
  \/ Activate \/ RecordApproval \/ Close
  \/ Demote \/ Refuse \/ RecordRejection
  \/ Expire

Next ==
  \/ \E l \in Links : Provider(l) \/ CreateLink(l) \/ Checkout(l) \/ Deliver(l)
  \/ Cancel
  \/ \E s \in Subs : \/ \E t \in Utrs : BeginSubmit(s, t)
                     \/ BeginApprove(s) \/ BeginReject(s) \/ BeginExpire(s)
                     \/ GrowStale(s)
  \/ Continue
  \/ Time
  \/ Crash

Spec == Init /\ [][Next]_vars

(* A handler that was started goes on, time passes, and the expiry job runs  *)
(* every day.                                                                *)
Fairness ==
  /\ WF_vars(Continue)
  /\ \A s \in Subs : WF_vars(GrowStale(s)) /\ SF_vars(BeginExpire(s))

FairSpec == Spec /\ Fairness

-----------------------------------------------------------------------------
TypeOK ==
  /\ mode \in Modes
  /\ profile \in Profile
  /\ trial \in BOOLEAN
  /\ sub \in [Subs -> [status : {"none", "pending", "approved", "rejected", "expired"},
                       utr : Utrs \cup {NoUtr}]]
  /\ stale \subseteq Subs
  /\ ledger \in [Subs -> {"none", "approved", "rejected"}]
  /\ provider \in [Links -> {"none", "created", "cancelled"} \cup Live]
  /\ \A l \in Links : Len(due[l]) <= MaxEvents
  /\ receipts \subseteq Links
  /\ task \in Task \cup {NoTask}
  /\ crashes \in 0..MaxCrashes

PaidAccess == HasAccess /\ Running

(* What a seeker paid for lasts: access within the paid period survives      *)
(* failed charges, cancellations and reviews, and only time ends it ("Keep   *)
(* grace access until currentPeriodEnd").  It holds for sellers who offer    *)
(* one way to pay, until a crash leaves an approved payment to be rejected.  *)
PaidAccessKept ==
  [][PaidAccess /\ mode # "both" /\ crashes' = 0 =>
       \/ PaidAccess'
       \/ profile'.paid = "ended"]_vars

(* Whom the provider charges is served, and the payment is in the ledger,    *)
(* once its events have been handled: also when the seeker asked for several *)
(* links and paid an older one.  It holds while one link was paid.           *)
ChargedIsServed ==
  \A l \in Links :
    /\ mode = "razorpay"
    /\ provider[l] = "active" /\ due[l] = << >>
    /\ \A m \in Links \ {l} : provider[m] \in {"none", "created"}
    => /\ l \in receipts
       /\ HasAccess \/ profile.paid = "ended"

(* Nobody stays locked out under review: the seller decides or the window    *)
(* closes, also after a crash ("CareerAI access is paused until approval").  *)
UnderReviewEnds ==
  profile.status = "pending_verification" ~> profile.status # "pending_verification"
=============================================================================
