------------------------- MODULE SeekerPlansProofs -------------------------
(***************************************************************************)
(* What holds of a seeker's plan for any links, submissions, references,   *)
(* events and crashes: the types; that whom the provider charges is        *)
(* served; and that what was paid for is kept, until time ends it.         *)
(***************************************************************************)
EXTENDS SeekerPlans, TLAPS

Events == {"authenticated", "charged", "pending", "halted", "cancelled"}

Submission == [status : {"none", "pending", "approved", "rejected", "expired"},
               utr : Utrs \cup {NoUtr}]

(* The types; a submission that was made has its reference, and the handler  *)
(* of a review is about one that was.                                        *)
Shape ==
  /\ mode \in Modes
  /\ profile \in Profile
  /\ trial \in BOOLEAN
  /\ sub \in [Subs -> Submission]
  /\ \A s \in Subs : sub[s].status # "none" => sub[s].utr \in Utrs
  /\ stale \subseteq Subs
  /\ ledger \in [Subs -> {"none", "approved", "rejected"}]
  /\ provider \in [Links -> {"none", "created", "cancelled"} \cup Live]
  /\ due \in [Links -> Seq(Events)]
  /\ \A l \in Links : Len(due[l]) <= MaxEvents
  /\ receipts \subseteq Links
  /\ task \in Task \cup {NoTask}
  /\ task # NoTask /\ task.at # "create" => sub[task.sub].status # "none"
  /\ crashes \in 0..MaxCrashes

-----------------------------------------------------------------------------
(* Nothing has come of a link that was not paid.                             *)
Unpaid(l) == provider[l] \in {"none", "created"}

Untold == \A l \in Links : Unpaid(l) => due[l] = << >>

(* The last that a link which is charged has told, or is still to tell, is   *)
(* that it was charged.                                                      *)
LastWord ==
  \A l \in Links : provider[l] = "active" /\ due[l] # << >> =>
                     due[l][Len(due[l])] = "charged"

(* Who has been served once stays so while no other link is paid.            *)
Served ==
  \A l \in Links :
    /\ provider[l] = "active" /\ due[l] = << >>
    /\ \A m \in Links \ {l} : Unpaid(m)
    => l \in receipts /\ profile.status = "active" /\ profile.paid \in {"running", "ended"}

(* Nobody submits a payment where the seller takes none.                     *)
NoReviews == task = NoTask /\ Pending = {}

ChargedInv == mode = "razorpay" => NoReviews /\ Untold /\ LastWord /\ Served

-----------------------------------------------------------------------------
(* Who never paid, or was demoted, has no period.                            *)
NoPeriod == profile.status \in {"trial", "expired"} => profile.paid = "none"

(* Where payments are reviewed, and no review was cut short, there is one    *)
(* submission at most; until it has been approved the seeker has no access   *)
(* to lose.                                                                  *)
OneReview ==
  /\ task = NoTask => \/ Pending = {}
                      \/ /\ profile.status = "pending_verification"
                         /\ \E s \in Subs : Pending = {s}
  /\ At("create") => /\ Pending = {} /\ ~Running
                     /\ profile.status # "pending_verification"
  /\ At("mark") => Pending = {task.sub} /\ ~Running
  /\ At("activate") \/ At("demote") \/ At("expire") =>
       Pending = {task.sub} /\ profile.status = "pending_verification"
  /\ At("record") \/ At("close") \/ At("refuse") => Pending = {task.sub}
  /\ At("note") => Pending = {}

NoLinks == \A l \in Links : provider[l] = "none" /\ due[l] = << >>

ReviewInv == mode = "upi_manual" =>
               /\ NoLinks
               /\ profile.status \notin {"past_due", "cancelled"}
               /\ crashes = 0 => OneReview

KeepInv == NoPeriod /\ (mode = "razorpay" => NoReviews) /\ ReviewInv

-----------------------------------------------------------------------------
(* Types.                                                                    *)
LEMMA TaskFacts ==
  ASSUME Shape, task # NoTask
  PROVE  /\ task \in Task /\ task.at \in Steps /\ task.sub \in Subs /\ task.utr \in Utrs
         /\ task.seen \in Status /\ task.trial \in BOOLEAN
BY DEF Shape, Task

LEMMA ReadingFacts ==
  ASSUME Shape, NEW step \in Steps, NEW s \in Subs, NEW t \in Utrs, Reading(step, s, t)
  PROVE  task' \in Task /\ task' # NoTask /\ task'.at = step /\ task'.sub = s
BY ConstantsOK DEF Reading, Shape, Profile, Task

LEMMA GotoFacts ==
  ASSUME Shape, task # NoTask, NEW step \in Steps, task' = [task EXCEPT !.at = step]
  PROVE  task' \in Task /\ task' # NoTask /\ task'.at = step /\ task'.sub = task.sub
BY TaskFacts, ConstantsOK DEF Task

LEMMA ProfileFacts ==
  ASSUME Shape
  PROVE  /\ profile.status \in Status /\ profile.paid \in {"none", "running", "ended"}
         /\ profile.link \in Links \cup {NoLink} /\ profile.cancelAtEnd \in BOOLEAN
         /\ \A l \in Links : [profile EXCEPT !.link = l] \in Profile
         /\ \A v \in Status : [profile EXCEPT !.status = v] \in Profile
         /\ \A v \in Status, b \in BOOLEAN : [profile EXCEPT !.status = v, !.cancelAtEnd = b] \in Profile
         /\ \A b \in BOOLEAN : [profile EXCEPT !.cancelAtEnd = b] \in Profile
         /\ [profile EXCEPT !.paid = "ended"] \in Profile
BY DEF Shape, Profile

LEMMA ActivatedFacts ==
  ASSUME NEW l \in Links
  PROVE  /\ Activated(l) \in Profile /\ Activated(l).status = "active"
         /\ Activated(l).paid = "running"
BY DEF Activated, Profile, Status

LEMMA DemotedFacts ==
  ASSUME Shape, NEW t \in BOOLEAN
  PROVE  /\ Demoted(t) \in Profile /\ Demoted(t).status \in {"trial", "expired"}
         /\ Demoted(t).paid = "none"
<1>1. profile \in Profile
  BY DEF Shape
<1>. QED
  BY <1>1 DEF Demoted, Paid, Profile, Status

LEMMA ApprovedFacts ==
  ASSUME Shape
  PROVE  LET r == [Paid(profile, "active", "running") EXCEPT !.cancelAtEnd = FALSE]
         IN r \in Profile /\ r.status = "active" /\ r.paid = "running"
<1>1. profile \in Profile
  BY DEF Shape
<1>. QED
  BY <1>1 DEF Paid, Profile, Status

LEMMA ShapeProvider ==
  ASSUME Shape, NEW l \in Links, Provider(l)
  PROVE  Shape'
<1>1. PICK to \in {"authenticated", "active", "retrying", "halted", "cancelled"}, event \in Events :
        /\ Len(due[l]) < MaxEvents
        /\ provider' = [provider EXCEPT ![l] = to]
        /\ due' = [due EXCEPT ![l] = Append(@, event)]
        /\ UNCHANGED <<mode, columns, reviews, receipts, task, crashes>>
  BY DEF Provider, Happens, Events
<1>2. due[l] \in Seq(Events) /\ Len(due[l]) \in Nat
  BY DEF Shape
<1>3. Append(due[l], event) \in Seq(Events) /\ Len(Append(due[l], event)) = Len(due[l]) + 1
  BY <1>2
<1>4. due' = [due EXCEPT ![l] = Append(due[l], event)]
  BY <1>1
<1>5. due' \in [Links -> Seq(Events)] /\ \A m \in Links : Len(due'[m]) <= MaxEvents
  BY <1>1, <1>2, <1>3, <1>4, ConstantsOK DEF Shape
<1>6. provider' \in [Links -> {"none", "created", "cancelled"} \cup Live]
  BY <1>1 DEF Shape, Live
<1>. QED
  BY <1>1, <1>5, <1>6 DEF Shape, columns, reviews

LEMMA ShapeLinks ==
  ASSUME Shape, NEW l \in Links, CreateLink(l) \/ Checkout(l)
  PROVE  Shape'
BY ProfileFacts, ActivatedFacts DEF Shape, CreateLink, Checkout, reviews

LEMMA ShapeCancel ==
  ASSUME Shape, Cancel
  PROVE  Shape'
BY ProfileFacts DEF Shape, Cancel, reviews, Live

(* An event is taken from the front of those due, which are of the right     *)
(* kind.                                                                     *)
LEMMA HeadFacts ==
  ASSUME Shape, NEW l \in Links, due[l] # << >>
  PROVE  /\ Head(due[l]) \in Events /\ Tail(due[l]) \in Seq(Events)
         /\ Len(Tail(due[l])) = Len(due[l]) - 1 /\ Len(due[l]) \in Nat /\ Len(due[l]) >= 1
         /\ Head(due[l]) = due[l][1]
         /\ \A i \in 1..Len(Tail(due[l])) : Tail(due[l])[i] = due[l][i + 1]
BY DEF Shape

LEMMA AppliedFacts ==
  ASSUME Shape, NEW l \in Links, NEW event \in Events
  PROVE  /\ Applied(l, event) \in Profile
         /\ \/ Applied(l, event) = Activated(l)
            \/ Applied(l, event).status \in {"past_due", "cancelled"}
               /\ Applied(l, event).paid = profile.paid
<1>0. profile \in Profile
  BY DEF Shape
<1>1. CASE event \in {"authenticated", "charged"}
  BY <1>1, ActivatedFacts DEF Applied
<1>2. CASE event \in {"pending", "halted"}
  <2>1. Applied(l, event) = [profile EXCEPT !.status = "past_due"]
    BY <1>2 DEF Applied
  <2>2. Applied(l, event).status = "past_due" /\ Applied(l, event).paid = profile.paid
    BY <1>0, <2>1 DEF Profile
  <2>. QED
    BY <2>1, <2>2, ProfileFacts DEF Status
<1>3. CASE event = "cancelled"
  <2>1. Applied(l, event) = [profile EXCEPT !.status = "cancelled", !.cancelAtEnd = FALSE]
    BY <1>3 DEF Applied
  <2>2. Applied(l, event).status = "cancelled" /\ Applied(l, event).paid = profile.paid
    BY <1>0, <2>1 DEF Profile
  <2>. QED
    BY <2>1, <2>2, ProfileFacts DEF Status
<1>. QED
  BY <1>1, <1>2, <1>3 DEF Events

LEMMA ShapeDeliver ==
  ASSUME Shape, NEW l \in Links, Deliver(l)
  PROVE  Shape'
<1>1. /\ due[l] # << >> /\ due' = [due EXCEPT ![l] = Tail(due[l])]
      /\ UNCHANGED <<mode, trial, reviews, provider, task, crashes>>
      /\ \/ /\ profile' = Applied(l, Head(due[l]))
            /\ receipts' = Receipts(l, Head(due[l]))
         \/ UNCHANGED <<profile, receipts>>
  BY DEF Deliver
<1>2. due' \in [Links -> Seq(Events)] /\ \A m \in Links : Len(due'[m]) <= MaxEvents
  <2>1. Tail(due[l]) \in Seq(Events) /\ Len(Tail(due[l])) <= MaxEvents
    BY <1>1, HeadFacts, ConstantsOK DEF Shape
  <2>. QED
    BY <1>1, <2>1 DEF Shape
<1>3. profile' \in Profile
  BY <1>1, HeadFacts, AppliedFacts DEF Shape
<1>4. receipts' \subseteq Links
  BY <1>1 DEF Receipts, Shape
<1>. QED
  BY <1>1, <1>2, <1>3, <1>4 DEF Shape, reviews

LEMMA ShapeBegin ==
  ASSUME Shape, NEW s \in Subs,
         \/ \E t \in Utrs : BeginSubmit(s, t)
         \/ BeginApprove(s) \/ BeginReject(s) \/ BeginExpire(s)
  PROVE  Shape'
<1>1. s \in Pending => sub[s].utr \in Utrs
  BY DEF Shape, Pending
<1>2. /\ UNCHANGED <<mode, columns, reviews, online, crashes>>
      /\ \E step \in Steps, t \in Utrs :
           Reading(step, s, t) /\ (step # "create" => sub[s].status # "none")
  <2>1. CASE \E t \in Utrs : BeginSubmit(s, t)
    BY <2>1 DEF BeginSubmit, Steps
  <2>2. CASE BeginApprove(s) \/ BeginReject(s) \/ BeginExpire(s)
    BY <1>1, <2>2 DEF BeginApprove, BeginReject, BeginExpire, Steps, Pending
  <2>. QED
    BY <2>1, <2>2
<1>3. task' \in Task /\ (task'.at # "create" => sub[task'.sub].status # "none")
  BY <1>2, ReadingFacts
<1>. QED
  BY <1>2, <1>3 DEF Shape, columns, reviews, online

(* The steps of a handler, with the submission it is about.                  *)
LEMMA SubWritten ==
  ASSUME Shape, NEW s \in Subs, NEW r \in Submission, r.utr \in Utrs,
         sub' = [sub EXCEPT ![s] = r]
  PROVE  /\ sub' \in [Subs -> Submission]
         /\ \A q \in Subs : sub'[q].status # "none" => sub'[q].utr \in Utrs
         /\ sub'[s] = r /\ \A q \in Subs : q # s => sub'[q] = sub[q]
BY DEF Shape

LEMMA ShapeCreate ==
  ASSUME Shape, CreateSubmission
  PROVE  Shape'
<1>. DEFINE r == [status |-> "pending", utr |-> task.utr]
<1>1. /\ task # NoTask /\ sub' = [sub EXCEPT ![task.sub] = r]
      /\ task' = [task EXCEPT !.at = "mark"]
      /\ UNCHANGED <<mode, columns, stale, ledger, online, crashes>>
  BY DEF CreateSubmission, At, Goto
<1>2. r \in Submission /\ r.utr \in Utrs /\ task.sub \in Subs
  BY <1>1, TaskFacts DEF Submission
<1>. HIDE DEF r
<1>3. task' \in Task /\ task'.sub = task.sub
  BY <1>1, GotoFacts DEF Steps
<1>4. sub'[task'.sub].status # "none"
  BY <1>1, <1>2, <1>3, SubWritten DEF r
<1>. QED
  BY <1>1, <1>2, <1>3, <1>4, SubWritten DEF Shape, columns, online

LEMMA Decided ==
  ASSUME Shape, task # NoTask, NEW v \in {"approved", "rejected", "expired"},
         sub' = [sub EXCEPT ![task.sub].status = v],
         sub[task.sub].status # "none"
  PROVE  /\ sub' \in [Subs -> Submission]
         /\ \A q \in Subs : sub'[q].status # "none" => sub'[q].utr \in Utrs
         /\ \A q \in Subs : sub'[q].status = "none" <=> sub[q].status = "none"
         /\ Pending' = Pending \ {task.sub}
<1>. DEFINE r == [sub[task.sub] EXCEPT !.status = v]
<1>1. task.sub \in Subs
  BY TaskFacts
<1>2. sub[task.sub] \in Submission /\ sub[task.sub].utr \in Utrs
  BY <1>1 DEF Shape
<1>3. r \in Submission /\ r.utr \in Utrs /\ r.status = v
  BY <1>2 DEF Submission
<1>4. sub' = [sub EXCEPT ![task.sub] = r]
  OBVIOUS
<1>. HIDE DEF r
<1>. QED
  BY <1>1, <1>3, <1>4, SubWritten DEF Pending

(* A handler goes on, or ends, where sub stays as it is.                     *)
LEMMA ShapeGoesOn ==
  ASSUME Shape, task # NoTask, task.at # "create",
         \/ \E to \in Steps : Goto(to)
         \/ task' = NoTask,
         profile' \in Profile, trial' = trial,
         UNCHANGED <<mode, sub, stale, online, crashes>>,
         ledger' \in [Subs -> {"none", "approved", "rejected"}]
  PROVE  Shape'
<1>1. \/ task' = NoTask
      \/ task' \in Task /\ task'.sub = task.sub
  BY GotoFacts DEF Goto
<1>2. task' \in Task \cup {NoTask}
  BY <1>1
<1>. QED
  BY <1>1, <1>2 DEF Shape, online

LEMMA ShapeDecide ==
  ASSUME Shape, task # NoTask, task.at # "create",
         NEW v \in {"approved", "rejected", "expired"},
         sub' = [sub EXCEPT ![task.sub].status = v],
         \/ \E to \in Steps : Goto(to)
         \/ task' = NoTask,
         profile' \in Profile,
         UNCHANGED <<mode, trial, stale, ledger, online, crashes>>
  PROVE  Shape' /\ Pending' = Pending \ {task.sub}
<1>1. \/ task' = NoTask
      \/ task' \in Task /\ task'.sub = task.sub
  BY GotoFacts DEF Goto
<1>2. sub[task.sub].status # "none" /\ task.sub \in Subs
  BY TaskFacts DEF Shape
<1>3. /\ sub' \in [Subs -> Submission]
      /\ \A q \in Subs : sub'[q].status # "none" => sub'[q].utr \in Utrs
      /\ \A q \in Subs : sub'[q].status = "none" <=> sub[q].status = "none"
      /\ Pending' = Pending \ {task.sub}
  BY <1>2, Decided
<1>4. Shape'
  BY <1>1, <1>2, <1>3 DEF Shape, online
<1>. QED
  BY <1>3, <1>4

LEMMA ShapeContinue ==
  ASSUME Shape, Continue
  PROVE  Shape'
<1>1. CASE CreateSubmission
  BY <1>1, ShapeCreate
<1>2. CASE MarkProfile
  <2>1. profile' \in Profile
    BY <1>2, ProfileFacts DEF MarkProfile, Status
  <2>. QED
    BY <1>2, <2>1, ShapeGoesOn DEF MarkProfile, At, reviews, Shape
<1>3. CASE Activate
  <2>1. profile' \in Profile
    BY <1>3, ApprovedFacts DEF Activate
  <2>. QED
    BY <1>3, <2>1, ShapeGoesOn DEF Activate, At, reviews, Shape, Steps
<1>4. CASE RecordApproval
  <2>1. ledger' \in [Subs -> {"none", "approved", "rejected"}]
    BY <1>4 DEF RecordApproval, Record, Shape
  <2>. QED
    BY <1>4, <2>1, ShapeGoesOn DEF RecordApproval, Record, Goto, At, columns, Shape, Steps
<1>5. CASE Close
  BY <1>5, ShapeDecide DEF Close, Decide, At, columns, Shape
<1>6. CASE Demote
  <2>1. profile' \in Profile
    BY <1>6, DemotedFacts, TaskFacts DEF Demote, At
  <2>. QED
    BY <1>6, <2>1, ShapeGoesOn DEF Demote, At, reviews, Shape, Steps
<1>7. CASE Refuse
  BY <1>7, ShapeDecide DEF Refuse, Decide, Goto, At, columns, Shape, Steps
<1>8. CASE RecordRejection
  <2>1. ledger' \in [Subs -> {"none", "approved", "rejected"}]
    BY <1>8 DEF RecordRejection, Record, Shape
  <2>. QED
    BY <1>8, <2>1, ShapeGoesOn DEF RecordRejection, Record, At, columns, Shape
<1>9. CASE Expire
  <2>1. profile' \in Profile
    BY <1>9, DemotedFacts, TaskFacts DEF Expire, At, Shape
  <2>. QED
    BY <1>9, <2>1, ShapeDecide DEF Expire, At
<1>. QED
  BY <1>1, <1>2, <1>3, <1>4, <1>5, <1>6, <1>7, <1>8, <1>9 DEF Continue

LEMMA ShapeClock ==
  ASSUME Shape, \/ Time
                \/ Crash
                \/ \E s \in Subs : GrowStale(s)
  PROVE  Shape'
<1>1. CASE Time
  BY <1>1, ProfileFacts DEF Time, Shape, reviews, online
<1>2. CASE Crash
  <2>1. crashes' \in 0..MaxCrashes
    BY <1>2, ConstantsOK DEF Crash, Shape
  <2>. QED
    BY <1>2, <2>1 DEF Crash, Shape, columns, reviews, online
<1>3. CASE \E s \in Subs : GrowStale(s)
  BY <1>3 DEF GrowStale, Pending, Shape, columns, online
<1>. QED
  BY <1>1, <1>2, <1>3

LEMMA ShapeInit == Init => Shape
BY ConstantsOK DEF Init, Shape, Profile, Status, Submission

LEMMA ShapeStep == Shape /\ [Next]_vars => Shape'
<1>. SUFFICES ASSUME Shape, [Next]_vars
              PROVE  Shape'
  OBVIOUS
<1>1. CASE UNCHANGED vars
  BY <1>1 DEF vars, columns, reviews, online, Shape
<1>2. ASSUME NEW l \in Links, Provider(l) \/ CreateLink(l) \/ Checkout(l) \/ Deliver(l)
      PROVE  Shape'
  BY <1>2, ShapeProvider, ShapeLinks, ShapeDeliver
<1>3. ASSUME NEW s \in Subs,
             \/ \E t \in Utrs : BeginSubmit(s, t)
             \/ BeginApprove(s) \/ BeginReject(s) \/ BeginExpire(s)
      PROVE  Shape'
  BY <1>3, ShapeBegin
<1>. QED
  BY <1>1, <1>2, <1>3, ShapeCancel, ShapeContinue, ShapeClock DEF Next

LEMMA AlwaysShape == Spec => []Shape
BY ShapeInit, ShapeStep, PTL DEF Spec

(* The types of the columns of a seeker's row, of submissions, links and     *)
(* events.                                                                   *)
THEOREM TypeCorrect == Spec => []TypeOK
<1>1. Shape => TypeOK
  BY DEF Shape, TypeOK, Submission
<1>. QED
  BY <1>1, AlwaysShape, PTL

-----------------------------------------------------------------------------
(* A seller who uses Razorpay alone: the seeker's row follows the link.      *)
Charged == NoReviews /\ Untold /\ LastWord /\ Served

(* A seller who takes no UPI payments has none to review.                    *)
LEMMA NothingToReview ==
  ASSUME Shape, NoReviews, mode = "razorpay"
  PROVE  /\ ~Continue /\ ~Crash
         /\ \A s \in Subs : /\ \A t \in Utrs : ~BeginSubmit(s, t)
                            /\ ~BeginApprove(s) /\ ~BeginReject(s) /\ ~BeginExpire(s)
                            /\ ~GrowStale(s)
<1>1. ~Continue /\ ~Crash
  BY DEF NoReviews, Continue, Crash, CreateSubmission, MarkProfile, Activate, RecordApproval,
     Close, Demote, Refuse, RecordRejection, Expire, At
<1>. QED
  BY <1>1 DEF NoReviews, BeginSubmit, BeginApprove, BeginReject, BeginExpire, GrowStale

(* The life of a link at the provider.                                       *)
LEMMA ChargedProvider ==
  ASSUME Shape, Charged, NEW l \in Links, Provider(l)
  PROVE  Charged'
<1>1. PICK to \in {"authenticated", "active", "retrying", "halted", "cancelled"}, event \in Events :
        /\ provider' = [provider EXCEPT ![l] = to]
        /\ due' = [due EXCEPT ![l] = Append(@, event)]
        /\ to = "active" => event = "charged"
        /\ UNCHANGED <<mode, columns, reviews, receipts, task, crashes>>
  BY DEF Provider, Happens, Events
<1>2. due[l] \in Seq(Events)
  BY DEF Shape
<1>3. due'[l] = Append(due[l], event) /\ provider'[l] = to
  BY <1>1 DEF Shape
<1>4. \A m \in Links \ {l} : due'[m] = due[m] /\ provider'[m] = provider[m]
  BY <1>1 DEF Shape
<1>5. due'[l] # << >> /\ due'[l][Len(due'[l])] = event
  BY <1>2, <1>3
<1>6. to \notin {"none", "created"}
  OBVIOUS
<1>7. NoReviews'
  BY <1>1 DEF Charged, NoReviews, reviews, Pending
<1>8. Untold'
  BY <1>3, <1>4, <1>6 DEF Charged, Untold, Unpaid
<1>9. LastWord'
  BY <1>1, <1>3, <1>4, <1>5 DEF Charged, LastWord
<1>10. Served'
  <2>1. ASSUME NEW k \in Links, provider'[k] = "active", due'[k] = << >>,
               \A m \in Links \ {k} : provider'[m] \in {"none", "created"}
        PROVE  k \in receipts /\ profile.status = "active" /\ profile.paid \in {"running", "ended"}
    BY <1>3, <1>5, <1>6, <2>1
  <2>. QED
    BY <1>1, <2>1 DEF Served, Unpaid, columns
<1>. QED
  BY <1>7, <1>8, <1>9, <1>10 DEF Charged

LEMMA ChargedCreate ==
  ASSUME Shape, Charged, NEW l \in Links, CreateLink(l)
  PROVE  Charged'
<1>1. /\ provider[l] = "none"
      /\ provider' = [provider EXCEPT ![l] = "created"]
      /\ profile' = [profile EXCEPT !.link = l]
      /\ UNCHANGED <<mode, trial, reviews, due, receipts, task, crashes>>
  BY DEF CreateLink
<1>2. profile'.status = profile.status /\ profile'.paid = profile.paid
  BY <1>1 DEF Shape, Profile
<1>3. /\ provider'[l] = "created"
      /\ \A m \in Links \ {l} : provider'[m] = provider[m]
  BY <1>1 DEF Shape
<1>4. NoReviews'
  BY <1>1 DEF Charged, NoReviews, reviews, Pending
<1>5. Untold' /\ LastWord'
  BY <1>1, <1>3 DEF Charged, Untold, LastWord, Unpaid
<1>6. Served'
  BY <1>1, <1>2, <1>3 DEF Charged, Served, Unpaid
<1>. QED
  BY <1>4, <1>5, <1>6 DEF Charged

LEMMA ChargedCheckout ==
  ASSUME Shape, Charged, NEW l \in Links, Checkout(l)
  PROVE  Charged'
<1>1. /\ provider[l] \in Live
      /\ profile' = Activated(l) /\ receipts' = receipts \cup {l}
      /\ UNCHANGED <<mode, trial, reviews, provider, due, task, crashes>>
  BY DEF Checkout
<1>2. profile'.status = "active" /\ profile'.paid = "running"
  BY <1>1, ActivatedFacts
<1>3. NoReviews' /\ Untold' /\ LastWord'
  BY <1>1 DEF Charged, NoReviews, reviews, Pending, Untold, LastWord, Unpaid
<1>4. Served'
  BY <1>1, <1>2 DEF Charged, Served, Unpaid, Live
<1>. QED
  BY <1>3, <1>4 DEF Charged

LEMMA ChargedCancel ==
  ASSUME Shape, Charged, Cancel
  PROVE  Charged'
<1>. DEFINE l == profile.link
<1>1. /\ l # NoLink /\ provider[l] = "active"
      /\ provider' = [provider EXCEPT ![l] = "ending"]
      /\ profile' = [profile EXCEPT !.cancelAtEnd = TRUE]
      /\ UNCHANGED <<mode, trial, reviews, due, receipts, task, crashes>>
  BY DEF Cancel
<1>2. l \in Links
  BY <1>1 DEF Shape, Profile
<1>. HIDE DEF l
<1>3. profile'.status = profile.status /\ profile'.paid = profile.paid
  BY <1>1 DEF Shape, Profile
<1>4. provider'[l] = "ending" /\ \A m \in Links \ {l} : provider'[m] = provider[m]
  BY <1>1, <1>2 DEF Shape
<1>5. NoReviews'
  BY <1>1 DEF Charged, NoReviews, reviews, Pending
<1>6. Untold' /\ LastWord'
  BY <1>1, <1>4 DEF Charged, Untold, LastWord, Unpaid
<1>7. Served'
  BY <1>1, <1>2, <1>3, <1>4 DEF Charged, Served, Unpaid
<1>. QED
  BY <1>5, <1>6, <1>7 DEF Charged

(* The last event that was due of a link that is charged says so, and finds  *)
(* the seeker, also where a newer link has replaced it on the row.           *)
LEMMA ChargedDeliver ==
  ASSUME Shape, Charged, NEW l \in Links, Deliver(l)
  PROVE  Charged'
<1>1. /\ due[l] # << >> /\ due' = [due EXCEPT ![l] = Tail(due[l])]
      /\ UNCHANGED <<mode, trial, reviews, provider, task, crashes>>
      /\ Addressed(l) => /\ profile' = Applied(l, Head(due[l]))
                         /\ receipts' = Receipts(l, Head(due[l]))
  BY DEF Deliver
<1>2. due'[l] = Tail(due[l]) /\ \A m \in Links \ {l} : due'[m] = due[m]
  BY <1>1 DEF Shape
<1>3. ~Unpaid(l)
  BY <1>1 DEF Charged, Untold
<1>4. NoReviews'
  BY <1>1 DEF Charged, NoReviews, reviews, Pending
<1>5. Untold'
  BY <1>1, <1>2, <1>3 DEF Charged, Untold, Unpaid
<1>6. LastWord'
  <2>1. ASSUME provider[l] = "active", Tail(due[l]) # << >>
        PROVE  Tail(due[l])[Len(Tail(due[l]))] = "charged"
    <3>1. due[l][Len(due[l])] = "charged"
      BY <1>1, <2>1 DEF Charged, LastWord
    <3>. DEFINE rest == Tail(due[l])
    <3>2. /\ rest \in Seq(Events) /\ Len(rest) = Len(due[l]) - 1 /\ Len(due[l]) \in Nat
          /\ \A i \in 1..Len(rest) : rest[i] = due[l][i + 1]
      BY <1>1, HeadFacts
    <3>3. rest # << >>
      BY <2>1
    <3>. HIDE DEF rest
    <3>4. Len(rest) \in 1..Len(rest)
      BY <3>2, <3>3
    <3>5. rest[Len(rest)] = "charged"
      BY <3>1, <3>2, <3>4
    <3>. QED
      BY <3>5 DEF rest
  <2>. QED
    BY <1>1, <1>2, <2>1 DEF Charged, LastWord
<1>7. ASSUME NEW k \in Links, provider[k] = "active", due'[k] = << >>,
             \A m \in Links \ {k} : Unpaid(m)
      PROVE  k \in receipts' /\ profile'.status = "active" /\ profile'.paid \in {"running", "ended"}
  <2>1. k = l
    BY <1>3, <1>7
  <2>2. Len(due[l]) = 1
    <3>. DEFINE rest == Tail(due[l])
    <3>1. rest = << >> /\ Len(rest) = Len(due[l]) - 1 /\ Len(due[l]) \in Nat
      BY <1>1, <1>2, <1>7, <2>1, HeadFacts
    <3>. HIDE DEF rest
    <3>2. Len(rest) = 0
      BY <3>1
    <3>. QED
      BY <3>1, <3>2
  <2>3. Head(due[l]) = "charged"
    BY <1>1, <1>7, <2>1, <2>2, HeadFacts DEF Charged, LastWord
  <2>4. Addressed(l)
    BY <1>7, <2>1 DEF Addressed
  <2>5. profile' = Activated(l) /\ receipts' = receipts \cup {l}
    BY <1>1, <2>3, <2>4 DEF Applied, Receipts
  <2>. QED
    BY <2>1, <2>5, ActivatedFacts
<1>8. Served'
  BY <1>1, <1>7 DEF Served, Unpaid
<1>. QED
  BY <1>4, <1>5, <1>6, <1>8 DEF Charged

LEMMA ChargedTime ==
  ASSUME Shape, Charged, Time
  PROVE  Charged'
<1>1. /\ UNCHANGED <<mode, reviews, online, task, crashes>>
      /\ \/ UNCHANGED profile
         \/ profile' = [profile EXCEPT !.paid = "ended"]
  BY DEF Time
<1>2. /\ profile'.status = profile.status
      /\ profile'.paid = profile.paid \/ profile'.paid = "ended"
  BY <1>1 DEF Shape, Profile
<1>3. NoReviews' /\ Untold' /\ LastWord'
  BY <1>1 DEF Charged, NoReviews, reviews, online, Pending, Untold, LastWord, Unpaid
<1>4. Served'
  BY <1>1, <1>2 DEF Charged, Served, Unpaid, online
<1>. QED
  BY <1>3, <1>4 DEF Charged

LEMMA ModeKept == Shape /\ [Next]_vars => mode' = mode
<1>. SUFFICES ASSUME Next
              PROVE  mode' = mode
  BY DEF vars
<1>1. ASSUME NEW l \in Links, Provider(l) \/ CreateLink(l) \/ Checkout(l) \/ Deliver(l)
      PROVE  mode' = mode
  BY <1>1 DEF Provider, Happens, CreateLink, Checkout, Deliver
<1>2. ASSUME NEW s \in Subs,
             \/ \E t \in Utrs : BeginSubmit(s, t)
             \/ BeginApprove(s) \/ BeginReject(s) \/ BeginExpire(s) \/ GrowStale(s)
      PROVE  mode' = mode
  BY <1>2 DEF BeginSubmit, BeginApprove, BeginReject, BeginExpire, GrowStale
<1>3. CASE Continue
  BY <1>3 DEF Continue, CreateSubmission, MarkProfile, Activate, RecordApproval, Close, Demote,
     Refuse, RecordRejection, Expire, Record, Decide
<1>4. CASE Cancel \/ Time \/ Crash
  BY <1>4 DEF Cancel, Time, Crash
<1>. QED
  BY <1>1, <1>2, <1>3, <1>4 DEF Next

LEMMA ChargedStep == Shape /\ ChargedInv /\ [Next]_vars => ChargedInv'
<1>. SUFFICES ASSUME Shape, ChargedInv, [Next]_vars, mode' = "razorpay"
              PROVE  Charged'
  BY DEF ChargedInv, Charged
<1>1. mode = "razorpay" /\ Charged
  BY ModeKept DEF ChargedInv, Charged
<1>2. CASE UNCHANGED vars
  BY <1>1, <1>2 DEF vars, columns, reviews, online, Charged, NoReviews, Pending, Untold, LastWord,
     Served, Unpaid
<1>3. CASE Next
  <2>1. \/ \E l \in Links : Provider(l) \/ CreateLink(l) \/ Checkout(l) \/ Deliver(l)
        \/ Cancel \/ Time
    BY <1>1, <1>3, NothingToReview DEF Next, Charged
  <2>. QED
    BY <1>1, <2>1, ChargedProvider, ChargedCreate, ChargedCheckout, ChargedDeliver, ChargedCancel,
       ChargedTime
<1>. QED
  BY <1>2, <1>3

LEMMA ChargedInit == Init => ChargedInv
BY DEF Init, ChargedInv, NoReviews, Pending, Untold, LastWord, Served

(* Whom Razorpay charges is served and has a receipt, once the events of the *)
(* link have been handled, in whatever order they and the browser came, and  *)
(* whichever of the seeker's links is the paid one.                          *)
THEOREM PayersAreServed == Spec => []ChargedIsServed
<1>1. Shape /\ ChargedInv => ChargedIsServed
  <2>. SUFFICES ASSUME Shape, ChargedInv, NEW l \in Links, mode = "razorpay",
                       provider[l] = "active", due[l] = << >>,
                       \A m \in Links \ {l} : provider[m] \in {"none", "created"}
                PROVE  l \in receipts /\ (HasAccess \/ profile.paid = "ended")
    BY DEF ChargedIsServed
  <2>1. /\ l \in receipts /\ profile.status = "active"
        /\ profile.paid \in {"running", "ended"}
    BY DEF ChargedInv, Served, Unpaid
  <2>2. profile.paid = "running" => Resolved = "active"
    BY <2>1 DEF Resolved, Running
  <2>. QED
    BY <2>1, <2>2 DEF HasAccess
<1>. QED
  BY <1>1, AlwaysShape, ChargedInit, ChargedStep, PTL DEF Spec

-----------------------------------------------------------------------------
(* What a step can do to the status and the period of a seeker.              *)
LEMMA ProfileChanges ==
  ASSUME Shape, Next
  PROVE  \/ profile'.status = profile.status /\ profile'.paid = profile.paid
         \/ profile'.status = "active" /\ profile'.paid = "running"
         \/ /\ \E l \in Links : Deliver(l)
            /\ profile'.status \in {"past_due", "cancelled"} /\ profile'.paid = profile.paid
         \/ /\ At("mark")
            /\ profile'.status = "pending_verification" /\ profile'.paid = profile.paid
         \/ /\ At("demote") \/ At("expire")
            /\ profile'.status \in {"trial", "expired"} /\ profile'.paid = "none"
         \/ Running /\ profile'.status = profile.status /\ profile'.paid = "ended"
<1>0. profile \in Profile
  BY DEF Shape
<1>1. ASSUME NEW l \in Links, Provider(l) \/ CreateLink(l) \/ Checkout(l)
      PROVE  \/ profile'.status = profile.status /\ profile'.paid = profile.paid
             \/ profile'.status = "active" /\ profile'.paid = "running"
  <2>1. CASE Provider(l)
    BY <2>1 DEF Provider, Happens, columns
  <2>2. CASE CreateLink(l)
    BY <1>0, <2>2 DEF CreateLink, Profile
  <2>3. CASE Checkout(l)
    BY <2>3, ActivatedFacts DEF Checkout
  <2>. QED
    BY <1>1, <2>1, <2>2, <2>3
<1>2. ASSUME NEW l \in Links, Deliver(l)
      PROVE  \/ profile'.status = profile.status /\ profile'.paid = profile.paid
             \/ profile'.status = "active" /\ profile'.paid = "running"
             \/ profile'.status \in {"past_due", "cancelled"} /\ profile'.paid = profile.paid
  <2>1. Head(due[l]) \in Events
    BY <1>2, HeadFacts DEF Deliver
  <2>2. UNCHANGED profile \/ profile' = Applied(l, Head(due[l]))
    BY <1>2 DEF Deliver
  <2>. QED
    BY <2>1, <2>2, AppliedFacts, ActivatedFacts
<1>3. ASSUME NEW s \in Subs,
             \/ \E t \in Utrs : BeginSubmit(s, t)
             \/ BeginApprove(s) \/ BeginReject(s) \/ BeginExpire(s) \/ GrowStale(s)
      PROVE  UNCHANGED profile
  BY <1>3 DEF BeginSubmit, BeginApprove, BeginReject, BeginExpire, GrowStale, columns
<1>4. ASSUME Cancel \/ Time \/ Crash
      PROVE  \/ profile'.status = profile.status /\ profile'.paid = profile.paid
             \/ Running /\ profile'.status = profile.status /\ profile'.paid = "ended"
  <2>1. CASE Cancel
    BY <1>0, <2>1 DEF Cancel, Profile
  <2>2. CASE Time
    BY <1>0, <2>2 DEF Time, Profile
  <2>3. CASE Crash
    BY <2>3 DEF Crash, columns
  <2>. QED
    BY <1>4, <2>1, <2>2, <2>3
<1>5. ASSUME CreateSubmission \/ RecordApproval \/ Close \/ Refuse \/ RecordRejection
      PROVE  UNCHANGED profile
  BY <1>5 DEF CreateSubmission, RecordApproval, Close, Refuse, RecordRejection, Record, Decide, columns
<1>6. ASSUME MarkProfile
      PROVE  At("mark") /\ profile'.status = "pending_verification" /\ profile'.paid = profile.paid
  BY <1>0, <1>6 DEF MarkProfile, Profile
<1>7. ASSUME Activate
      PROVE  profile'.status = "active" /\ profile'.paid = "running"
  BY <1>7, ApprovedFacts DEF Activate
<1>8. ASSUME Demote
      PROVE  At("demote") /\ profile'.status \in {"trial", "expired"} /\ profile'.paid = "none"
  BY <1>8, DemotedFacts, TaskFacts DEF Demote, At
<1>9. ASSUME Expire
      PROVE  /\ At("expire")
             /\ \/ UNCHANGED profile
                \/ profile'.status \in {"trial", "expired"} /\ profile'.paid = "none"
  BY <1>9, DemotedFacts, TaskFacts DEF Expire, At
<1>10. CASE Continue
  BY <1>5, <1>6, <1>7, <1>8, <1>9, <1>10 DEF Continue
<1>. QED
  BY <1>1, <1>2, <1>3, <1>4, <1>10 DEF Next

LEMMA NoPeriodKept ==
  ASSUME Shape, NoPeriod, Next
  PROVE  NoPeriod'
BY ProfileChanges DEF NoPeriod, Running

(* Where payments are reviewed there are no links, and no events of one.     *)
LEMMA NoLinksKept ==
  ASSUME Shape, NoLinks, mode = "upi_manual", Next
  PROVE  /\ NoLinks'
         /\ \/ \E s \in Subs : \/ \E t \in Utrs : BeginSubmit(s, t)
                               \/ BeginApprove(s) \/ BeginReject(s) \/ BeginExpire(s)
                               \/ GrowStale(s)
            \/ Continue \/ Time \/ Crash
<1>1. \A l \in Links : ~Provider(l) /\ ~CreateLink(l) /\ ~Checkout(l) /\ ~Deliver(l)
  BY DEF NoLinks, Provider, Happens, CreateLink, Checkout, Deliver, Live
<1>2. ~Cancel
  BY DEF Cancel, NoLinks, Shape, Profile
<1>3. \/ \E s \in Subs : \/ \E t \in Utrs : BeginSubmit(s, t)
                         \/ BeginApprove(s) \/ BeginReject(s) \/ BeginExpire(s)
                         \/ GrowStale(s)
      \/ Continue \/ Time \/ Crash
  BY <1>1, <1>2 DEF Next
<1>4. UNCHANGED <<provider, due>>
  <2>1. ASSUME NEW s \in Subs, \/ \E t \in Utrs : BeginSubmit(s, t)
                               \/ BeginApprove(s) \/ BeginReject(s) \/ BeginExpire(s)
                               \/ GrowStale(s)
        PROVE  UNCHANGED <<provider, due>>
    BY <2>1 DEF BeginSubmit, BeginApprove, BeginReject, BeginExpire, GrowStale, online
  <2>2. CASE Continue
    BY <2>2 DEF Continue, CreateSubmission, MarkProfile, Activate, RecordApproval, Close, Demote,
       Refuse, RecordRejection, Expire, Record, Decide, online
  <2>3. CASE Time \/ Crash
    BY <2>3 DEF Time, Crash, online
  <2>. QED
    BY <1>3, <2>1, <2>2, <2>3
<1>. QED
  BY <1>3, <1>4 DEF NoLinks

LEMMA OneReviewBegins ==
  ASSUME Shape, OneReview, profile.status \notin {"past_due", "cancelled"}, NoPeriod, NEW s \in Subs,
         \/ \E t \in Utrs : BeginSubmit(s, t)
         \/ BeginApprove(s) \/ BeginReject(s) \/ BeginExpire(s)
  PROVE  OneReview'
<1>1. task = NoTask /\ UNCHANGED <<profile, sub>>
  BY DEF BeginSubmit, BeginApprove, BeginReject, BeginExpire, columns, reviews
<1>2. Pending' = Pending /\ (Running' <=> Running)
  BY <1>1 DEF Pending, Running
<1>3. CASE \E t \in Utrs : BeginSubmit(s, t)
  <2>1. PICK t \in Utrs : Reading("create", s, t) /\ Resolved \notin {"active", "pending_verification"}
    BY <1>3 DEF BeginSubmit
  <2>2. task' # NoTask /\ task'.at = "create"
    BY <2>1, ReadingFacts DEF Steps
  <2>3. profile.status # "pending_verification"
    BY <2>1 DEF Resolved
  <2>4. ~Running
    BY <2>1, <2>3, ProfileFacts DEF Resolved, NoPeriod, Running, Status
  <2>5. Pending = {}
    BY <1>1, <2>3 DEF OneReview
  <2>. QED
    BY <1>1, <1>2, <2>2, <2>3, <2>4, <2>5 DEF OneReview, At
<1>4. CASE BeginApprove(s) \/ BeginReject(s) \/ BeginExpire(s)
  <2>1. /\ s \in Pending /\ sub[s].utr \in Utrs
        /\ \E step \in {"activate", "demote", "expire"} : Reading(step, s, sub[s].utr)
    BY <1>4 DEF BeginApprove, BeginReject, BeginExpire, Pending, Shape
  <2>2. task' # NoTask /\ task'.at \in {"activate", "demote", "expire"} /\ task'.sub = s
    BY <2>1, ReadingFacts DEF Steps
  <2>3. Pending = {s} /\ profile.status = "pending_verification"
    BY <1>1, <2>1 DEF OneReview
  <2>. QED
    BY <1>1, <1>2, <2>2, <2>3 DEF OneReview, At
<1>. QED
  BY <1>3, <1>4

LEMMA OneReviewContinues ==
  ASSUME Shape, OneReview, Continue
  PROVE  OneReview'
<1>1. CASE CreateSubmission
  <2>1. /\ At("create") /\ sub' = [sub EXCEPT ![task.sub] = [status |-> "pending", utr |-> task.utr]]
        /\ task' = [task EXCEPT !.at = "mark"] /\ UNCHANGED profile
    BY <1>1 DEF CreateSubmission, Goto, columns
  <2>2. task' # NoTask /\ task'.at = "mark" /\ task'.sub = task.sub /\ task.sub \in Subs
    BY <2>1, GotoFacts, TaskFacts DEF At, Steps
  <2>3. Pending = {} /\ ~Running
    BY <2>1 DEF OneReview
  <2>4. Pending' = {task.sub}
    BY <2>1, <2>2, <2>3 DEF Pending, Shape
  <2>. QED
    BY <2>1, <2>2, <2>3, <2>4 DEF OneReview, At, Running
<1>2. CASE MarkProfile
  <2>1. At("mark") /\ task' = NoTask /\ UNCHANGED sub /\ profile'.status = "pending_verification"
    BY <1>2 DEF MarkProfile, reviews, Shape, Profile
  <2>2. Pending' = {task.sub} /\ task.sub \in Subs
    BY <2>1, TaskFacts DEF OneReview, At, Pending
  <2>. QED
    BY <2>1, <2>2 DEF OneReview, At
<1>3. CASE Activate \/ Demote \/ RecordApproval
  <2>1. /\ At("activate") \/ At("demote") \/ At("record")
        /\ \E step \in {"record", "refuse", "close"} : task' = [task EXCEPT !.at = step]
        /\ UNCHANGED sub
    BY <1>3 DEF Activate, Demote, RecordApproval, Record, Goto, reviews
  <2>2. task' # NoTask /\ task'.at \in {"record", "refuse", "close"} /\ task'.sub = task.sub
    BY <2>1, GotoFacts DEF At, Steps
  <2>3. Pending' = {task.sub}
    BY <2>1 DEF OneReview, Pending
  <2>. QED
    BY <2>2, <2>3 DEF OneReview, At
<1>4. CASE Close \/ Refuse \/ Expire
  <2>1. /\ At("close") \/ At("refuse") \/ At("expire")
        /\ \E v \in {"approved", "rejected", "expired"} : sub' = [sub EXCEPT ![task.sub].status = v]
        /\ task' = NoTask \/ task' = [task EXCEPT !.at = "note"]
    BY <1>4 DEF Close, Refuse, Expire, Decide
  <2>2. Pending = {task.sub} /\ task # NoTask /\ task.at # "create"
    BY <2>1 DEF OneReview, At
  <2>3. Pending' = {}
    BY <2>1, <2>2, Decided DEF Shape
  <2>4. task' = NoTask \/ (task' # NoTask /\ task'.at = "note")
    BY <2>1, <2>2, GotoFacts DEF Steps
  <2>. QED
    BY <2>3, <2>4 DEF OneReview, At
<1>5. CASE RecordRejection
  <2>1. At("note") /\ task' = NoTask /\ UNCHANGED sub
    BY <1>5 DEF RecordRejection, Record
  <2>. QED
    BY <2>1 DEF OneReview, At, Pending
<1>. QED
  BY <1>1, <1>2, <1>3, <1>4, <1>5 DEF Continue

LEMMA OneReviewLater ==
  ASSUME Shape, OneReview, Time \/ \E s \in Subs : GrowStale(s)
  PROVE  OneReview'
<1>1. UNCHANGED <<sub, task>>
  BY DEF Time, GrowStale, reviews
<1>2. Running' => Running
  BY DEF Time, GrowStale, Running, columns, Shape, Profile
<1>3. profile'.status = profile.status
  BY DEF Time, GrowStale, columns, Shape, Profile
<1>. QED
  BY <1>1, <1>2, <1>3 DEF OneReview, At, Pending

LEMMA CrashesGrow ==
  ASSUME Shape, Next, crashes' = 0
  PROVE  crashes = 0 /\ ~Crash
<1>1. ~Crash
  BY ConstantsOK DEF Crash, Shape
<1>2. ASSUME NEW l \in Links, Provider(l) \/ CreateLink(l) \/ Checkout(l) \/ Deliver(l)
      PROVE  UNCHANGED crashes
  BY <1>2 DEF Provider, Happens, CreateLink, Checkout, Deliver
<1>3. ASSUME NEW s \in Subs,
             \/ \E t \in Utrs : BeginSubmit(s, t)
             \/ BeginApprove(s) \/ BeginReject(s) \/ BeginExpire(s) \/ GrowStale(s)
      PROVE  UNCHANGED crashes
  BY <1>3 DEF BeginSubmit, BeginApprove, BeginReject, BeginExpire, GrowStale
<1>4. ASSUME Continue
      PROVE  UNCHANGED crashes
  BY <1>4 DEF Continue, CreateSubmission, MarkProfile, Activate, RecordApproval, Close, Demote,
     Refuse, RecordRejection, Expire, Record, Decide
<1>5. ASSUME Cancel \/ Time
      PROVE  UNCHANGED crashes
  BY <1>5 DEF Cancel, Time
<1>. QED
  BY <1>1, <1>2, <1>3, <1>4, <1>5 DEF Next

LEMMA ReviewKept ==
  ASSUME Shape, NoPeriod, ReviewInv, Next
  PROVE  ReviewInv'
<1>. SUFFICES ASSUME mode' = "upi_manual"
              PROVE  /\ NoLinks' /\ profile'.status \notin {"past_due", "cancelled"}
                     /\ crashes' = 0 => OneReview'
  BY DEF ReviewInv
<1>1. /\ mode = "upi_manual" /\ NoLinks /\ profile.status \notin {"past_due", "cancelled"}
      /\ crashes = 0 => OneReview
  BY ModeKept DEF ReviewInv
<1>2. profile'.status \notin {"past_due", "cancelled"}
  <2>1. ~\E l \in Links : Deliver(l)
    BY <1>1 DEF NoLinks, Deliver
  <2>. QED
    BY <1>1, <2>1, ProfileChanges
<1>3. ASSUME crashes' = 0
      PROVE  OneReview'
  BY <1>1, <1>3, CrashesGrow, NoLinksKept, OneReviewBegins, OneReviewContinues, OneReviewLater
<1>. QED
  BY <1>1, <1>2, <1>3, NoLinksKept

LEMMA NoReviewsKept ==
  ASSUME Shape, NoReviews, mode = "razorpay", Next
  PROVE  NoReviews'
<1>1. \/ \E l \in Links : Provider(l) \/ CreateLink(l) \/ Checkout(l) \/ Deliver(l)
      \/ Cancel \/ Time
  BY NothingToReview DEF Next
<1>. QED
  BY <1>1 DEF NoReviews, Pending, Provider, Happens, CreateLink, Checkout, Deliver, Cancel, Time, reviews

LEMMA KeepStep == Shape /\ KeepInv /\ [Next]_vars => KeepInv'
<1>. SUFFICES ASSUME Shape, KeepInv, [Next]_vars
              PROVE  KeepInv'
  OBVIOUS
<1>1. CASE UNCHANGED vars
  BY <1>1 DEF vars, columns, reviews, online, KeepInv, NoPeriod, NoReviews, Pending, ReviewInv,
     NoLinks, OneReview, At, Running
<1>2. CASE Next
  BY <1>2, ModeKept, NoPeriodKept, ReviewKept, NoReviewsKept DEF KeepInv
<1>. QED
  BY <1>1, <1>2

LEMMA KeepInit == Init => KeepInv
BY DEF Init, KeepInv, NoPeriod, NoReviews, Pending, ReviewInv, NoLinks, OneReview, At

(* Paid access is a running period of a plan that is active, past due or     *)
(* cancelled; the trial has no say in it.                                    *)
LEMMA WhatPaidAccessIs ==
  ASSUME Shape, NoPeriod
  PROVE  PaidAccess <=> Running /\ profile.status \in {"active", "past_due", "cancelled"}
BY ProfileFacts DEF PaidAccess, HasAccess, Resolved, Running, NoPeriod, Status

LEMMA AccessStep ==
  ASSUME Shape, Shape', KeepInv, KeepInv', Next, PaidAccess, mode # "both", crashes' = 0
  PROVE  PaidAccess' \/ profile'.paid = "ended"
<1>1. Running /\ profile.status \in {"active", "past_due", "cancelled"}
  BY WhatPaidAccessIs DEF KeepInv
<1>2. ~At("mark") /\ ~At("demote") /\ ~At("expire")
  <2>1. CASE mode = "razorpay"
    BY <2>1 DEF KeepInv, NoReviews, At
  <2>2. CASE mode = "upi_manual"
    BY <1>1, <2>2, CrashesGrow DEF KeepInv, ReviewInv, OneReview
  <2>. QED
    BY <2>1, <2>2, ConstantsOK DEF Shape
<1>3. \/ /\ profile'.paid = "running"
         /\ profile'.status \in {"active", "past_due", "cancelled"}
      \/ profile'.paid = "ended"
  BY <1>1, <1>2, ProfileChanges DEF Running
<1>4. (Running /\ profile.status \in {"active", "past_due", "cancelled"} => PaidAccess)'
  BY WhatPaidAccessIs, PTL DEF KeepInv
<1>. QED
  BY <1>3, <1>4 DEF Running

(* What a seeker paid for is taken away by time alone, where the seller      *)
(* offers one way to pay and no review was cut short by a crash: a failed    *)
(* charge, a cancellation, another link, and a submission that is refused or *)
(* too old leave it as it is.                                                *)
THEOREM PaidIsKept == Spec => PaidAccessKept
<1>1. Shape /\ Shape' /\ KeepInv /\ KeepInv' /\ [Next]_vars
      => [PaidAccess /\ mode # "both" /\ crashes' = 0 =>
            \/ PaidAccess'
            \/ profile'.paid = "ended"]_vars
  BY AccessStep DEF vars
<1>. QED
  BY <1>1, AlwaysShape, KeepInit, KeepStep, PTL DEF Spec, PaidAccessKept

=============================================================================
