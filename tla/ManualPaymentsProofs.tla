------------------------ MODULE ManualPaymentsProofs ------------------------
(***************************************************************************)
(* What holds of UPI payments for any users, submissions, references,      *)
(* handlers in flight, crashes and events.                                 *)
(***************************************************************************)
EXTENDS MCManualPayments, TLAPS

USE ConstantsOK

Reviewing(h) ==
  /\ ~Free(h)
  /\ task[h].at \in {"conflict", "activate", "record", "close", "demote", "refuse",
                     "note", "expire"}

(* Somebody made each submission, and each that is under review.             *)
Filed ==
  /\ \A s \in Subs : sub[s].status # "none" => sub[s].user \in Users
  /\ \A h \in Tasks : Reviewing(h) => sub[task[h].sub].user \in Users

(* An approval that is about to be put on file has left its transaction.     *)
Closing == \A h \in Tasks : At(h, "close") => ledger[task[h].sub].approved >= 1

Safe == TypeOK /\ Filed /\ Closing /\ ApprovedIsRecorded

-----------------------------------------------------------------------------
(* A handler in flight carries a task, and goes on to any step with it.      *)
LEMMA Tasked ==
  ASSUME TypeOK, NEW h \in Tasks, NEW step, At(h, step)
  PROVE  /\ task[h] \in Task
         /\ task[h].user \in Users
         /\ task[h].sub \in Subs
         /\ task[h].utr \in Utrs \cup {NoUtr}
         /\ task[h].at = step
  BY DEF TypeOK, Task, At, Free

LEMMA GoesOn ==
  ASSUME TypeOK, NEW h \in Tasks, NEW step, At(h, step), NEW to \in Steps, Goto(h, to)
  PROVE  /\ task' \in [Tasks -> Task \cup {NoTask}]
         /\ \A g \in Tasks : g # h => task'[g] = task[g]
         /\ task'[h].at = to
         /\ task'[h].sub = task[h].sub
<1>. PICK next : next = [task[h] EXCEPT !.at = to]
  OBVIOUS
<1>1. next \in Task /\ next.at = to /\ next.sub = task[h].sub
  BY Tasked DEF Task
<1>2. task' = [task EXCEPT ![h] = next]
  BY DEF Goto
<1>. QED
  BY <1>1, <1>2 DEF TypeOK

LEMMA Ends ==
  ASSUME TypeOK, NEW h \in Tasks, End(h)
  PROVE  /\ task' \in [Tasks -> Task \cup {NoTask}]
         /\ \A g \in Tasks : g # h => task'[g] = task[g]
         /\ \A step : ~At(h, step)'
  BY DEF TypeOK, End, At, Free

(* A handler that begins does not begin by closing.                          *)
LEMMA Begins ==
  ASSUME Safe, NEW h \in Tasks, NEW first \in Task,
         first.at \in {"check", "sweep"}
           \/ (first.at \in {"conflict", "demote", "expire"} /\ sub[first.sub].user \in Users),
         task' = [task EXCEPT ![h] = first], UNCHANGED rows, Quiet
  PROVE  Safe'
<1>1. /\ task' \in [Tasks -> Task \cup {NoTask}]
      /\ \A g \in Tasks : g # h => task'[g] = task[g]
      /\ task'[h] = first
  BY DEF Safe, TypeOK
<1>2. TypeOK'
  BY <1>1 DEF Safe, TypeOK, rows, Quiet
<1>3. Closing'
  BY <1>1 DEF Safe, Closing, At, Free, rows
<1>4. Filed'
  BY <1>1 DEF Safe, Filed, Reviewing, Free, rows
<1>. QED
  BY <1>2, <1>3, <1>4 DEF Safe, ApprovedIsRecorded, rows

LEMMA BeginningSafe ==
  ASSUME Safe, NEW h \in Tasks,
         \/ \E u \in Users, t \in Utrs : BeginSubmit(h, u, t)
         \/ \E s \in Subs : BeginApprove(h, s) \/ BeginReject(h, s) \/ BeginExpire(h, s)
         \/ \E u \in Users : BeginSweep(h, u)
  PROVE  Safe'
<1>1. ASSUME NEW u \in Users, NEW t \in Utrs, BeginSubmit(h, u, t)
      PROVE  Safe'
  <2>. PICK s \in Subs : task' = [task EXCEPT ![h] =
            [at |-> "check", user |-> u, sub |-> s, utr |-> t,
             seen |-> user[u].status, trial |-> trial[u]]]
    BY <1>1 DEF BeginSubmit
  <2>. PICK first : first = [at |-> "check", user |-> u, sub |-> s, utr |-> t,
                             seen |-> user[u].status, trial |-> trial[u]]
    OBVIOUS
  <2>1. first \in Task /\ first.at \in {"check", "sweep"}
    BY DEF Safe, TypeOK, Task, Steps, Account
  <2>. QED
    BY <1>1, <2>1, Begins DEF BeginSubmit
<1>2. ASSUME NEW s \in Subs, NEW step \in {"conflict", "demote", "expire"}, Take(h, s, step)
      PROVE  Safe'
  <2>. PICK first : first = [at |-> step, user |-> sub[s].user, sub |-> s,
                             utr |-> sub[s].utr, seen |-> user[sub[s].user].status,
                             trial |-> trial[sub[s].user]]
    OBVIOUS
  <2>1. sub[s].user \in Users
    BY <1>2 DEF Take, Pending, Safe, Filed
  <2>2. first \in Task /\ first.at = step /\ first.sub = s
    BY <2>1 DEF Safe, TypeOK, Task, Steps, Account, Submission
  <2>. QED
    BY <1>2, <2>1, <2>2, Begins DEF Take
<1>3. ASSUME NEW u \in Users, BeginSweep(h, u)
      PROVE  Safe'
  <2>. PICK s \in Subs : task' = [task EXCEPT ![h] =
         [at |-> "sweep", user |-> u, sub |-> s, utr |-> NoUtr,
          seen |-> user[u].status, trial |-> FALSE]]
    BY <1>3 DEF BeginSweep
  <2>. PICK first : first = [at |-> "sweep", user |-> u, sub |-> s, utr |-> NoUtr,
                             seen |-> user[u].status, trial |-> FALSE]
    OBVIOUS
  <2>1. first \in Task /\ first.at \in {"check", "sweep"}
    BY DEF Safe, TypeOK, Task, Steps, Account
  <2>. QED
    BY <1>3, <2>1, Begins DEF BeginSweep
<1>. QED
  BY <1>1, <1>2, <1>3 DEF BeginApprove, BeginReject, BeginExpire

-----------------------------------------------------------------------------
(* A handler that goes on, or ends, without touching submissions or ledger.  *)
LEMMA OnlyUsers ==
  ASSUME Safe, NEW h \in Tasks,
         CheckUtr(h) \/ MarkUser(h) \/ CheckConflict(h) \/ Activate(h) \/ Demote(h) \/ Sweep(h)
  PROVE  Safe'
<1>1. TypeOK /\ UNCHANGED <<trial, sub, stale, ledger, crashes, events>>
  BY DEF Safe, CheckUtr, MarkUser, CheckConflict, Activate, Demote, Sweep, rows, Quiet
<1>2. user' \in [Users -> Account]
  <2>1. CASE CheckUtr(h) \/ CheckConflict(h)
    BY <1>1, <2>1 DEF CheckUtr, CheckConflict, rows, TypeOK
  <2>2. CASE MarkUser(h)
    BY <1>1, <2>2, Tasked DEF MarkUser, TypeOK, Account, Status
  <2>3. CASE Activate(h)
    BY <1>1, <2>3, Tasked DEF Activate, TypeOK, Account, Status, Period
  <2>4. CASE Demote(h)
    BY <1>1, <2>4, Tasked DEF Demote, Demoted, TypeOK, Account, Status, Period
  <2>5. CASE Sweep(h)
    BY <1>1, <2>5, Tasked DEF Sweep, TypeOK, Account, Status
  <2>. QED
    BY <2>1, <2>2, <2>3, <2>4, <2>5
<1>3. /\ task' \in [Tasks -> Task \cup {NoTask}]
      /\ \A g \in Tasks : g # h => task'[g] = task[g]
      /\ ~At(h, "close")'
      /\ Reviewing(h)' => Reviewing(h) /\ task'[h].sub = task[h].sub
  <2>1. CASE End(h)
    BY <1>1, <2>1, Ends DEF Reviewing, At
  <2>2. CASE Goto(h, "create") /\ At(h, "check")
    BY <1>1, <2>2, GoesOn DEF Steps, At, Reviewing, Free
  <2>3. CASE Goto(h, "activate") /\ At(h, "conflict")
    BY <1>1, <2>3, GoesOn DEF Steps, At, Reviewing, Free
  <2>4. CASE Goto(h, "record") /\ At(h, "activate")
    BY <1>1, <2>4, GoesOn DEF Steps, At, Reviewing, Free
  <2>5. CASE Goto(h, "refuse") /\ At(h, "demote")
    BY <1>1, <2>5, GoesOn DEF Steps, At, Reviewing, Free
  <2>. QED
    BY <2>1, <2>2, <2>3, <2>4, <2>5
       DEF CheckUtr, MarkUser, CheckConflict, Activate, Demote, Sweep
<1>4. TypeOK'
  BY <1>1, <1>2, <1>3 DEF TypeOK
<1>5. Closing'
  BY <1>1, <1>3 DEF Safe, Closing, At, Free
<1>6. Filed'
  BY <1>1, <1>3 DEF Safe, Filed, Reviewing, Free
<1>. QED
  BY <1>1, <1>4, <1>5, <1>6 DEF Safe, ApprovedIsRecorded

LEMMA CreateSafe ==
  ASSUME Safe, NEW h \in Tasks, CreateSubmission(h)
  PROVE  Safe'
<1>. PICK s \in Subs :
       /\ sub[s].status = "none"
       /\ sub' = [sub EXCEPT ![s] = [status |-> "pending", user |-> task[h].user,
                                     utr |-> task[h].utr]]
       /\ task' = [task EXCEPT ![h] = [task[h] EXCEPT !.at = "mark", !.sub = s]]
  BY DEF CreateSubmission
<1>. PICK next : next = [task[h] EXCEPT !.at = "mark", !.sub = s]
  OBVIOUS
<1>1. TypeOK /\ At(h, "create") /\ UNCHANGED <<user, trial, stale, ledger, crashes, events>>
  BY DEF Safe, CreateSubmission, Quiet
<1>2. next \in Task /\ next.at = "mark"
  <2>1. task[h] \in Task /\ "mark" \in Steps
    BY <1>1, Tasked DEF Steps
  <2>. HIDE DEF Steps
  <2>. QED
    BY <2>1 DEF Task
<1>3. /\ task' \in [Tasks -> Task \cup {NoTask}]
      /\ \A g \in Tasks : g # h => task'[g] = task[g]
      /\ ~At(h, "close")' /\ ~Reviewing(h)'
  BY <1>1, <1>2 DEF TypeOK, At, Reviewing
<1>4. /\ sub' \in [Subs -> Submission]
      /\ \A r \in Subs : r # s => sub'[r] = sub[r]
      /\ sub'[s].status = "pending" /\ sub'[s].user \in Users
  BY <1>1, Tasked DEF TypeOK, Submission
<1>5. TypeOK'
  BY <1>1, <1>3, <1>4 DEF TypeOK
<1>6. Closing'
  BY <1>1, <1>3 DEF Safe, Closing, At, Free
<1>7. Filed'
  BY <1>1, <1>3, <1>4 DEF Safe, Filed, Reviewing, Free, TypeOK, Task
<1>. QED
  BY <1>1, <1>4, <1>5, <1>6, <1>7 DEF Safe, ApprovedIsRecorded

(* A transaction is recorded before the submission is put on file.           *)
LEMMA RecordSafe ==
  ASSUME Safe, NEW h \in Tasks, RecordApproval(h) \/ RecordRejection(h)
  PROVE  Safe'
<1>1. TypeOK /\ UNCHANGED <<user, trial, sub, stale, crashes, events>>
  BY DEF Safe, RecordApproval, RecordRejection, Quiet
<1>2. /\ ledger' \in [Subs -> [approved : Nat, rejected : Nat]]
      /\ \A s \in Subs : ledger'[s].approved >= ledger[s].approved
      /\ RecordApproval(h) => ledger'[task[h].sub].approved >= 1
  <2>. DEFINE s == task[h].sub
  <2>1. ledger \in [Subs -> [approved : Nat, rejected : Nat]] /\ s \in Subs
    BY <1>1, Tasked DEF RecordApproval, RecordRejection, TypeOK
  <2>. HIDE DEF s
  <2>2. ledger[s].approved \in Nat /\ ledger[s].rejected \in Nat
    BY <2>1
  <2>3. CASE RecordApproval(h)
    <3>1. ledger' = [ledger EXCEPT ![s].approved = @ + 1]
      BY <2>3 DEF RecordApproval, s
    <3>. QED
      BY <2>1, <2>2, <3>1 DEF s
  <2>4. CASE RecordRejection(h) /\ ~RecordApproval(h)
    <3>1. ledger' = [ledger EXCEPT ![s].rejected = @ + 1]
      BY <2>4 DEF RecordRejection, s
    <3>. QED
      BY <2>1, <2>2, <2>4, <3>1
  <2>. QED
    BY <2>3, <2>4
<1>3. /\ task' \in [Tasks -> Task \cup {NoTask}]
      /\ \A g \in Tasks : g # h => task'[g] = task[g]
      /\ At(h, "close")' => RecordApproval(h) /\ task'[h].sub = task[h].sub
      /\ Reviewing(h)' => Reviewing(h) /\ task'[h].sub = task[h].sub
  <2>1. CASE RecordApproval(h)
    BY <1>1, <2>1, GoesOn DEF RecordApproval, Steps, Reviewing, At
  <2>2. CASE RecordRejection(h)
    BY <1>1, <2>2, Ends DEF RecordRejection, Reviewing, At
  <2>. QED
    BY <2>1, <2>2
<1>4. TypeOK'
  BY <1>1, <1>2, <1>3 DEF TypeOK
<1>5. Closing'
  BY <1>1, <1>2, <1>3 DEF Safe, Closing, At, Free, TypeOK, Task
<1>6. ApprovedIsRecorded'
  BY <1>1, <1>2 DEF Safe, ApprovedIsRecorded, TypeOK
<1>7. Filed'
  BY <1>1, <1>3 DEF Safe, Filed, Reviewing, Free
<1>. QED
  BY <1>4, <1>5, <1>6, <1>7 DEF Safe

(* A submission is decided.                                                  *)
LEMMA DecideSafe ==
  ASSUME Safe, NEW h \in Tasks, MarkApproved(h) \/ MarkRejected(h) \/ Expire(h)
  PROVE  Safe'
<1>1. TypeOK /\ UNCHANGED <<trial, stale, ledger, crashes, events>>
  BY DEF Safe, MarkApproved, MarkRejected, Expire, Quiet
<1>2. task[h].sub \in Subs /\ task[h].user \in Users
  BY <1>1, Tasked DEF MarkApproved, MarkRejected, Expire
<1>3. user' \in [Users -> Account]
  <2>1. CASE MarkApproved(h) \/ MarkRejected(h)
    BY <1>1, <2>1 DEF MarkApproved, MarkRejected, TypeOK
  <2>2. CASE Expire(h)
    <3>1. user' = user \/ user' = [user EXCEPT ![task[h].user] = Demoted(task[h].trial)]
      BY <2>2 DEF Expire
    <3>. QED
      BY <1>1, <1>2, <3>1 DEF TypeOK, Demoted, Account, Status, Period
  <2>. QED
    BY <2>1, <2>2
<1>4. PICK verdict \in Verdicts : /\ sub' = [sub EXCEPT ![task[h].sub].status = verdict]
                                  /\ verdict = "approved" => At(h, "close")
  BY DEF MarkApproved, MarkRejected, Expire, Verdicts
<1>5. /\ sub' \in [Subs -> Submission]
      /\ \A s \in Subs : s # task[h].sub => sub'[s] = sub[s]
      /\ sub'[task[h].sub].status = verdict
      /\ sub'[task[h].sub].user = sub[task[h].sub].user
  BY SMTT(30), <1>1, <1>2, <1>4 DEF TypeOK, Submission
<1>6. /\ task' \in [Tasks -> Task \cup {NoTask}]
      /\ \A g \in Tasks : g # h => task'[g] = task[g]
      /\ ~At(h, "close")'
      /\ Reviewing(h)' => task'[h].sub = task[h].sub
  <2>1. CASE MarkApproved(h) \/ Expire(h)
    BY <1>1, <2>1, Ends DEF MarkApproved, Expire, Reviewing, At
  <2>2. CASE MarkRejected(h)
    BY <1>1, <2>2, GoesOn DEF MarkRejected, Steps, At
  <2>. QED
    BY <2>1, <2>2
<1>7. sub[task[h].sub].user \in Users
  BY DEF Safe, Filed, Reviewing, MarkApproved, MarkRejected, Expire, At
<1>8. TypeOK'
  BY <1>1, <1>3, <1>5, <1>6 DEF TypeOK
<1>9. Filed'
  BY SMTT(30), <1>1, <1>2, <1>5, <1>6, <1>7 DEF Safe, Filed, Reviewing, Free, TypeOK, Task
<1>10. Closing'
  BY <1>1, <1>6 DEF Safe, Closing, At, Free
<1>11. ApprovedIsRecorded'
  BY <1>1, <1>4, <1>5 DEF Safe, Closing, ApprovedIsRecorded
<1>. QED
  BY <1>8, <1>9, <1>10, <1>11 DEF Safe

-----------------------------------------------------------------------------
(* Time, the provider, the admin and crashes leave submissions alone.        *)
LEMMA EventSafe ==
  ASSUME Safe, NEW u \in Users, NEW account \in Account, Event(u, account),
         trial' \in [Users -> BOOLEAN]
  PROVE  Safe'
<1>1. /\ TypeOK
      /\ user' = [user EXCEPT ![u] = account]
      /\ events' = events + 1
      /\ UNCHANGED <<sub, stale, ledger, task, crashes>>
  BY DEF Safe, Event
<1>2. user' \in [Users -> Account]
  BY <1>1 DEF TypeOK
<1>3. TypeOK'
  BY <1>1, <1>2 DEF TypeOK
<1>. QED
  BY <1>1, <1>3 DEF Safe, Filed, Reviewing, Closing, At, Free, ApprovedIsRecorded

LEMMA OutsideSafe ==
  ASSUME Safe,
         \/ \E s \in Subs : GrowStale(s)
         \/ \E u \in Users : EndTrial(u) \/ EndPeriod(u) \/ ProviderEvent(u) \/ AdminEdit(u)
         \/ Crash \/ UNCHANGED vars
  PROVE  Safe'
<1>. TypeOK
  BY DEF Safe
<1>1. CASE \E s \in Subs : GrowStale(s)
  <2>1. TypeOK'
    BY <1>1 DEF GrowStale, TypeOK, Quiet
  <2>. QED
    BY <1>1, <2>1 DEF GrowStale, Safe, Filed, Reviewing, Closing, At, Free, ApprovedIsRecorded
<1>2. ASSUME NEW u \in Users, EndTrial(u)
      PROVE  Safe'
  <2>1. TypeOK'
    BY <1>2 DEF EndTrial, TypeOK, Quiet
  <2>. QED
    BY <1>2, <2>1 DEF EndTrial, Safe, Filed, Reviewing, Closing, At, Free, ApprovedIsRecorded
<1>3. ASSUME NEW u \in Users, EndPeriod(u)
      PROVE  Safe'
  <2>1. TypeOK'
    BY <1>3 DEF EndPeriod, TypeOK, Quiet, Account, Period
  <2>. QED
    BY <1>3, <2>1 DEF EndPeriod, Safe, Filed, Reviewing, Closing, At, Free, ApprovedIsRecorded
<1>4. ASSUME NEW u \in Users, ProviderEvent(u) \/ AdminEdit(u)
      PROVE  Safe'
  <2>1. \E account \in Account : Event(u, account)
    <3>1. user[u] \in Account
      BY DEF TypeOK
    <3>2. \A s \in Status, p \in Period : [status |-> s, paid |-> p] \in Account
      BY DEF Account
    <3>3. \A s \in Status : [user[u] EXCEPT !.status = s] \in Account
      BY <3>1 DEF Account
    <3>4. CASE ProviderEvent(u)
      BY <3>2, <3>3, <3>4 DEF ProviderEvent, Status, Period
    <3>5. CASE AdminEdit(u)
      BY <3>2, <3>3, <3>5 DEF AdminEdit, Status, Period
    <3>. QED
      BY <1>4, <3>4, <3>5
  <2>2. trial' \in [Users -> BOOLEAN]
    BY <1>4 DEF ProviderEvent, AdminEdit, TypeOK
  <2>. QED
    BY <2>1, <2>2, EventSafe
<1>5. CASE Crash
  <2>1. /\ task' \in [Tasks -> Task \cup {NoTask}]
        /\ \A h \in Tasks : task'[h] = NoTask
    BY <1>5 DEF Crash
  <2>2. TypeOK'
    BY <1>5, <2>1 DEF Crash, TypeOK, rows
  <2>. QED
    BY <1>5, <2>1, <2>2
       DEF Crash, rows, Safe, Filed, Reviewing, Closing, At, Free, ApprovedIsRecorded
<1>6. CASE UNCHANGED vars
  BY <1>6 DEF vars, rows, Safe, TypeOK, Filed, Reviewing, Closing, At, Free, ApprovedIsRecorded
<1>. QED
  BY <1>1, <1>2, <1>3, <1>4, <1>5, <1>6

-----------------------------------------------------------------------------
LEMMA InitSafe == Init => Safe
<1>. SUFFICES ASSUME Init
              PROVE  Safe
  OBVIOUS
<1>1. TypeOK
  BY DEF Init, TypeOK, Account, Status, Period, Submission, NoSubmission
<1>. QED
  BY <1>1 DEF Init, Safe, Filed, Reviewing, Closing, At, Free, ApprovedIsRecorded, NoSubmission

LEMMA NextSafe == Safe /\ [Next]_vars => Safe'
  BY BeginningSafe, OnlyUsers, CreateSafe, RecordSafe, DecideSafe, OutsideSafe
     DEF Next, Continue

(* The columns of users, submissions and handlers have their types.          *)
THEOREM TypeCorrect == Spec => []TypeOK
<1>1. Safe => TypeOK
  BY DEF Safe
<1>. QED
  BY <1>1, InitSafe, NextSafe, PTL DEF Spec

(* However verdicts overlap and wherever the process stops, a submission     *)
(* that reads approved has its manual.approved row (approveSubmission).      *)
THEOREM ApprovalsRecorded == Spec => []ApprovedIsRecorded
<1>1. Safe => ApprovedIsRecorded
  BY DEF Safe
<1>. QED
  BY <1>1, InitSafe, NextSafe, PTL DEF Spec
-----------------------------------------------------------------------------
(* What one handler at a time guarantees (MCManualPayments, serial).  The    *)
(* handler is always the same activation.                                    *)
Mine == First(Tasks)

Sole == \A h \in Tasks \ {Mine} : Free(h)

(* A handler at these steps has a pending submission in hand.                *)
OnPending == {"mark", "conflict", "activate", "record", "close", "demote", "refuse", "expire"}

Subscribed(u) == user[u].status = "active" /\ user[u].paid = "running"

UnderReview(u) == user[u].status = "pending_verification"

(* What a handler alone has read and checked still holds at each of its      *)
(* statements: of submissions always, of users until an event interferes.    *)
Fits(t) ==
  /\ t.at = "create" => SameUtr(t.utr, {"pending", "approved"}) = {}
  /\ t.at \in OnPending => Pending(t.sub) /\ sub[t.sub].user = t.user
  /\ events = 0 =>
       /\ t.at \in {"check", "create", "mark", "sweep"} => ~Subscribed(t.user)
       /\ t.at \in {"record", "close", "refuse", "sweep"} => ~UnderReview(t.user)
       /\ t.at = "expire" => t.seen = user[t.user].status
  /\ events = 0 /\ crashes = 0 /\ t.at \in {"check", "create"} =>
       \A s \in Subs : Pending(s) => sub[s].user # t.user

Hands == Mine \in Tasks /\ ~Free(Mine) => Fits(task[Mine])

(* A submission whose user is not marked yet, or no longer.                  *)
Between(s) == /\ Mine \in Tasks /\ ~Free(Mine)
              /\ task[Mine].at \in {"mark", "record", "close", "refuse"}
              /\ task[Mine].sub = s

(* Until something interferes, a user has one pending submission at most and *)
(* is under review exactly as long as it is pending.                         *)
OneReview ==
  /\ \A s1, s2 \in Subs : Pending(s1) /\ Pending(s2) /\ sub[s1].user = sub[s2].user
                            => s1 = s2
  /\ \A s \in Subs : Pending(s) /\ ~Between(s) => UnderReview(sub[s].user)

Tidy ==
  /\ LiveUtrUnique
  /\ events = 0 => UnderReviewHasPending
  /\ events = 0 /\ crashes = 0 => OneReview

Steady == Safe /\ Sole /\ Hands /\ Tidy

(* What a step of a handler alone may do.                                    *)
Outcome ==
  /\ Hands'
  /\ Tidy'
  /\ VerdictStands
  /\ events' + crashes' = 0 => StaysActive

(* The handler that takes a step is the one in flight.                       *)
LEMMA Alone ==
  ASSUME Sole, Sole', NEW h \in Tasks, ~Free(h) \/ ~Free(h)'
  PROVE  h = Mine
  BY DEF Sole, Free

LEMMA Carries ==
  ASSUME TypeOK, NEW h \in Tasks, NEW step, At(h, step), NEW to \in Steps, Goto(h, to)
  PROVE  /\ ~Free(h)'
         /\ task'[h].at = to
         /\ task'[h].user = task[h].user
         /\ task'[h].sub = task[h].sub
         /\ task'[h].utr = task[h].utr
         /\ task'[h].seen = task[h].seen
<1>. PICK next : next = [task[h] EXCEPT !.at = to]
  OBVIOUS
<1>1. /\ next \in Task /\ next.at = to /\ next.user = task[h].user /\ next.sub = task[h].sub
      /\ next.utr = task[h].utr /\ next.seen = task[h].seen
  BY Tasked DEF Task
<1>2. task'[h] = next
  BY DEF Goto, TypeOK
<1>. QED
  BY <1>1, <1>2 DEF Free

(* Submissions are live under one reference each.                            *)
LEMMA Unique ==
  ASSUME Tidy, NEW s1 \in Subs, NEW s2 \in Subs,
         sub[s1].status \in {"pending", "approved"}, sub[s2].status \in {"pending", "approved"},
         sub[s1].utr = sub[s2].utr
  PROVE  s1 = s2
  BY DEF Tidy, LiveUtrUnique

(* A step that changes neither users nor submissions.                        *)
LEMMA Unmoved ==
  ASSUME Steady, UNCHANGED <<user, sub>>, crashes' \in Nat, events' \in Nat,
         events' = 0 => events = 0, crashes' = 0 => crashes = 0,
         \A s \in Subs : events' = 0 /\ crashes' = 0 => ~Between(s) \/ Between(s)'
  PROVE  /\ Tidy' /\ VerdictStands
         /\ events' + crashes' = 0 => StaysActive
<1>1. LiveUtrUnique' /\ VerdictStands /\ StaysActive
  BY DEF Steady, Tidy, LiveUtrUnique, VerdictStands, StaysActive
<1>2. events' = 0 => UnderReviewHasPending'
  BY DEF Steady, Tidy, UnderReviewHasPending, Pending
<1>3. events' = 0 /\ crashes' = 0 => OneReview'
  BY DEF Steady, Tidy, OneReview, Pending, UnderReview
<1>. QED
  BY <1>1, <1>2, <1>3 DEF Tidy

-----------------------------------------------------------------------------
LEMMA CheckingAlone ==
  ASSUME Steady, Sole', NEW h \in Tasks, CheckUtr(h) \/ CheckConflict(h)
  PROVE  Outcome
<1>1. TypeOK /\ UNCHANGED <<user, sub, crashes, events>>
  BY DEF Steady, Safe, CheckUtr, CheckConflict, rows, Quiet
<1>2. h = Mine /\ ~Free(Mine) /\ Fits(task[Mine])
  BY Alone DEF Steady, Hands, CheckUtr, CheckConflict, At
<1>3. \A s \in Subs : ~Between(s)
  BY <1>2 DEF CheckUtr, CheckConflict, At, Between
<1>4. Tidy' /\ VerdictStands /\ (events' + crashes' = 0 => StaysActive)
  BY <1>1, <1>3, Unmoved DEF TypeOK
<1>5. Hands'
  <2>1. CASE End(h)
    BY <1>1, <1>2, <2>1 DEF End, TypeOK, Hands, Free
  <2>2. CASE CheckUtr(h) /\ Goto(h, "create")
    <3>1. /\ task'[Mine].at = "create" /\ task'[Mine].user = task[Mine].user
          /\ task'[Mine].utr = task[Mine].utr /\ task[Mine].at = "check"
      BY <1>1, <1>2, <2>2, Carries DEF CheckUtr, Steps, At
    <3>2. SameUtr(task[Mine].utr, {"pending", "approved"}) = {}
      <4>1. ~End(h)
        BY <1>1, <1>2, <2>2, Carries DEF End, TypeOK, CheckUtr, Steps, Free
      <4>. QED
        BY <1>2, <2>2, <4>1 DEF CheckUtr
    <3>. QED
      BY <1>1, <1>2, <3>1, <3>2
         DEF Hands, Fits, OnPending, SameUtr, Subscribed, UnderReview, Pending
  <2>3. CASE CheckConflict(h) /\ Goto(h, "activate")
    <3>1. /\ task'[Mine].at = "activate" /\ task'[Mine].user = task[Mine].user
          /\ task'[Mine].sub = task[Mine].sub /\ task[Mine].at = "conflict"
      BY <1>1, <1>2, <2>3, Carries DEF CheckConflict, Steps, At
    <3>. QED
      BY <1>1, <1>2, <3>1 DEF Hands, Fits, OnPending, Subscribed, UnderReview, Pending
  <2>. QED
    BY <2>1, <2>2, <2>3 DEF CheckUtr, CheckConflict
<1>. QED
  BY <1>4, <1>5 DEF Outcome

LEMMA RecordingAlone ==
  ASSUME Steady, Sole', NEW h \in Tasks, RecordApproval(h) \/ RecordRejection(h)
  PROVE  Outcome
<1>1. TypeOK /\ UNCHANGED <<user, sub, crashes, events>>
  BY DEF Steady, Safe, RecordApproval, RecordRejection, Quiet
<1>2. h = Mine /\ ~Free(Mine) /\ Fits(task[Mine])
  BY Alone DEF Steady, Hands, RecordApproval, RecordRejection, At
<1>3. CASE RecordApproval(h)
  <2>1. /\ task'[Mine].at = "close" /\ task'[Mine].user = task[Mine].user
        /\ task'[Mine].sub = task[Mine].sub /\ task[Mine].at = "record" /\ ~Free(Mine)'
    BY <1>1, <1>2, <1>3, Carries DEF RecordApproval, Steps, At
  <2>2. \A s \in Subs : ~Between(s) \/ Between(s)'
    BY <2>1 DEF Between
  <2>3. Hands'
    BY <1>1, <1>2, <2>1 DEF Hands, Fits, OnPending, Subscribed, UnderReview, Pending
  <2>. QED
    BY <1>1, <2>2, <2>3, Unmoved DEF TypeOK, Outcome
<1>4. CASE RecordRejection(h)
  <2>1. \A s \in Subs : ~Between(s)
    BY <1>2, <1>4 DEF RecordRejection, At, Between
  <2>2. Hands'
    BY <1>1, <1>2, <1>4 DEF RecordRejection, End, TypeOK, Hands, Free
  <2>. QED
    BY <1>1, <2>1, <2>2, Unmoved DEF TypeOK, Outcome
<1>. QED
  BY <1>3, <1>4

(* A handler begins with what it has just read.                              *)
LEMMA BeginningAlone ==
  ASSUME Steady, Sole', NEW h \in Tasks, NEW first \in Task, Free(h),
         task' = [task EXCEPT ![h] = first], UNCHANGED rows, Quiet,
         first.at \in {"check", "sweep", "conflict", "demote", "expire"},
         first.at \in OnPending => Pending(first.sub) /\ sub[first.sub].user = first.user,
         first.at \in {"check", "sweep"} => ~Subscribed(first.user) /\ ~UnderReview(first.user),
         first.at = "expire" => first.seen = user[first.user].status
  PROVE  Outcome
<1>1. TypeOK /\ UNCHANGED <<user, sub, crashes, events>>
  BY DEF Steady, Safe, rows, Quiet
<1>2. task'[h] = first /\ ~Free(h)'
  BY <1>1 DEF TypeOK, Free
<1>3. h = Mine
  BY <1>2, Alone DEF Steady
<1>4. \A s \in Subs : ~Between(s)
  BY <1>3 DEF Between
<1>5. events = 0 /\ crashes = 0 /\ first.at = "check" =>
        \A s \in Subs : Pending(s) => sub[s].user # first.user
  BY <1>4 DEF Steady, Tidy, OneReview
<1>6. Fits(first)
  BY <1>5 DEF Fits, OnPending
<1>7. Hands'
  BY <1>1, <1>2, <1>3, <1>6 DEF Hands, Fits, SameUtr, Subscribed, UnderReview, Pending
<1>. QED
  BY <1>1, <1>4, <1>7, Unmoved DEF TypeOK, Outcome

LEMMA BeginsAlone ==
  ASSUME Steady, Sole', NEW h \in Tasks,
         \/ \E u \in Users, t \in Utrs : BeginSubmit(h, u, t)
         \/ \E s \in Subs : BeginApprove(h, s) \/ BeginReject(h, s) \/ BeginExpire(h, s)
         \/ \E u \in Users : BeginSweep(h, u)
  PROVE  Outcome
<1>. TypeOK
  BY DEF Steady, Safe
<1>1. ASSUME NEW u \in Users, NEW t \in Utrs, BeginSubmit(h, u, t)
      PROVE  Outcome
  <2>. PICK s \in Subs : task' = [task EXCEPT ![h] =
            [at |-> "check", user |-> u, sub |-> s, utr |-> t,
             seen |-> user[u].status, trial |-> trial[u]]]
    BY <1>1 DEF BeginSubmit
  <2>. PICK first : first = [at |-> "check", user |-> u, sub |-> s, utr |-> t,
                             seen |-> user[u].status, trial |-> trial[u]]
    OBVIOUS
  <2>1. first \in Task /\ first.at = "check" /\ first.user = u
    BY DEF TypeOK, Task, Steps, Account
  <2>2. ~Subscribed(u) /\ ~UnderReview(u)
    BY <1>1 DEF BeginSubmit, Standing, Subscribed, UnderReview
  <2>. QED
    BY <1>1, <2>1, <2>2, BeginningAlone DEF BeginSubmit, OnPending
<1>2. ASSUME NEW s \in Subs, NEW step \in {"conflict", "demote", "expire"}, Take(h, s, step)
      PROVE  Outcome
  <2>. PICK first : first = [at |-> step, user |-> sub[s].user, sub |-> s,
                             utr |-> sub[s].utr, seen |-> user[sub[s].user].status,
                             trial |-> trial[sub[s].user]]
    OBVIOUS
  <2>1. sub[s].user \in Users
    BY <1>2 DEF Take, Pending, Steady, Safe, Filed
  <2>2. /\ first \in Task /\ first.at = step /\ first.sub = s /\ first.user = sub[s].user
        /\ first.seen = user[first.user].status
    BY <2>1 DEF TypeOK, Task, Steps, Account, Submission
  <2>. QED
    BY <1>2, <2>2, BeginningAlone DEF Take, OnPending
<1>3. ASSUME NEW u \in Users, BeginSweep(h, u)
      PROVE  Outcome
  <2>. PICK s \in Subs : task' = [task EXCEPT ![h] =
         [at |-> "sweep", user |-> u, sub |-> s, utr |-> NoUtr,
          seen |-> user[u].status, trial |-> FALSE]]
    BY <1>3 DEF BeginSweep
  <2>. PICK first : first = [at |-> "sweep", user |-> u, sub |-> s, utr |-> NoUtr,
                             seen |-> user[u].status, trial |-> FALSE]
    OBVIOUS
  <2>1. first \in Task /\ first.at = "sweep" /\ first.user = u
    BY DEF TypeOK, Task, Steps, Account
  <2>2. ~Subscribed(u) /\ ~UnderReview(u)
    BY <1>3 DEF BeginSweep, Subscribed, UnderReview
  <2>. QED
    BY <1>3, <2>1, <2>2, BeginningAlone DEF BeginSweep, OnPending
<1>. QED
  BY <1>1, <1>2, <1>3 DEF BeginApprove, BeginReject, BeginExpire

-----------------------------------------------------------------------------
(* A step that rewrites one user's columns and no submission.                *)
LEMMA UserMoved ==
  ASSUME Steady, NEW u \in Users, NEW account, UNCHANGED <<sub, crashes, events>>,
         user' = [user EXCEPT ![u] = account],
         events = 0 => \/ account.status = "pending_verification" /\ ~Subscribed(u)
                         /\ \E s \in Subs : Pending(s) /\ sub[s].user = u
                       \/ account.status # "pending_verification",
         events = 0 /\ crashes = 0 =>
           /\ Subscribed(u) => account.status = "active"
           /\ \A s \in Subs : Pending(s) /\ ~Between(s)' =>
                \/ sub[s].user = u /\ account.status = "pending_verification"
                \/ sub[s].user # u /\ ~Between(s)
  PROVE  /\ Tidy' /\ VerdictStands
         /\ events' + crashes' = 0 => StaysActive
<1>1. /\ TypeOK /\ user'[u] = account /\ \A v \in Users : v # u => user'[v] = user[v]
      /\ crashes \in Nat /\ events \in Nat
  BY DEF Steady, Safe, TypeOK
<1>2. LiveUtrUnique' /\ VerdictStands
  BY DEF Steady, Tidy, LiveUtrUnique, VerdictStands
<1>3. events' = 0 => UnderReviewHasPending'
  BY <1>1 DEF Steady, Tidy, UnderReviewHasPending, Pending
<1>4. events' = 0 /\ crashes' = 0 => OneReview'
  <2>. SUFFICES ASSUME events = 0, crashes = 0
                PROVE  OneReview'
    OBVIOUS
  <2>1. \A s1, s2 \in Subs : Pending(s1)' /\ Pending(s2)' /\ (sub[s1].user = sub[s2].user)'
                               => s1 = s2
    BY DEF Steady, Tidy, OneReview, Pending
  <2>2. ASSUME NEW s \in Subs, Pending(s), ~Between(s)'
        PROVE  UnderReview(sub[s].user)'
    <3>1. sub[s].user \in Users
      BY <2>2 DEF Steady, Safe, Filed, Pending
    <3>2. CASE sub[s].user = u /\ account.status = "pending_verification"
      BY <1>1, <3>2 DEF UnderReview
    <3>3. CASE sub[s].user # u /\ ~Between(s)
      BY <1>1, <2>2, <3>1, <3>3 DEF Steady, Tidy, OneReview, UnderReview
    <3>. QED
      BY <2>2, <3>2, <3>3
  <2>. QED
    BY <2>1, <2>2 DEF OneReview, Pending
<1>5. events' + crashes' = 0 => StaysActive
  BY <1>1 DEF StaysActive, Subscribed
<1>. QED
  BY <1>2, <1>3, <1>4, <1>5 DEF Tidy

LEMMA MarkingAlone ==
  ASSUME Steady, Sole', NEW h \in Tasks, MarkUser(h)
  PROVE  Outcome
<1>1. TypeOK /\ UNCHANGED <<sub, crashes, events>>
  BY DEF Steady, Safe, MarkUser, Quiet
<1>2. /\ h = Mine /\ ~Free(Mine) /\ Fits(task[Mine]) /\ task[h].at = "mark"
      /\ task[h].user \in Users /\ task[h].sub \in Subs
  BY <1>1, Alone, Tasked DEF Steady, Hands, MarkUser, At
<1>. PICK u \in Users : u = task[h].user
  BY <1>2
<1>. PICK account : account = [user[u] EXCEPT !.status = "pending_verification"]
  OBVIOUS
<1>3. user' = [user EXCEPT ![u] = account] /\ account.status = "pending_verification"
  BY <1>1 DEF MarkUser, TypeOK, Account
<1>4. Pending(task[h].sub) /\ sub[task[h].sub].user = u /\ (events = 0 => ~Subscribed(u))
  BY <1>2 DEF Fits, OnPending
<1>5. \A s \in Subs : sub[s].user # u => ~Between(s)
  BY <1>2, <1>4 DEF Between
<1>6. Hands'
  BY <1>1, <1>2 DEF MarkUser, End, TypeOK, Hands, Free
<1>7. Tidy' /\ VerdictStands /\ (events' + crashes' = 0 => StaysActive)
  BY <1>1, <1>2, <1>3, <1>4, <1>5, UserMoved
<1>. QED
  BY <1>6, <1>7 DEF Outcome

LEMMA ActivatingAlone ==
  ASSUME Steady, Sole', NEW h \in Tasks, Activate(h) \/ Demote(h)
  PROVE  Outcome
<1>1. TypeOK /\ UNCHANGED <<sub, crashes, events>>
  BY DEF Steady, Safe, Activate, Demote, Quiet
<1>2. /\ h = Mine /\ ~Free(Mine) /\ Fits(task[Mine]) /\ task[h].at \in {"activate", "demote"}
      /\ task[h].user \in Users /\ task[h].sub \in Subs
  BY <1>1, Alone, Tasked DEF Steady, Hands, Activate, Demote, At
<1>. PICK u \in Users : u = task[h].user
  BY <1>2
<1>3. PICK account : /\ user' = [user EXCEPT ![u] = account]
                     /\ account.status # "pending_verification"
                     /\ Activate(h) => account.status = "active"
  BY DEF Activate, Demote, Demoted
<1>4. Pending(task[h].sub) /\ sub[task[h].sub].user = u
  BY <1>2 DEF Fits, OnPending
<1>5. \A s \in Subs : ~Between(s)
  BY <1>2 DEF Between
<1>6. /\ task'[Mine].at \in {"record", "refuse"} /\ task'[Mine].user = u
      /\ task'[Mine].sub = task[Mine].sub /\ ~Free(Mine)'
  <2>1. CASE Activate(h)
    BY <1>1, <1>2, <2>1, Carries DEF Activate, Steps
  <2>2. CASE Demote(h)
    BY <1>1, <1>2, <2>2, Carries DEF Demote, Steps
  <2>. QED
    BY <2>1, <2>2
<1>7. user'[u].status # "pending_verification"
  BY <1>1, <1>3 DEF TypeOK
<1>8. Hands'
  BY <1>1, <1>2, <1>4, <1>6, <1>7 DEF Hands, Fits, OnPending, UnderReview, Pending
<1>9. events = 0 /\ crashes = 0 =>
        /\ Subscribed(u) => account.status = "active"
        /\ \A s \in Subs : Pending(s) /\ ~Between(s)' => sub[s].user # u
  <2>. SUFFICES ASSUME events = 0, crashes = 0
                PROVE  /\ Subscribed(u) => account.status = "active"
                       /\ \A s \in Subs : Pending(s) /\ ~Between(s)' => sub[s].user # u
    OBVIOUS
  <2>1. OneReview
    BY DEF Steady, Tidy
  <2>2. ~Subscribed(u)
    BY <1>2, <1>4, <1>5, <2>1 DEF OneReview, Subscribed, UnderReview
  <2>3. Between(task[h].sub)'
    BY <1>2, <1>6 DEF Between
  <2>4. \A s \in Subs : Pending(s) /\ sub[s].user = u => s = task[h].sub
    BY <1>2, <1>4, <2>1 DEF OneReview
  <2>5. \A s \in Subs : Pending(s) /\ ~Between(s)' => s # task[h].sub
    BY <1>2, <1>6 DEF Between
  <2>. QED
    BY <2>2, <2>4, <2>5
<1>10. Tidy' /\ VerdictStands /\ (events' + crashes' = 0 => StaysActive)
  BY <1>1, <1>3, <1>5, <1>9, UserMoved
<1>. QED
  BY <1>8, <1>10 DEF Outcome

LEMMA SweepingAlone ==
  ASSUME Steady, Sole', NEW h \in Tasks, Sweep(h)
  PROVE  Outcome
<1>1. TypeOK /\ UNCHANGED <<sub, crashes, events>>
  BY DEF Steady, Safe, Sweep, Quiet
<1>2. /\ h = Mine /\ ~Free(Mine) /\ Fits(task[Mine]) /\ task[h].at = "sweep"
      /\ task[h].user \in Users
  BY <1>1, Alone, Tasked DEF Steady, Hands, Sweep, At
<1>. PICK u \in Users : u = task[h].user
  BY <1>2
<1>. PICK account : account = [user[u] EXCEPT !.status = "expired"]
  OBVIOUS
<1>3. user' = [user EXCEPT ![u] = account] /\ account.status = "expired"
  BY <1>1 DEF Sweep, TypeOK, Account
<1>4. events = 0 => ~Subscribed(u) /\ ~UnderReview(u)
  BY <1>2 DEF Fits
<1>5. \A s \in Subs : ~Between(s)
  BY <1>2 DEF Between
<1>6. events = 0 /\ crashes = 0 => \A s \in Subs : Pending(s) => sub[s].user # u
  BY <1>4, <1>5 DEF Steady, Tidy, OneReview
<1>7. Hands'
  BY <1>1, <1>2 DEF Sweep, End, TypeOK, Hands, Free
<1>8. Tidy' /\ VerdictStands /\ (events' + crashes' = 0 => StaysActive)
  BY <1>1, <1>3, <1>4, <1>5, <1>6, UserMoved
<1>. QED
  BY <1>7, <1>8 DEF Outcome

-----------------------------------------------------------------------------
LEMMA CreatingAlone ==
  ASSUME Steady, Sole', NEW h \in Tasks, CreateSubmission(h)
  PROVE  Outcome
<1>1. TypeOK /\ UNCHANGED <<user, crashes, events>> /\ crashes \in Nat /\ events \in Nat
  BY DEF Steady, Safe, CreateSubmission, Quiet, TypeOK
<1>2. /\ h = Mine /\ ~Free(Mine) /\ Fits(task[Mine]) /\ task[h].at = "create"
      /\ task[h] \in Task /\ task[h].user \in Users
  BY <1>1, Alone, Tasked DEF Steady, Hands, CreateSubmission, At
<1>. PICK x \in Subs :
       /\ sub[x].status = "none"
       /\ sub' = [sub EXCEPT ![x] = [status |-> "pending", user |-> task[h].user,
                                     utr |-> task[h].utr]]
       /\ task' = [task EXCEPT ![h] = [task[h] EXCEPT !.at = "mark", !.sub = x]]
  BY DEF CreateSubmission
<1>. PICK next : next = [task[h] EXCEPT !.at = "mark", !.sub = x]
  OBVIOUS
<1>3. next \in Task /\ next.at = "mark" /\ next.sub = x /\ next.user = task[h].user
  <2>1. "mark" \in Steps
    BY DEF Steps
  <2>. HIDE DEF Steps
  <2>. QED
    BY <1>2, <2>1 DEF Task
<1>4. task'[Mine] = next
  BY <1>1, <1>2 DEF TypeOK
<1>5. /\ sub'[x].status = "pending" /\ sub'[x].user = task[h].user /\ sub'[x].utr = task[h].utr
      /\ \A s \in Subs : s # x => sub'[s] = sub[s]
      /\ ~Pending(x)
  BY <1>1 DEF TypeOK, Pending
<1>6. /\ \A s \in Subs : sub[s].utr = task[h].utr => sub[s].status \notin {"pending", "approved"}
      /\ events = 0 => ~Subscribed(task[h].user)
      /\ events = 0 /\ crashes = 0 => \A s \in Subs : Pending(s) => sub[s].user # task[h].user
  BY <1>2 DEF Fits, SameUtr
<1>7. Hands'
  <2>1. Pending(x)' /\ sub'[x].user = task[h].user
    BY <1>5 DEF Pending
  <2>2. /\ task'[Mine].at = "mark" /\ task'[Mine].sub = x
        /\ task'[Mine].user = task[h].user
    BY <1>3, <1>4
  <2>3. events = 0 => ~Subscribed(task[Mine].user)'
    BY <1>1, <1>6, <2>2 DEF Subscribed
  <2>. QED
    BY <1>1, <2>1, <2>2, <2>3 DEF Hands, Fits, OnPending
<1>8. LiveUtrUnique'
  BY <1>5, <1>6, Unique DEF Steady, LiveUtrUnique
<1>9. events' = 0 => UnderReviewHasPending'
  BY <1>1, <1>5 DEF Steady, Tidy, UnderReviewHasPending, Pending
<1>10. events' = 0 /\ crashes' = 0 => OneReview'
  <2>. SUFFICES ASSUME events = 0, crashes = 0
                PROVE  OneReview'
    BY <1>1
  <2>1. OneReview
    BY DEF Steady, Tidy
  <2>2. \A s1, s2 \in Subs : Pending(s1)' /\ Pending(s2)' /\ (sub[s1].user = sub[s2].user)'
                               => s1 = s2
    BY <1>5, <1>6, <2>1 DEF OneReview, Pending
  <2>3. \A s \in Subs : ~Between(s)
    BY <1>2 DEF Between
  <2>4. ~Free(Mine)'
    BY <1>3, <1>4 DEF Free
  <2>5. Between(x)'
    BY <1>2, <1>3, <1>4, <2>4 DEF Between
  <2>6. \A s \in Subs : Pending(s)' /\ ~Between(s)' => Pending(s) /\ sub'[s] = sub[s]
    BY <1>5, <2>5 DEF Pending
  <2>. QED
    BY <1>1, <2>1, <2>2, <2>3, <2>6 DEF OneReview, UnderReview
<1>11. VerdictStands
  BY <1>5, <1>1 DEF VerdictStands, Verdicts, TypeOK
<1>12. StaysActive
  BY <1>1 DEF StaysActive
<1>. QED
  BY <1>7, <1>8, <1>9, <1>10, <1>11, <1>12 DEF Outcome, Tidy

(* The submission in hand is decided; it was pending, and its user is no     *)
(* longer under review, or was when an expiry finds another one pending.     *)
LEMMA Decided ==
  ASSUME Steady, NEW x \in Subs, NEW verdict \in Verdicts, Pending(x),
         sub' = [sub EXCEPT ![x].status = verdict], UNCHANGED <<crashes, events>>,
         \/ user' = user
         \/ /\ sub[x].user \in Users
            /\ \E account : /\ user' = [user EXCEPT ![sub[x].user] = account]
                            /\ account.status # "pending_verification"
            /\ events = 0 => UnderReview(sub[x].user),
         events = 0 /\ user' = user /\ UnderReview(sub[x].user) =>
           \E s \in Subs \ {x} : Pending(s) /\ sub[s].user = sub[x].user,
         \A s \in Subs : Between(s) => s = x
  PROVE  /\ Tidy' /\ VerdictStands
         /\ events' + crashes' = 0 => StaysActive
<1>1. TypeOK /\ crashes \in Nat /\ events \in Nat
  BY DEF Steady, Safe, TypeOK
<1>2. /\ sub'[x].status = verdict /\ sub'[x].utr = sub[x].utr
      /\ \A s \in Subs : s # x => sub'[s] = sub[s]
      /\ ~Pending(x)'
  BY <1>1 DEF TypeOK, Submission, Verdicts, Pending
<1>3. /\ \A v \in Users : v # sub[x].user => user'[v] = user[v]
      /\ user' # user => user'[sub[x].user].status # "pending_verification"
  BY <1>1 DEF TypeOK
<1>4. LiveUtrUnique'
  <2>1. \A s \in Subs : sub'[s].status \in {"pending", "approved"} =>
          sub[s].status \in {"pending", "approved"} /\ sub'[s].utr = sub[s].utr
    BY <1>2 DEF Pending
  <2>. QED
    BY <2>1, Unique DEF Steady, LiveUtrUnique
<1>5. events' = 0 => UnderReviewHasPending'
  <2>. SUFFICES ASSUME events = 0, NEW v \in Users, user'[v].status = "pending_verification"
                PROVE  \E s \in Subs : Pending(s)' /\ sub'[s].user = v
    BY DEF UnderReviewHasPending
  <2>1. CASE v # sub[x].user
    BY <1>2, <1>3, <2>1 DEF Steady, Tidy, UnderReviewHasPending, Pending
  <2>2. CASE v = sub[x].user
    BY <1>2, <1>3, <2>2 DEF Pending, UnderReview
  <2>. QED
    BY <2>1, <2>2
<1>6. events' = 0 /\ crashes' = 0 => OneReview'
  <2>. SUFFICES ASSUME events = 0, crashes = 0
                PROVE  OneReview'
    OBVIOUS
  <2>1. OneReview
    BY DEF Steady, Tidy
  <2>2. \A s \in Subs : Pending(s)' => s # x /\ Pending(s) /\ sub'[s] = sub[s]
    BY <1>2 DEF Pending
  <2>3. \A s1, s2 \in Subs : Pending(s1)' /\ Pending(s2)' /\ (sub[s1].user = sub[s2].user)'
                               => s1 = s2
    BY <2>1, <2>2 DEF OneReview
  <2>4. ASSUME NEW s \in Subs, Pending(s)'
        PROVE  UnderReview(sub[s].user)'
    <3>1. UnderReview(sub[s].user) /\ sub[s].user # sub[x].user /\ sub'[s].user = sub[s].user
      BY <2>1, <2>2, <2>4 DEF OneReview
    <3>2. sub[s].user \in Users
      BY <2>2, <2>4 DEF Steady, Safe, Filed, Pending
    <3>. QED
      BY <1>3, <3>1, <3>2 DEF UnderReview
  <2>. QED
    BY <2>3, <2>4 DEF OneReview
<1>7. VerdictStands
  BY <1>2 DEF VerdictStands, Verdicts, Pending
<1>8. events' + crashes' = 0 => StaysActive
  BY <1>1, <1>3 DEF StaysActive, UnderReview
<1>. QED
  BY <1>4, <1>5, <1>6, <1>7, <1>8 DEF Tidy

LEMMA DecidingAlone ==
  ASSUME Steady, Sole', NEW h \in Tasks, MarkApproved(h) \/ MarkRejected(h)
  PROVE  Outcome
<1>1. TypeOK /\ UNCHANGED <<user, crashes, events>>
  BY DEF Steady, Safe, MarkApproved, MarkRejected, Quiet
<1>2. /\ h = Mine /\ ~Free(Mine) /\ Fits(task[Mine]) /\ task[h].at \in {"close", "refuse"}
      /\ task[h].sub \in Subs
  BY <1>1, Alone, Tasked DEF Steady, Hands, MarkApproved, MarkRejected, At
<1>3. /\ Pending(task[h].sub)
      /\ events = 0 => ~UnderReview(sub[task[h].sub].user)
  BY <1>2 DEF Fits, OnPending
<1>4. \A s \in Subs : Between(s) => s = task[h].sub
  BY <1>2 DEF Between
<1>5. \E verdict \in Verdicts : sub' = [sub EXCEPT ![task[h].sub].status = verdict]
  BY DEF MarkApproved, MarkRejected, Verdicts
<1>6. Tidy' /\ VerdictStands /\ (events' + crashes' = 0 => StaysActive)
  BY <1>1, <1>2, <1>3, <1>4, <1>5, Decided
<1>7. Hands'
  <2>1. CASE MarkApproved(h)
    BY <1>1, <1>2, <2>1 DEF MarkApproved, End, TypeOK, Hands, Free
  <2>2. CASE MarkRejected(h)
    <3>1. task'[Mine].at = "note"
      BY <1>1, <1>2, <2>2, Carries DEF MarkRejected, Steps
    <3>. QED
      BY <3>1 DEF Hands, Fits, OnPending
  <2>. QED
    BY <2>1, <2>2
<1>. QED
  BY <1>6, <1>7 DEF Outcome

LEMMA ExpiringAlone ==
  ASSUME Steady, Sole', NEW h \in Tasks, Expire(h)
  PROVE  Outcome
<1>1. TypeOK /\ UNCHANGED <<crashes, events>>
  BY DEF Steady, Safe, Expire, Quiet
<1>2. /\ h = Mine /\ ~Free(Mine) /\ Fits(task[Mine]) /\ task[h].at = "expire"
      /\ task[h].sub \in Subs /\ task[h].user \in Users
  BY <1>1, Alone, Tasked DEF Steady, Hands, Expire, At
<1>. PICK x \in Subs, u \in Users : x = task[h].sub /\ u = task[h].user
  BY <1>2
<1>3. /\ Pending(x) /\ sub[x].user = u
      /\ events = 0 => task[h].seen = user[u].status
  BY <1>2 DEF Fits, OnPending
<1>4. \A s \in Subs : ~Between(s)
  BY <1>2 DEF Between
<1>5. sub' = [sub EXCEPT ![x].status = "expired"] /\ "expired" \in Verdicts
  BY DEF Expire, Verdicts
<1>6. Hands'
  BY <1>1, <1>2 DEF Expire, End, TypeOK, Hands, Free
<1>7. CASE /\ task[h].seen = "pending_verification"
           /\ {s \in Subs \ {x} : Pending(s) /\ sub[s].user = u} = {}
  <2>. PICK account : account = Demoted(task[h].trial)
    OBVIOUS
  <2>1. user' = [user EXCEPT ![u] = account] /\ account.status # "pending_verification"
    BY <1>7 DEF Expire, Demoted
  <2>2. events = 0 => UnderReview(u)
    BY <1>3, <1>7 DEF UnderReview
  <2>3. events = 0 => user' # user
    BY <1>1, <2>1, <2>2 DEF TypeOK, UnderReview
  <2>4. Tidy' /\ VerdictStands /\ (events' + crashes' = 0 => StaysActive)
    BY <1>1, <1>3, <1>4, <1>5, <2>1, <2>2, <2>3, Decided
  <2>. QED
    BY <1>6, <2>4 DEF Outcome
<1>8. CASE \/ task[h].seen # "pending_verification"
           \/ {s \in Subs \ {x} : Pending(s) /\ sub[s].user = u} # {}
  <2>1. user' = user
    BY <1>8 DEF Expire
  <2>2. events = 0 /\ UnderReview(u) => \E s \in Subs \ {x} : Pending(s) /\ sub[s].user = u
    BY <1>3, <1>8 DEF UnderReview
  <2>3. Tidy' /\ VerdictStands /\ (events' + crashes' = 0 => StaysActive)
    BY <1>1, <1>3, <1>4, <1>5, <2>1, <2>2, Decided
  <2>. QED
    BY <1>6, <2>3 DEF Outcome
<1>. QED
  BY <1>7, <1>8

-----------------------------------------------------------------------------
(* Time, the provider, the admin and crashes.                                *)
LEMMA OutsideAlone ==
  ASSUME Steady, Sole',
         \/ \E s \in Subs : GrowStale(s)
         \/ \E u \in Users : EndTrial(u) \/ EndPeriod(u) \/ ProviderEvent(u) \/ AdminEdit(u)
         \/ Crash \/ UNCHANGED vars
  PROVE  Outcome
<1>1. TypeOK /\ crashes \in Nat /\ events \in Nat
  BY DEF Steady, Safe, TypeOK
<1>2. CASE (\E s \in Subs : GrowStale(s)) \/ (\E u \in Users : EndTrial(u)) \/ UNCHANGED vars
  <2>1. UNCHANGED <<user, sub, task, crashes, events>>
    BY <1>2 DEF GrowStale, EndTrial, vars, rows, Quiet
  <2>2. \A s \in Subs : ~Between(s) \/ Between(s)'
    BY <2>1 DEF Between, Free
  <2>3. Hands'
    BY <2>1 DEF Steady, Hands, Free, Fits, SameUtr, Subscribed, UnderReview, Pending
  <2>. QED
    BY <1>1, <2>1, <2>2, <2>3, Unmoved DEF Outcome
<1>3. ASSUME NEW u \in Users, EndPeriod(u)
      PROVE  Outcome
  <2>1. /\ UNCHANGED <<sub, task, crashes, events>>
        /\ \A v \in Users : user'[v].status = user[v].status
        /\ \A v \in Users : user'[v].paid = "running" => user[v].paid = "running"
    BY <1>1, <1>3 DEF EndPeriod, Quiet, TypeOK, Account
  <2>2. Hands'
    <3>1. SUFFICES ASSUME Mine \in Tasks, ~Free(Mine)
                   PROVE  Fits(task[Mine])'
      BY <2>1 DEF Hands, Free
    <3>2. Fits(task[Mine]) /\ task[Mine].user \in Users
      BY <1>1, <3>1 DEF Steady, Hands, TypeOK, Task, Free
    <3>. QED
      BY <2>1, <3>2 DEF Fits, SameUtr, Subscribed, UnderReview, Pending
  <2>3. LiveUtrUnique' /\ VerdictStands /\ StaysActive
    BY <2>1 DEF Steady, Tidy, LiveUtrUnique, VerdictStands, StaysActive
  <2>4. events' = 0 => UnderReviewHasPending'
    BY <2>1 DEF Steady, Tidy, UnderReviewHasPending, Pending
  <2>5. events' = 0 /\ crashes' = 0 => OneReview'
    <3>1. \A s \in Subs : Pending(s) => sub[s].user \in Users
      BY DEF Steady, Safe, Filed, Pending
    <3>2. \A s \in Subs : Between(s)' <=> Between(s)
      BY <2>1 DEF Between, Free
    <3>. QED
      BY <2>1, <3>1, <3>2 DEF Steady, Tidy, OneReview, UnderReview, Pending
  <2>. QED
    BY <2>2, <2>3, <2>4, <2>5 DEF Outcome, Tidy
<1>4. ASSUME NEW u \in Users, ProviderEvent(u) \/ AdminEdit(u)
      PROVE  Outcome
  <2>1. UNCHANGED <<sub, task, crashes>> /\ events' = events + 1
    BY <1>4 DEF ProviderEvent, AdminEdit, Event
  <2>2. events' # 0 /\ events' + crashes' # 0
    BY <1>1, <2>1
  <2>3. Hands'
    BY <2>1, <2>2 DEF Steady, Hands, Free, Fits, SameUtr, Pending
  <2>4. LiveUtrUnique' /\ VerdictStands
    BY <2>1 DEF Steady, Tidy, LiveUtrUnique, VerdictStands
  <2>. QED
    BY <2>2, <2>3, <2>4 DEF Outcome, Tidy
<1>5. CASE Crash
  <2>1. UNCHANGED <<user, sub, events>> /\ crashes' = crashes + 1
    BY <1>5 DEF Crash, rows
  <2>2. Hands'
    BY <1>5 DEF Crash, Hands, Free
  <2>. QED
    BY <1>1, <2>1, <2>2, Unmoved DEF Outcome
<1>. QED
  BY <1>2, <1>3, <1>4, <1>5

LEMMA NextAlone ==
  ASSUME Steady, Sole', [Next]_vars
  PROVE  Outcome
  BY BeginsAlone, CheckingAlone, RecordingAlone, MarkingAlone, ActivatingAlone,
     SweepingAlone, CreatingAlone, DecidingAlone, ExpiringAlone, OutsideAlone
     DEF Next, Continue

LEMMA InitAlone == Init => Hands /\ Tidy /\ Sole
  BY DEF Init, Hands, Tidy, Sole, Free, LiveUtrUnique, UnderReviewHasPending, OneReview,
         Pending, NoSubmission

(* While one handler at a time is in flight a verdict stands, a reference is *)
(* on one live submission, who is told of a review has one, and who has paid *)
(* stays active (the checks of submitManualPayment and approveSubmission,    *)
(* and the order of the writes of every handler).                            *)
THEOREM ReviewsAreSound == MCSpec => ReviewIsSound
<1>. DEFINE Inv == Safe /\ (serial => Sole /\ Hands /\ Tidy)
<1>1. MCInit => Inv
  BY InitSafe, InitAlone DEF MCInit
<1>2. ASSUME Inv, [MCNext]_MCVars
      PROVE  /\ Inv'
             /\ serial => Outcome
  <2>1. [Next]_vars /\ serial' = serial
    BY <1>2 DEF MCNext, Circumstance, MCVars
  <2>2. Safe'
    BY <1>2, <2>1, NextSafe
  <2>3. serial => Sole'
    <3>1. CASE MCNext
      BY <3>1 DEF MCNext, Circumstance, OneTask, Sole, Mine, Free
    <3>2. CASE UNCHANGED MCVars
      BY <1>2, <3>2 DEF MCVars, vars, Sole, Mine, Free
    <3>. QED
      BY <1>2, <3>1, <3>2
  <2>4. serial => Outcome
    BY <1>2, <2>1, <2>3, NextAlone DEF Steady
  <2>. QED
    BY <2>1, <2>2, <2>3, <2>4 DEF Outcome
<1>3. ASSUME Inv, [MCNext]_MCVars
      PROVE  [serial => /\ VerdictStands
                        /\ LiveUtrUnique'
                        /\ events' = 0 => UnderReviewHasPending'
                        /\ events' + crashes' = 0 => StaysActive]_vars
  BY <1>2, <1>3 DEF Outcome, Tidy
<1>. HIDE DEF Inv
<1>. QED
  BY <1>1, <1>2, <1>3, PTL DEF MCSpec, ReviewIsSound
=============================================================================
