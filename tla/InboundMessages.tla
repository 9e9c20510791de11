-------------------------- MODULE InboundMessages --------------------------
(***************************************************************************)
(* What becomes of a customer's message: Meta posts payloads to the webhook*)
(* (WebhooksController.receive), which stores each message once and hands  *)
(* it to the process-incoming queue; IncomingMessageProcessor.handle gives *)
(* it to the execution that waits for it or starts one, and hands that to  *)
(* the execute-workflow queue.                                             *)
(*                                                                         *)
(* Every await of the two handlers is a step of its own: deliveries of one *)
(* payload, webhooks of one contact and workers overlap, and any of them   *)
(* may be cut off between two steps.  The walk of an execution is one step *)
(* here; WorkflowRuns models it.                                           *)
(***************************************************************************)
EXTENDS Integers, Sequences

CONSTANTS
  Contacts,       \* customers who write
  Messages,       \* provider message ids
  From,           \* the contact of each message
  Keywords,       \* the messages that ask for a fresh booking
  Payloads,       \* sequences of messages, as Meta batches them
  Hooks,          \* webhook requests in progress at a time
  Workers,        \* process-incoming workers (one per server process)
  None,           \* an idle request or worker
  Settings,       \* the circumstances to consider
  MaxFaults,      \* bound on faults
  MaxExecs,       \* bound on executions
  RetryLimit      \* retryLimit of the process-incoming queue

(* A database call of a webhook fails; a webhook or a worker is cut off.     *)
FaultKinds == {"error", "cutHook", "cutWorker"}

(* Circumstances: the payloads Meta has to send, the contacts with a row and *)
(* a conversation from the start, the requests that are used, the faults     *)
(* that may happen, and the deliveries that no failure explains at most.     *)
Setting == [payloads : SUBSET Payloads, known : SUBSET Contacts, hooks : SUBSET Hooks,
            faults : SUBSET FaultKinds, duplicates : Nat]

ASSUME ConstantsOK ==
  /\ From \in [Messages -> Contacts]
  /\ Keywords \subseteq Messages
  /\ \A p \in Payloads : p \in Seq(Messages)
  /\ Settings \subseteq Setting
  /\ \A n \in {MaxFaults, MaxExecs, RetryLimit} : n \in Nat

Tables == {"contact", "conversation"}
Execs == 1..MaxExecs

VARIABLES
  setting,        \* the circumstances of this behaviour
  post,           \* what Meta knows of each payload: "unsent", "sent", "acked"
  rows,           \* the contacts and conversations rows
  stored,         \* the incoming messages rows (unique by provider id)
  hook,           \* the webhook requests
  jobs,           \* process-incoming jobs of a message, by attempts had
  worker,         \* the handlers of those jobs
  exec,           \* the workflow_executions rows; a lower id is an older one
  recent,         \* waiting executions, the last updated first
  runs,           \* execute-workflow jobs of an execution
  heard,          \* history: messages a walk has begun with
  dismissed,      \* history: messages that were found to need no walk
  used,           \* history: how often (0, 1, many) a message went to an execution
  duplicates, faults

provider == <<post, duplicates>>
database == <<rows, stored>>
engine == <<exec, recent, runs>>
history == <<heard, dismissed, used>>
vars == <<setting, provider, database, hook, jobs, worker, engine, history, faults>>

NoExec == [status |-> "none", contact |-> CHOOSE c \in Contacts : TRUE,
           message |-> CHOOSE m \in Messages : TRUE]

Init ==
  /\ setting \in Settings
  /\ post = [p \in Payloads |-> "unsent"]
  /\ rows = setting.known \X Tables
  /\ stored = {}
  /\ hook = [h \in Hooks |-> None]
  /\ jobs = [m \in Messages |-> [t \in 0..RetryLimit |-> 0]]
  /\ worker = [w \in Workers |-> None]
  /\ exec = [e \in Execs |-> NoExec]
  /\ recent = << >>
  /\ runs = [e \in Execs |-> 0]
  /\ heard = {}
  /\ dismissed = {}
  /\ used = [m \in Messages |-> 0]
  /\ duplicates = 0
  /\ faults = 0

Without(seq, e) == SelectSeq(seq, LAMBDA x : x # e)

Fault(kind) == /\ kind \in setting.faults
               /\ faults < MaxFaults
               /\ faults' = faults + 1

-----------------------------------------------------------------------------
(* Meta posts a payload until it is answered 200: again after a request that *)
(* died, and sometimes for no reason that we see.                            *)
Deliver(h, p) ==
  /\ hook[h] = None
  /\ h \in setting.hooks /\ p \in setting.payloads
  /\ \/ /\ post[p] # "acked"
        /\ \A g \in Hooks : hook[g] # None => hook[g].payload # p
        /\ UNCHANGED duplicates
     \/ /\ post[p] # "unsent"
        /\ duplicates < setting.duplicates
        /\ duplicates' = duplicates + 1
  /\ post' = [post EXCEPT ![p] = IF @ = "unsent" THEN "sent" ELSE @]
  /\ hook' = [hook EXCEPT ![h] = [payload |-> p, todo |-> p, at |-> "check"]]
  /\ UNCHANGED <<setting, database, jobs, worker, engine, history, faults>>

(* The request is at a step of the message it works on.                      *)
Working(h, at) ==
  /\ hook[h] # None
  /\ hook[h].todo # << >>
  /\ hook[h].at = at

Message(h) == Head(hook[h].todo)

GoTo(h, at) == hook' = [hook EXCEPT ![h].at = at]

NextMessage(h) ==
  hook' = [hook EXCEPT ![h] =
    [payload |-> @.payload, todo |-> Tail(@.todo), at |-> "check"]]

(* catch: the error is logged, the rest of the payload is left.              *)
Abandon(h) ==
  hook' = [hook EXCEPT ![h] =
    [payload |-> @.payload, todo |-> << >>, at |-> "check"]]

(* Mutant of CheckDuplicate: a known message ends the loop.                  *)
CheckDuplicateBreaks(h) ==
  /\ Working(h, "check")
  /\ IF Message(h) \in stored THEN Abandon(h) ELSE GoTo(h, "contact")
  /\ UNCHANGED <<setting, provider, database, jobs, worker, engine, history, faults>>

CheckDuplicate(h) ==
  /\ Working(h, "check")
  /\ IF Message(h) \in stored THEN NextMessage(h) ELSE GoTo(h, "contact")
  /\ UNCHANGED <<setting, provider, database, jobs, worker, engine, history, faults>>

(* findOrCreateContact, then findOrCreateConversation: a look-up and, when   *)
(* nothing is found, an insert, which a unique index refuses when another    *)
(* request has been faster.                                                  *)
AfterTable(t) == IF t = "contact" THEN "conversation" ELSE "store"

Creating(t) == IF t = "contact" THEN "createContact" ELSE "createConversation"

FindRow(h, t) ==
  /\ Working(h, t)
  /\ GoTo(h, IF <<From[Message(h)], t>> \in rows THEN AfterTable(t) ELSE Creating(t))
  /\ UNCHANGED <<setting, provider, database, jobs, worker, engine, history, faults>>

CreateRow(h, t) ==
  /\ Working(h, Creating(t))
  /\ LET row == <<From[Message(h)], t>>
     IN IF row \in rows THEN Abandon(h) /\ UNCHANGED rows
        ELSE rows' = rows \cup {row} /\ GoTo(h, AfterTable(t))
  /\ UNCHANGED <<setting, provider, stored, jobs, worker, engine, history, faults>>

(* Mutant of StoreMessage: a message stored before counts as new.            *)
StoreMessageAgain(h) ==
  /\ Working(h, "store")
  /\ stored' = stored \cup {Message(h)}
  /\ GoTo(h, "enqueue")
  /\ UNCHANGED <<setting, provider, rows, jobs, worker, engine, history, faults>>

(* storeIncomingMessage: one transaction; a unique violation means that a    *)
(* concurrent delivery has stored the message, and nothing is enqueued.      *)
StoreMessage(h) ==
  /\ Working(h, "store")
  /\ stored' = stored \cup {Message(h)}
  /\ IF Message(h) \in stored THEN NextMessage(h) ELSE GoTo(h, "enqueue")
  /\ UNCHANGED <<setting, provider, rows, jobs, worker, engine, history, faults>>

EnqueueMessage(h) ==
  /\ Working(h, "enqueue")
  /\ jobs' = [jobs EXCEPT ![Message(h)][0] = @ + 1]
  /\ NextMessage(h)
  /\ UNCHANGED <<setting, provider, database, worker, engine, history, faults>>

Reply(h) ==
  /\ hook[h] # None
  /\ hook[h].todo = << >>
  /\ post' = [post EXCEPT ![hook[h].payload] = "acked"]
  /\ hook' = [hook EXCEPT ![h] = None]
  /\ UNCHANGED <<setting, database, jobs, worker, engine, history, duplicates, faults>>

(* A database call fails: the error is caught and the payload acknowledged.  *)
ErrorInHook(h) ==
  /\ hook[h] # None
  /\ hook[h].todo # << >>
  /\ Fault("error")
  /\ Abandon(h)
  /\ UNCHANGED <<setting, provider, database, jobs, worker, engine, history>>

CutHook(h) ==
  /\ hook[h] # None
  /\ Fault("cutHook")
  /\ hook' = [hook EXCEPT ![h] = None]
  /\ UNCHANGED <<setting, provider, database, jobs, worker, engine, history>>

-----------------------------------------------------------------------------
Take(w, m, t) ==
  /\ worker[w] = None
  /\ jobs[m][t] > 0
  /\ jobs' = [jobs EXCEPT ![m][t] = @ - 1]
  /\ worker' = [worker EXCEPT ![w] = [message |-> m, tries |-> t, at |-> "read",
                                      exec |-> 1, paused |-> "none"]]
  /\ UNCHANGED <<setting, provider, database, hook, engine, history, faults>>

Handling(w, at) == worker[w] # None /\ worker[w].at = at

(* The message is no matter for a workflow: the seller has no access, the    *)
(* message is a bot's own, or no published workflow matches it.              *)
Dismiss(w) ==
  /\ Handling(w, "read")
  /\ worker' = [worker EXCEPT ![w].at = "done"]
  /\ dismissed' = dismissed \cup {worker[w].message}
  /\ UNCHANGED <<setting, provider, database, hook, jobs, engine, heard, used, faults>>

Waiting(c) == SelectSeq(recent, LAMBDA e : exec[e].contact = c)

(* The contact's last updated waiting execution, as it is now.               *)
ReadWaiting(w) ==
  /\ Handling(w, "read")
  /\ LET waiting == Waiting(From[worker[w].message])
     IN worker' = [worker EXCEPT ![w] =
          IF waiting = << >> THEN [@ EXCEPT !.at = "start"]
          ELSE [@ EXCEPT !.at = "found", !.exec = Head(waiting),
                         !.paused = exec[Head(waiting)].status]]
  /\ UNCHANGED <<setting, provider, database, hook, jobs, engine, history, faults>>

(* Paused at buttons: "please tap one of the buttons in our last message".   *)
Remind(w) ==
  /\ Handling(w, "found")
  /\ worker[w].paused = "buttons"
  /\ worker[w].message \notin Keywords
  /\ worker' = [worker EXCEPT ![w].at = "done"]
  /\ dismissed' = dismissed \cup {worker[w].message}
  /\ UNCHANGED <<setting, provider, database, hook, jobs, engine, heard, used, faults>>

(* maybeRestartStuckBooking: the execution is cancelled, a new one starts.   *)
CancelStuck(w) ==
  /\ Handling(w, "found")
  /\ worker[w].paused = "buttons"
  /\ worker[w].message \in Keywords
  /\ exec' = [exec EXCEPT ![worker[w].exec].status = "cancelled"]
  /\ recent' = Without(recent, worker[w].exec)
  /\ worker' = [worker EXCEPT ![w].at = "start"]
  /\ UNCHANGED <<setting, provider, database, hook, jobs, runs, history, faults>>

Use(w) ==
  used' = [used EXCEPT ![worker[w].message] = IF @ < 2 THEN @ + 1 ELSE 2]

(* resumeWaitingExecution: the row is written, whatever it is by now.        *)
Resume(w) ==
  /\ Handling(w, "found")
  /\ worker[w].paused = "asking"
  /\ exec' = [exec EXCEPT ![worker[w].exec] =
       [@ EXCEPT !.status = "pending", !.message = worker[w].message]]
  /\ recent' = Without(recent, worker[w].exec)
  /\ worker' = [worker EXCEPT ![w].at = "enqueue"]
  /\ Use(w)
  /\ UNCHANGED <<setting, provider, database, hook, jobs, runs, heard, dismissed, faults>>

Start(w) ==
  /\ Handling(w, "start")
  /\ \E e \in Execs :
       /\ exec[e].status = "none"
       /\ \A d \in Execs : d < e => exec[d].status # "none"
       /\ exec' = [exec EXCEPT ![e] =
            [status |-> "pending", contact |-> From[worker[w].message],
             message |-> worker[w].message]]
       /\ worker' = [worker EXCEPT ![w] = [@ EXCEPT !.at = "enqueue", !.exec = e]]
  /\ Use(w)
  /\ UNCHANGED <<setting, provider, database, hook, jobs, recent, runs>>
  /\ UNCHANGED <<heard, dismissed, faults>>

EnqueueRun(w) ==
  /\ Handling(w, "enqueue")
  /\ runs' = [runs EXCEPT ![worker[w].exec] = @ + 1]
  /\ worker' = [worker EXCEPT ![w].at = "done"]
  /\ UNCHANGED <<setting, provider, database, hook, jobs, exec, recent, history, faults>>

Finish(w) ==
  /\ Handling(w, "done")
  /\ worker' = [worker EXCEPT ![w] = None]
  /\ UNCHANGED <<setting, provider, database, hook, jobs, engine, history, faults>>

(* Mutant of CutWorker: the job is gone with the worker.                     *)
CutWorkerForgets(w) ==
  /\ worker[w] # None
  /\ Fault("cutWorker")
  /\ worker' = [worker EXCEPT ![w] = None]
  /\ UNCHANGED <<setting, provider, database, hook, jobs, engine, history>>

(* The worker dies or its handler throws: pg-boss offers the job again, up   *)
(* to the limit.                                                             *)
CutWorker(w) ==
  /\ worker[w] # None
  /\ Fault("cutWorker")
  /\ LET m == worker[w].message
         t == worker[w].tries
     IN jobs' = IF t = RetryLimit THEN jobs ELSE [jobs EXCEPT ![m][t + 1] = @ + 1]
  /\ worker' = [worker EXCEPT ![w] = None]
  /\ UNCHANGED <<setting, provider, database, hook, engine, history>>

(* A walk: it begins with the message the row holds and ends waiting for an  *)
(* answer, waiting at buttons or completed.                                  *)
Walk(e, end) ==
  /\ runs[e] > 0
  /\ runs' = [runs EXCEPT ![e] = @ - 1]
  /\ exec' = [exec EXCEPT ![e].status = end]
  /\ recent' = IF end = "completed" THEN Without(recent, e)
               ELSE <<e>> \o Without(recent, e)
  /\ heard' = heard \cup {exec[e].message}
  /\ UNCHANGED <<setting, provider, database, hook, jobs, worker>>
  /\ UNCHANGED <<dismissed, used, faults>>

-----------------------------------------------------------------------------
HandleHook(h) ==
  \/ CheckDuplicate(h)
  \/ \E t \in Tables : FindRow(h, t) \/ CreateRow(h, t)
  \/ StoreMessage(h) \/ EnqueueMessage(h) \/ Reply(h)

TakeJob(w) == \E m \in Messages, t \in 0..RetryLimit : Take(w, m, t)

HandleJob(w) ==
  \/ Dismiss(w) \/ ReadWaiting(w) \/ Remind(w) \/ CancelStuck(w) \/ Resume(w)
  \/ Start(w) \/ EnqueueRun(w) \/ Finish(w)

WalkOn(e) == \E end \in {"asking", "buttons", "completed"} : Walk(e, end)

Next ==
  \/ \E h \in Hooks : \/ \E p \in Payloads : Deliver(h, p)
                      \/ HandleHook(h) \/ ErrorInHook(h) \/ CutHook(h)
  \/ \E w \in Workers : TakeJob(w) \/ HandleJob(w) \/ CutWorker(w)
  \/ \E e \in Execs : WalkOn(e)

Spec == Init /\ [][Next]_vars

Redeliver(p) == post[p] = "sent" /\ \E h \in Hooks : Deliver(h, p)

(* Meta posts what it got no answer for again, requests that live run to     *)
(* their end, and the workers of the two queues poll.  Jobs are taken in     *)
(* turn: no message's jobs are passed over for ever.                         *)
FairSpec ==
  /\ Spec
  /\ \A p \in Payloads : SF_vars(Redeliver(p))
  /\ \A h \in Hooks : WF_vars(HandleHook(h))
  /\ \A w \in Workers : WF_vars(HandleJob(w))
  /\ \A m \in Messages :
       SF_vars(\E w \in Workers, t \in 0..RetryLimit : Take(w, m, t))
  /\ \A e \in Execs : WF_vars(WalkOn(e))

-----------------------------------------------------------------------------
TypeOK ==
  /\ setting \in Settings
  /\ post \in [Payloads -> {"unsent", "sent", "acked"}]
  /\ rows \subseteq Contacts \X Tables
  /\ stored \subseteq Messages
  /\ hook \in [Hooks -> {None} \cup
       [payload : Payloads, todo : Seq(Messages),
        at : {"check", "store", "enqueue", "createContact", "createConversation"}
             \cup Tables]]
  /\ jobs \in [Messages -> [0..RetryLimit -> Nat]]
  /\ worker \in [Workers -> {None} \cup
       [message : Messages, tries : 0..RetryLimit, exec : Execs,
        at : {"read", "found", "start", "enqueue", "done"},
        paused : {"none", "asking", "buttons"}]]
  /\ exec \in [Execs -> [status : {"none", "pending", "asking", "buttons",
                                   "completed", "cancelled"},
                         contact : Contacts, message : Messages]]
  /\ recent \in Seq({e \in Execs : exec[e].status \in {"asking", "buttons"}})
  /\ runs \in [Execs -> Nat]
  /\ heard \subseteq Messages
  /\ dismissed \subseteq Messages
  /\ used \in [Messages -> 0..2]

(* "Persists an inbound message idempotently": however often and however     *)
(* simultaneously Meta delivers a message, at most one execution is started  *)
(* or resumed with it, once.  (Where no worker dies: a retried job handles   *)
(* its message again.)                                                       *)
HandledOnce ==
  "cutWorker" \notin setting.faults => \A m \in Messages : used[m] <= 1

(* What was acknowledged is kept: Meta will not send a payload again that it *)
(* was answered 200 for, so each of its messages must have been stored.      *)
(* (Where no call fails and the contacts are known.)                         *)
AcknowledgedIsKept ==
  "error" \notin setting.faults /\ setting.known = Contacts =>
    \A p \in Payloads : post[p] = "acked" =>
      \A i \in 1..Len(p) : p[i] \in stored

(* Every message a customer sees as received in the inbox is in the end      *)
(* heard by the bot: a walk begins with it, or it is found to need none.     *)
(* (Where no request fails or is cut off between storing and enqueueing.)    *)
EveryMessageHeard ==
  stored # {} /\ setting.faults \cap {"error", "cutHook"} = {}
    ~> stored \subseteq heard \cup dismissed
=============================================================================
