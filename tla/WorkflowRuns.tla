---------------------------- MODULE WorkflowRuns ----------------------------
(***************************************************************************)
(* Running a seller's WhatsApp workflow: WorkflowExecutionService walks the*)
(* published graph from job to job, pausing where a node waits for the     *)
(* customer; IncomingMessageProcessor and InteractiveMessageHandlerService *)
(* resume it when the customer writes or taps a button; pg-boss hands      *)
(* execute-workflow jobs to workers at least once.                         *)
(*                                                                         *)
(* The walk keeps its context in memory and saves it when it pauses, is    *)
(* delayed or completes.  What decides where the next walk starts are the  *)
(* context's own flags (__resuming, __paused_at_node_id,                   *)
(* __resume_at_node_id, __resumed_from_interactive_message), and they      *)
(* outlive the step they were set for: that is what this module is about.  *)
(*                                                                         *)
(* A flow is a chain of nodes, by kind; the validator refuses cycles, so   *)
(* the walk's 'visited' and MAX_NODES never stop it.  "pick" stands for    *)
(* every node that sends buttons or a list and waits for a tap, "send" for *)
(* every node that acts and goes on (send_message, create_catalog_order,   *)
(* save_lead), "ask" for collect_input, "photo" for                        *)
(* collect_payment_screenshot and "book" for book_slot.                    *)
(***************************************************************************)
EXTENDS Integers, Sequences

CONSTANTS
  Settings,       \* the workflows and circumstances to consider
  Contacts,       \* customers of the seller
  Workers,        \* job workers (one per server process)
  None,           \* an idle worker, a tap that has not come
  MaxExecs,       \* bound on executions
  MaxMessages,    \* bound on text messages
  MaxTaps,        \* bound on taps of a button
  MaxRetries      \* retryLimit of the execute-workflow queue

Kinds == {"trigger", "send", "ask", "photo", "pick", "book", "delay"}

Execs == 1..MaxExecs

(* Circumstances: the published workflow, the customers and workers there    *)
(* are, whether customers write only when nothing is running, how much they  *)
(* write and tap, and how many nodes fail or workers crash.                  *)
Setting == [flow : Seq(Kinds) \ {<< >>}, contacts : SUBSET Contacts,
            workers : SUBSET Workers, patient : BOOLEAN, execs : 0..MaxExecs,
            messages : 0..MaxMessages, taps : 0..MaxTaps, faults : Nat]

Contexts ==
  [resuming : BOOLEAN, paused : Nat, resumeAt : Nat, tapped : BOOLEAN, message : Nat,
   image : BOOLEAN, answers : Seq(Nat), attached : BOOLEAN, taken : BOOLEAN]

(* A node that books has a list of slots to go back to; no walk is None.     *)
ASSUME ConstantsOK ==
  /\ \A n \in {MaxExecs, MaxMessages, MaxTaps, MaxRetries} : n \in Nat
  /\ MaxExecs > 0 /\ Contacts # {}
  /\ Settings \subseteq Setting
  /\ \A s \in Settings : (\E n \in 1..Len(s.flow) : s.flow[n] = "book") =>
                         \E n \in 1..Len(s.flow) : s.flow[n] = "pick"
  /\ None \notin [exec : Execs, tries : Nat, at : {"walk", "pause", "done"}, node : Nat,
                  ctx : Contexts]

VARIABLES
  setting,        \* the circumstances of this behaviour
  exec,           \* the workflow_executions rows; a lower id is an older one
  recent,         \* waiting executions, the last updated first
  jobs,           \* queued jobs of an execution, by the attempts they have had
  run,            \* the walk each worker is in
  tapState,       \* user_workflow_state: the node whose buttons a contact holds
  tap,            \* the webhook handlers of the taps, in the order they came
  booked,         \* executions that hold a booking for the slot they carry
  ran,            \* history: how often (0, 1, many) a node acted
  asked,          \* history: messages received when a node first asked
  messages, faults

history == <<ran, asked>>
bounds == <<messages, faults>>
vars == <<setting, exec, recent, jobs, run, tapState, tap, booked, history, bounds>>

(* The workflow's definition.                                                *)
flow == setting.flow

Nodes == 1..Len(flow)

(* The successor of a node; 0 when there is none.                            *)
After(n) == IF n = Len(flow) THEN 0 ELSE n + 1

-----------------------------------------------------------------------------
(* The fields of an execution's context that the engine decides on: the four *)
(* flags, the last message and whether it was an image, the answers stored,  *)
(* the screenshot attached, and whether the slot carried is somebody else's. *)
NewContext(m) ==
  [resuming |-> FALSE, paused |-> 0, resumeAt |-> 0, tapped |-> FALSE,
   message |-> m, image |-> FALSE, answers |-> [n \in Nodes |-> 0],
   attached |-> FALSE, taken |-> FALSE]

NoExec == [status |-> "none", contact |-> CHOOSE c \in Contacts : TRUE,
           ctx |-> NewContext(0)]

Init ==
  /\ setting \in Settings
  /\ exec = [e \in Execs |-> NoExec]
  /\ recent = << >>
  /\ jobs = [e \in Execs |-> [t \in 0..MaxRetries |-> 0]]
  /\ run = [w \in Workers |-> None]
  /\ tapState = [c \in Contacts |-> 0]
  /\ tap = [i \in 1..MaxTaps |-> None]
  /\ booked = {}
  /\ ran = [e \in Execs |-> [n \in Nodes |-> 0]]
  /\ asked = [e \in Execs |-> [n \in Nodes |-> 0]]
  /\ messages = 0
  /\ faults = 0

NoJobs == \A e \in Execs : \A t \in 0..MaxRetries : jobs[e][t] = 0

Idle == /\ NoJobs
        /\ \A w \in Workers : run[w] = None
        /\ \A i \in 1..MaxTaps : tap[i] # None => tap[i].at = "handled"

(* The sequence without its first e (there is one at most).                  *)
Without(seq, e) ==
  IF \E i \in 1..Len(seq) : seq[i] = e
  THEN LET i == CHOOSE i \in 1..Len(seq) : seq[i] = e
       IN [j \in 1..(Len(seq) - 1) |-> IF j < i THEN seq[j] ELSE seq[j + 1]]
  ELSE seq

Enqueue(e) == jobs' = [jobs EXCEPT ![e][0] = @ + 1]

-----------------------------------------------------------------------------
(* A text or an image from contact c.  The latest waiting execution decides: *)
(* one paused at buttons only answers "please tap", or is cancelled when the *)
(* text asks for a fresh booking; any other one takes the message and goes   *)
(* on; without one the message starts an execution.                          *)
Waiting(c) == {i \in 1..Len(recent) : exec[recent[i]].contact = c}

LatestWaiting(c, e) == \E i \in Waiting(c) : e = recent[i] /\ \A j \in Waiting(c) : i <= j

AtButtons(e) ==
  LET n == exec[e].ctx.paused IN n # 0 /\ flow[n] = "pick"

Arrive == /\ messages < setting.messages
          /\ setting.patient => Idle
          /\ messages' = messages + 1

StartExecution(e) ==
  /\ e <= setting.execs
  /\ exec[e].status = "none"
  /\ \A d \in Execs : d < e => exec[d].status # "none"
  /\ Enqueue(e)

MessageStarts(c, e) ==
  /\ Arrive
  /\ Waiting(c) = {}
  /\ StartExecution(e)
  /\ exec' = [exec EXCEPT ![e] = [status |-> "pending", contact |-> c,
                                  ctx |-> NewContext(messages + 1)]]
  /\ UNCHANGED <<setting, recent, run, tapState, booked, tap, history, faults>>

(* Mutant of MessageRestarts: the execution that waits is not cancelled.     *)
MessageRestartsBeside(c, old, e) ==
  /\ Arrive
  /\ LatestWaiting(c, old)
  /\ AtButtons(old)
  /\ StartExecution(e)
  /\ exec' = [exec EXCEPT ![e] = [status |-> "pending", contact |-> c,
                                  ctx |-> NewContext(messages + 1)]]
  /\ tapState' = [tapState EXCEPT ![c] = 0]
  /\ UNCHANGED <<setting, recent, run, booked, tap, history, faults>>

MessageRestarts(c, old, e) ==
  /\ Arrive
  /\ LatestWaiting(c, old)
  /\ AtButtons(old)
  /\ StartExecution(e)
  /\ exec' = [exec EXCEPT ![old].status = "cancelled",
                          ![e] = [status |-> "pending", contact |-> c,
                                  ctx |-> NewContext(messages + 1)]]
  /\ recent' = Without(recent, old)
  /\ tapState' = [tapState EXCEPT ![c] = 0]
  /\ UNCHANGED <<setting, run, booked, tap, history, faults>>

MessageResumes(c, e, isImage) ==
  /\ Arrive
  /\ LatestWaiting(c, e)
  /\ ~AtButtons(e)
  /\ exec' = [exec EXCEPT ![e] =
       [@ EXCEPT !.status = "pending",
                 !.ctx = [exec[e].ctx EXCEPT !.message = messages + 1, !.image = isImage,
                                             !.resuming = TRUE]]]
  /\ recent' = Without(recent, e)
  /\ Enqueue(e)
  /\ UNCHANGED <<setting, run, tapState, booked, tap, history, faults>>

(* handleButtonResponse: the contact's buttons say where to go on; the       *)
(* execution that goes on is the newest waiting one of the workflow, whoever *)
(* its contact is.  The handler finds it, resumes it whatever it has become  *)
(* by then, and clears the contact's buttons last, by which time the walk    *)
(* may have been run (inline, when there is no queue) and have sent others.  *)
WaitingIds == {recent[i] : i \in 1..Len(recent)}

NewestWaiting(e) == e \in WaitingIds /\ \A d \in WaitingIds : d <= e

TapArrives(i, c) ==
  /\ tap[i] = None
  /\ i <= setting.taps /\ \A j \in 1..(i - 1) : tap[j] # None
  /\ setting.patient => Idle
  /\ tapState[c] # 0

(* Where the options of a node's buttons lead: on, or back to earlier ones    *)
(* (the retry menu of list_slots).                                           *)
Options(n) == {After(n)} \cup {m \in 1..(n - 1) : flow[m] = "pick"}

(* The option leads nowhere, or nothing waits.                               *)
TapEnds(i, c) ==
  /\ TapArrives(i, c)
  /\ 0 \in Options(tapState[c]) \/ WaitingIds = {}
  /\ tap' = [tap EXCEPT ![i] = [at |-> "handled", contact |-> c, exec |-> 1, next |-> 0]]
  /\ tapState' = [tapState EXCEPT ![c] = 0]
  /\ UNCHANGED <<setting, exec, recent, jobs, run, booked, history, bounds>>

TapFinds(i, c) ==
  /\ TapArrives(i, c)
  /\ \E e \in Execs, n \in Options(tapState[c]) \ {0} :
       /\ NewestWaiting(e)
       /\ tap' = [tap EXCEPT ![i] = [at |-> "found", contact |-> c, exec |-> e, next |-> n]]
  /\ UNCHANGED <<setting, exec, recent, jobs, run, tapState, booked, history, bounds>>

Handling(i, at) == tap[i] # None /\ tap[i].at = at

(* resumeWorkflowAtNode.  The option may stand for a slot that somebody else *)
(* has booked in the meantime.                                               *)
TapResumes(i, slotTaken) ==
  /\ Handling(i, "found")
  /\ slotTaken => flow[tap[i].next] = "book"
  /\ LET e == tap[i].exec
     IN /\ exec' = [exec EXCEPT ![e] =
             [@ EXCEPT !.status = "running",
                       !.ctx = [exec[e].ctx EXCEPT
                                  !.tapped = TRUE, !.resuming = TRUE, !.paused = 0,
                                  !.resumeAt = tap[i].next, !.taken = slotTaken]]]
        /\ recent' = Without(recent, e)
        /\ booked' = booked \ {e}
        /\ Enqueue(e)
  /\ tap' = [tap EXCEPT ![i].at = "resumed"]
  /\ UNCHANGED <<setting, run, tapState, history, bounds>>

TapClears(i) ==
  /\ Handling(i, "resumed")
  /\ tapState' = [tapState EXCEPT ![tap[i].contact] = 0]
  /\ tap' = [tap EXCEPT ![i].at = "handled"]
  /\ UNCHANGED <<setting, exec, recent, jobs, run, booked, history, bounds>>

-----------------------------------------------------------------------------
(* Mutant of Entry: a paused walk starts again at the trigger.               *)
EntryIgnoringPause(ctx) ==
  IF ctx.resuming /\ ctx.resumeAt # 0 THEN ctx.resumeAt ELSE 1

(* execute: where a walk starts.                                             *)
Entry(ctx) ==
  IF ctx.tapped /\ ctx.resumeAt # 0 THEN ctx.resumeAt
  ELSE IF ctx.resuming /\ ctx.paused # 0 THEN ctx.paused
  ELSE IF ctx.resuming /\ ctx.resumeAt # 0 THEN ctx.resumeAt
  ELSE 1

(* A worker takes a job, whatever the execution's status is by now.          *)
BeginRun(w, e, t) ==
  /\ w \in setting.workers
  /\ run[w] = None
  /\ jobs[e][t] > 0
  /\ jobs' = [jobs EXCEPT ![e][t] = @ - 1]
  /\ exec' = [exec EXCEPT ![e].status = "running"]
  /\ recent' = Without(recent, e)
  /\ run' = [run EXCEPT ![w] = [exec |-> e, tries |-> t, at |-> "walk",
                                node |-> Entry(exec[e].ctx), ctx |-> exec[e].ctx]]
  /\ UNCHANGED <<setting, tapState, tap, booked, history, bounds>>

Walking(w, kind) ==
  /\ run[w] # None
  /\ run[w].at = "walk"
  /\ run[w].node # 0
  /\ flow[run[w].node] = kind

Act(w) ==
  ran' = [ran EXCEPT ![run[w].exec][run[w].node] = IF @ < 2 THEN @ + 1 ELSE 2]

(* The walk goes on to the next node with context ctx.                       *)
Proceed(w, ctx) ==
  run' = [run EXCEPT ![w] = [@ EXCEPT !.node = After(run[w].node), !.ctx = ctx]]

(* The execution is saved; the job is done when the worker says so.          *)
Leave(w, status, ctx) ==
  /\ exec' = [exec EXCEPT ![run[w].exec] = [@ EXCEPT !.status = status, !.ctx = ctx]]
  /\ recent' = (IF status = "waiting" THEN <<run[w].exec>> ELSE << >>)
                 \o Without(recent, run[w].exec)
  /\ run' = [run EXCEPT ![w].at = "done"]

(* The node has asked the customer; only the next step saves that it waits.  *)
Ask(w, ctx) ==
  /\ run' = [run EXCEPT ![w] = [@ EXCEPT !.at = "pause", !.ctx = ctx]]
  /\ asked' = [asked EXCEPT ![run[w].exec][run[w].node] = IF @ = 0 THEN messages ELSE @]

Pause(w) ==
  /\ run[w] # None
  /\ run[w].at = "pause"
  /\ Leave(w, "waiting", [run[w].ctx EXCEPT !.paused = run[w].node, !.resuming = FALSE])
  /\ UNCHANGED <<setting, jobs, tapState, tap, booked, history, bounds>>

PassTrigger(w) ==
  /\ Walking(w, "trigger")
  /\ Proceed(w, run[w].ctx)
  /\ UNCHANGED <<setting, exec, recent, jobs, tapState, tap, booked, history, bounds>>

Send(w) ==
  /\ Walking(w, "send")
  /\ Act(w)
  /\ Proceed(w, run[w].ctx)
  /\ UNCHANGED <<setting, exec, recent, jobs, tapState, tap, booked, asked, bounds>>

(* Mutant of CollectInput: the flag outlives the answer it announced.        *)
CollectInputKeepingFlag(w) ==
  /\ Walking(w, "ask")
  /\ LET ctx == run[w].ctx
         n == run[w].node
     IN IF ctx.answers[n] # 0 THEN Proceed(w, ctx) /\ UNCHANGED asked
        ELSE IF ctx.resuming
        THEN Proceed(w, [ctx EXCEPT !.answers[n] = ctx.message]) /\ UNCHANGED asked
        ELSE Ask(w, ctx)
  /\ UNCHANGED <<setting, exec, recent, jobs, tapState, tap, booked, ran, bounds>>

(* An answer is the message the execution was resumed with.                  *)
CollectInput(w) ==
  /\ Walking(w, "ask")
  /\ LET ctx == run[w].ctx
         n == run[w].node
     IN IF ctx.answers[n] # 0 THEN Proceed(w, ctx) /\ UNCHANGED asked
        ELSE IF ctx.resuming
        THEN /\ Proceed(w, [ctx EXCEPT !.answers[n] = ctx.message, !.resuming = FALSE])
             /\ UNCHANGED asked
        ELSE Ask(w, ctx)
  /\ UNCHANGED <<setting, exec, recent, jobs, tapState, tap, booked, ran, bounds>>

(* The customer is asked (again) when no image came, or when it cannot be    *)
(* downloaded or attached to the order.                                      *)
CollectScreenshot(w) ==
  /\ Walking(w, "photo")
  /\ LET ctx == run[w].ctx
     IN \/ ctx.attached /\ Proceed(w, ctx) /\ UNCHANGED history
        \/ /\ ~ctx.attached /\ ctx.resuming /\ ctx.image
           /\ Proceed(w, [ctx EXCEPT !.attached = TRUE, !.image = FALSE, !.resuming = FALSE])
           /\ Act(w)
           /\ UNCHANGED asked
        \/ /\ ~ctx.attached
           /\ Ask(w, [ctx EXCEPT !.image = FALSE])
           /\ UNCHANGED ran
  /\ UNCHANGED <<setting, exec, recent, jobs, tapState, tap, booked, bounds>>

(* The buttons are sent and the contact's state remembers the node.          *)
SendButtons(w) ==
  /\ Walking(w, "pick")
  /\ tapState' = [tapState EXCEPT ![exec[run[w].exec].contact] = run[w].node]
  /\ Ask(w, run[w].ctx)
  /\ UNCHANGED <<setting, exec, recent, jobs, tap, booked, ran, bounds>>

(* Mutant of Delay: the walk comes back to the delay itself.                 *)
DelayAgain(w) ==
  /\ Walking(w, "delay")
  /\ Leave(w, "delayed", [run[w].ctx EXCEPT !.resumeAt = run[w].node,
                                            !.resuming = TRUE])
  /\ Enqueue(run[w].exec)
  /\ UNCHANGED <<setting, tapState, tap, booked, history, bounds>>

Delay(w) ==
  /\ Walking(w, "delay")
  /\ Leave(w, "delayed", [run[w].ctx EXCEPT !.resumeAt = After(run[w].node),
                                            !.resuming = TRUE])
  /\ Enqueue(run[w].exec)
  /\ UNCHANGED <<setting, tapState, tap, booked, history, bounds>>

(* book_slot.  A slot that is gone, or that this execution has booked before,*)
(* is a conflict: scheduleWorkflowResume writes the row and enqueues a job   *)
(* for the list of slots, and only then does the walk pause and save its own *)
(* context over it.                                                          *)
SlotList == CHOOSE n \in Nodes : flow[n] = "pick"

BookSlot(w) ==
  /\ Walking(w, "book")
  /\ ~run[w].ctx.taken /\ run[w].exec \notin booked
  /\ booked' = booked \cup {run[w].exec}
  /\ Act(w)
  /\ Proceed(w, run[w].ctx)
  /\ UNCHANGED <<setting, exec, recent, jobs, tapState, tap, asked, bounds>>

SlotConflict(w) ==
  /\ Walking(w, "book")
  /\ run[w].ctx.taken \/ run[w].exec \in booked
  /\ LET e == run[w].exec
     IN /\ exec' = [exec EXCEPT ![e] =
             [@ EXCEPT !.status = "running",
                       !.ctx = [exec[e].ctx EXCEPT
                                  !.resumeAt = SlotList, !.resuming = TRUE,
                                  !.taken = FALSE, !.paused = 0]]]
        /\ recent' = Without(recent, e)
        /\ Enqueue(e)
  /\ run' = [run EXCEPT ![w].at = "pause"]
  /\ UNCHANGED <<setting, tapState, tap, booked, history, bounds>>

Complete(w) ==
  /\ run[w] # None
  /\ run[w].at = "walk"
  /\ run[w].node = 0
  /\ Leave(w, "completed", [run[w].ctx EXCEPT !.resuming = FALSE])
  /\ UNCHANGED <<setting, jobs, tapState, tap, booked, history, bounds>>

(* A node fails: the execution is marked, the job is not retried.            *)
FailNode(w) ==
  /\ run[w] # None
  /\ run[w].at = "walk"
  /\ run[w].node # 0
  /\ faults < setting.faults
  /\ faults' = faults + 1
  /\ Leave(w, "failed", exec[run[w].exec].ctx)
  /\ UNCHANGED <<setting, jobs, tapState, tap, booked, history, messages>>

Acknowledge(w) ==
  /\ run[w] # None
  /\ run[w].at = "done"
  /\ run' = [run EXCEPT ![w] = None]
  /\ UNCHANGED <<setting, exec, recent, jobs, tapState, tap, booked, history, bounds>>

(* The worker's process dies; pg-boss offers its job again, up to the limit. *)
Crash(w) ==
  /\ run[w] # None
  /\ faults < setting.faults
  /\ faults' = faults + 1
  /\ run' = [run EXCEPT ![w] = None]
  /\ jobs' = IF run[w].tries = MaxRetries THEN jobs
             ELSE [jobs EXCEPT ![run[w].exec][run[w].tries + 1] = @ + 1]
  /\ UNCHANGED <<setting, exec, recent, tapState, tap, booked, history, messages>>

-----------------------------------------------------------------------------
Customer ==
  \E c \in setting.contacts :
    \/ \E e \in Execs : \/ MessageStarts(c, e)
                       \/ \E old \in Execs : MessageRestarts(c, old, e)
                       \/ \E isImage \in BOOLEAN : MessageResumes(c, e, isImage)
    \/ \E i \in 1..MaxTaps : TapEnds(i, c) \/ TapFinds(i, c)

Webhook(i) == (\E slotTaken \in BOOLEAN : TapResumes(i, slotTaken)) \/ TapClears(i)

Begin(w) == \E e \in Execs, t \in 0..MaxRetries : BeginRun(w, e, t)

Continue(w) ==
  \/ PassTrigger(w) \/ Send(w) \/ CollectInput(w) \/ CollectScreenshot(w)
  \/ SendButtons(w) \/ Delay(w) \/ BookSlot(w) \/ SlotConflict(w)
  \/ Pause(w) \/ Complete(w) \/ Acknowledge(w)

Next ==
  \/ Customer
  \/ \E i \in 1..MaxTaps : Webhook(i)
  \/ \E w \in Workers : Begin(w) \/ Continue(w) \/ FailNode(w) \/ Crash(w)

Spec == Init /\ [][Next]_vars

(* A worker polls its queue and goes on with what it took, and a webhook's   *)
(* handler runs to its end.  Nothing is assumed of customers.                *)
FairSpec == /\ Spec
            /\ \A w \in Workers : WF_vars(Begin(w) \/ Continue(w))
            /\ \A i \in 1..MaxTaps : WF_vars(Webhook(i))

-----------------------------------------------------------------------------
Context ==
  [resuming : BOOLEAN, paused : 0..Len(flow), resumeAt : 0..Len(flow),
   tapped : BOOLEAN, message : 0..MaxMessages, image : BOOLEAN,
   answers : [Nodes -> 0..MaxMessages], attached : BOOLEAN, taken : BOOLEAN]

TypeOK ==
  /\ setting \in Settings
  /\ exec \in [Execs -> [status : {"none", "pending", "running", "waiting", "delayed",
                                   "completed", "cancelled", "failed"},
                         contact : Contacts, ctx : Context]]
  /\ recent \in Seq(Execs)
  /\ jobs \in [Execs -> [0..MaxRetries -> Nat]]
  /\ run \in [Workers -> {None} \cup
               [exec : Execs, tries : 0..MaxRetries, at : {"walk", "pause", "done"},
                node : 0..Len(flow), ctx : Context]]
  /\ tapState \in [Contacts -> 0..Len(flow)]
  /\ tap \in [1..MaxTaps -> {None} \cup
               [at : {"found", "resumed", "handled"}, contact : Contacts,
                exec : Execs, next : 0..Len(flow)]]
  /\ booked \subseteq Execs
  /\ ran \in [Execs -> [Nodes -> 0..2]]
  /\ asked \in [Execs -> [Nodes -> 0..MaxMessages]]

(* The engine comes to rest: when the customers have said what they have to  *)
(* say, a finite workflow stops producing jobs.  A stale flag that sends a   *)
(* walk back to a node it has left makes it send its messages for ever.      *)
(* (Where nobody taps.)                                                      *)
ComesToRest == setting.taps = 0 => <>[]Idle

(* "Ask & Wait: sends a question, pauses until the contact replies, then     *)
(* stores the answer": a stored answer is a message that came after its      *)
(* question went out, whatever jobs were retried or overlapped.              *)
AnswersFollowQuestions ==
  \A e \in Execs : \A n \in Nodes :
    exec[e].ctx.answers[n] # 0 =>
      asked[e][n] # 0 /\ exec[e].ctx.answers[n] > asked[e][n]

(* No node acts twice for the same execution: no message is sent again, no   *)
(* second order is created, however often it was paused and resumed.  (Where *)
(* no worker crashes, for a retried job starts its walk again.)              *)
ActsOnce ==
  setting.faults = 0 => \A e \in Execs : \A n \in Nodes : ran[e][n] <= 1

(* "Pauses workflow until user responds": an execution that waits at buttons *)
(* can be moved on by its contact, since the state in which a tap is looked  *)
(* up still names the node it waits at.  (Where customers are patient.)      *)
ButtonsWork ==
  setting.patient =>
    \A e \in Execs : exec[e].status = "waiting" /\ AtButtons(e) =>
      tapState[exec[e].contact] = exec[e].ctx.paused
=============================================================================
