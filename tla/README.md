# Models of the micro-saas-api server

The repository is the server of a product for small sellers who talk to their
customers on WhatsApp: customers browse a catalog, order and pay by UPI, book
appointments and talk to workflows the seller has drawn; one kind of seller, the
career business, lets job seekers find jobs. Sellers pay for the product, and
seekers pay the seller, by Razorpay or by UPI with a manual check. It is a NestJS
application over one PostgreSQL database (Prisma) with a job queue in the same
database (pg-boss).

What the models have in common: almost every handler **reads a row, decides, and
writes it later by its id alone**, without a transaction around the two and
without repeating the condition in the write. Handlers come from dashboards,
webhooks, jobs and timers, so they overlap. The models make each such read and
write a step of its own and ask what is left of the rules the code states.

Paths below are relative to the repository (`src/` of this checkout), so
`src/modules/...` is `src/src/modules/...` in `PROJECT.json`.

## Inventory

| Component | State it keeps | Operations | Interacts with | What is hard | What makes it correct |
|---|---|---|---|---|---|
| Catalog order desk (`catalog/catalog-orders.service.ts`, `jobs/catalog-shipping-address.handler.ts`) | `catalog_orders` rows: order status, payment status, address, verdict | create, attachScreenshot, confirm, reject, setShippingAddress, markShipped (and bulk), markDelivered | workflow nodes and jobs call it; it takes stock from products | requests that overlap a verdict; last item; stale writes | no overselling, statuses agree unless a confirmation is taken back, one deduction per order, fulfilment is backed |
| Storefront (`catalog/catalog.service.ts`, the serializer, `list-catalog-*`, `create-catalog-order`, `collect-payment-screenshot` nodes, `catalog-website-order.handler.ts`) | site, categories, products, files, payment settings; a customer's conversation | the seller's edits; browsing by buttons; ordering from WhatsApp and from the website | engine, buttons, order desk | paging while the catalog changes; buttons of old lists; flags of a tap that stay | everything for sale can be reached, one order per wish |
| Manual UPI payments (`billing/manual-payment*.ts`) | `payment_submissions`, the user's subscription columns, `billing_transactions` | submit, approve, reject, expire, admin edit | admin screens, daily job; Razorpay writes the same columns | two verdicts, crashes between statements, stale demotions | unique references, one verdict, paid time is kept, nobody is stuck under review |
| Razorpay billing (`billing/billing.service.ts`, `billing/billing-webhook.controller.ts`, `common/webhook-idempotency`) | subscription columns, `processed_webhook_events`, transactions | webhook, return from checkout, cancel | the provider delivers at least once, in any order | claim before handling, late events, checkout races the webhook | each event applied once, none lost, one transaction per payment, the user ends where the provider is |
| Seeker plans (`career/services/career-seeker-billing.service.ts`, `career-seeker-manual-payment.service.ts`) | the plan columns of `career_profiles` | link, checkout, events, cancel, UPI submit and verdict, expiry | both of the above in the seller's own accounts | several links of one seeker, events of an old one, two ways to pay | who is charged is served, what is paid is kept, reviews end |
| Subscription lifecycle job (`billing/subscription-lifecycle*.ts`) | notified-for columns | daily sweep: remind, expire | writes the columns of billing | crash between notification and column | reminded once, expired only when nothing is paid |
| Workflow engine (`workflows/workflow-execution.service.ts`, `nodes/*`) | `workflow_executions` and their context | execute: walk, pause, delay, complete, fail | queue, inbox, order desk, bookings | flags that outlive their step; retried jobs; walks that overlap | nothing done twice, answers follow questions, comes to rest |
| Templates and setup (`workflows/business-workflow*.ts`, `workflow-template.service.ts`, `workflows.controller.ts`, matching of messages to flows) | `workflows` rows, the business and its use cases | generate, set up, clone, edit, publish, sync, delete; which flow hears a message | engine; settings | setup stops halfway; business changes; synchronisation rewrites what is live | one flow per use case, flows ask before they tell, an upgrade settles |
| Booking conversation (`list-slots`, `list-resources`, `pick-options`, `book-slot`, `booking-node.helpers.ts`) | the context of a booking flow | choosing day, person, time of day, slot; going back | bookings, buttons | choices that outlive a way back; time that passes; nothing free | what is booked was chosen, there is always a way on |
| Buttons (`workflows/interactive-message-handler.service.ts`, `user-state.service.ts`) | `user_workflow_state` | tap, save, clear | webhook and engine write it at the same time | tap races the walk; another customer's execution | buttons work, taps move the tapper's execution |
| Inbound webhook, storage, processing (`webhooks/webhooks.controller.ts`, `inbox/inbox.service.ts`, `jobs/incoming-message.processor.ts`) | contacts, conversations, messages, executions | receive, store, handle (start, resume, restart, remind) | Meta redelivers; two queues | repeated and overlapping deliveries, cut between store and enqueue, two first messages | nothing acknowledged is lost, nothing handled twice, every message heard |
| Job queue (`queue/*`, `jobs/queue.worker.ts`) | pg-boss jobs | enqueue, work, retry, inline fallback | everything above | at least once; workers that die | retries reach the end |
| Slots and time zones (`availability/slot-engine.ts`, `timezone.util.ts`) | none | local time to UTC, slots of a day | bookings, list_slots node | month ends, clock changes, today's past | offered slots are the free ones of the wall clock |
| Bookings (`availability/availability.service.ts`, `booking-notification.service.ts`) | `bookings`, resource's active flag | create, update status, cancel | book_slot node and dashboard; messages not awaited | check then insert, reopening, messages out of order | no double booking, customers are told the truth |
| Career assistant (`career/services/career-bot.service.ts`, onboarding, resume parsing and review, interviews) | `career_profiles` with one JSON column, resumes, matches | messages, uploads, parse and letter tasks, alerts and digests that write the same column | queue, AI, channels | stale write-backs of the column, tasks that come late, crashes between two updates | one master resume, complete means answered, APPLY means what was listed, interviews survive, onboarding ends |
| Job feed and alerts (refresh scheduler, fetcher, sources, upsert, zero-match playbook, instant alerts) | `career_jobs`, the alert state of a profile | refresh, search, store, expire, alert | assistant and matching | searches that run at the same time, passes that overlap | nobody is told of an opening twice |
| Job matching (scoring, AI rerank, feedback) | matches with kept AI verdicts, learned preferences | match, learn | assistant, alerts | many tables of points and clamps | more never hurts, feedback points one way |
| Accounts (`auth/*`, `common/guards/token-auth.guard.ts`) | users, links, sessions | register, sign in, verify, reset, log out | mail; every guarded request | each operation is several statements; old rows spelled otherwise | a reset ends all older links |
| Schedules and calls from outside (`workflows/workflow-schedule.service.ts`, `workflow-webhook.controller.ts`, `workflow-trigger.service.ts`) | trigger columns of a flow, executions, keys of calls | tick, call; publish, edit and withdraw in two statements each | queue, publication | ticks that are late, lost or at once; edits that overlap | no slot missed, no call started twice |
| Inbox (`inbox/inbox.service.ts`, `inbox.controller.ts`) | messages, unread counter | send text, document, buttons, list, image; open a conversation | both channels, flows, the queue | the window of Instagram; counter reset apart from the page | the badge is true, no message outside the window |
| Leads, contacts, dashboards, settings, admin, website pages, integrations | single rows | create, read, update, delete, external calls | | little | |

`PROJECT.json` lists every source file under one of these, with its status.

## The modules

| Module | Models | Checked by |
|---|---|---|
| `CatalogOrders` | the order desk, its stock, and handlers that overlap | `Orders`, `OrdersDoubleDeduct` |
| `OrderLifecycle` | what the desk promises: an order advances in atomic steps | a property of `Orders` |
| `CatalogOrdersProofs`, `ManualPaymentsProofs`, `RazorpayWebhooksProofs`, `SeekerPlansProofs`, `WorkflowRunsProofs`, `InboundMessagesProofs`, `CareerAssistantProofs` | theorems about the modules they are named for | tlapm |
| `OfficeProofs` | theorems about the seven parts in `OfficeParts`: `Bookings`, `Accounts`, `JobFeed`, `Inbox`, `Reminders`, `BookingConversation` and `Triggers` | tlapm |
| `ManualPayments` | submissions, verdicts, expiry and all writers of the subscription columns | `Payments` |
| `RazorpayWebhooks` | the provider's events, their claims, checkout and cancellation | `Webhooks`, `WebhooksLostEvent` |
| `SeekerPlans` | what a seeker pays a seller, both ways | `Seekers` |
| `WorkflowRuns` | the engine's walks, the flags of a context, taps, retries | `Workflows` |
| `InboundMessages` | from Meta's delivery to the execution that hears the message | `Inbound` |
| `CareerAssistant` | a seeker's conversation and everything that writes their profile | `Career` |
| `WorkflowTemplates`, `WorkflowSetup` | every template as a graph; setup and life of a seller's flows; a message's walk through one | `Office` |
| `BookingConversation` | the buttons of a booking flow | `Office` |
| `Storefront` | a shop, its editing, browsing and ordering | `Office`, `ShopOrders` |
| `JobMatching` | scores, kept verdicts, feedback | `Office` |
| `JobFeed` | refreshes, searches, alerts | `Office` |
| `LocalTime`, `SlotEngine` | wall clock and UTC; what customers are offered | `Office`, `SlotsMonthEnd` |
| `Bookings` | bookings of a resource and what customers are told | `Office` |
| `Accounts` | registration, sign-in, sessions, mailed links | `Office` |
| `Reminders` | the daily job of subscriptions and what payments and admins write meanwhile | `Office` |
| `Inbox` | one conversation: sends, what comes in, who looks | `Office` |
| `Triggers` | a schedule's ticks and calls from outside | `Office` |
| `MC...` | flows, calendars, senders and circumstances as definitions for the runs; `MCCatalogOrders` also has the refinement mapping; `OfficeParts` has the parts of `MCOffice` that are proved about, with constants that get their values in `Office.cfg` | |

Definitions named in a comment "Mutant of" are variations of the
definition that follows them; no specification uses them. Each is a mistake
that the property listed with it in `PROJECT.json` finds.

Components that interact are composed where the interaction decides: `ManualPayments`
has all writers of the subscription columns (handlers, sweep, provider, admin),
`InboundMessages` both queues, `WorkflowRuns` the engine with taps and inbound messages,
`Storefront` the shop with the engine and the buttons, `CareerAssistant` the bot with its
tasks, interviews and alerts. `Bookings` and `SlotEngine` meet in `BookingConversation`
as slots that others take. The parts of `MCOffice` share no state in the code, or only
rows one of them does not decide on, and are checked beside each other.

### CatalogOrders

`order` is the table of orders with the columns handlers decide on, `stock` and
`listing` the products, `request` what each handler in flight has read.
`BeginX` is a handler's read with its checks and `X` its write, for
`X` = Create, Attach, SetShippingAddress, Ship, MarkDelivered. `Confirm` is the whole transaction
(read, `updateMany` under the two statuses, conditional decrement of the stock;
when nothing is left, all is rolled back), `Reject` one `updateMany`: they
check in their write. `UpdateProduct` and
`DeleteProduct` are the seller's edits, `Crash` drops the handlers in flight.
`deducted` and `supplied` are history.

### ManualPayments

`user` holds the status and whether the paid period is running (times are
abstracted to none, running, ended), `sub` the submissions, `task` the
handlers with what they have read: submit is check, create, mark; approve is
conflict, activate, record, close; reject is demote, refuse, note; expiry's
write is one transaction on what was read before it; the sweep reads and
writes. `ProviderEvent` and `AdminEdit` are the other writers of the columns;
time is `EndTrial`, `EndPeriod`, `GrowStale`. The platform product is modelled;
the website branch repeats the statements on other columns.

### RazorpayWebhooks

`provider` and `log` are external: the subscription's life as the events the
code reads. `Receive` is the claim (an insert under a unique key), `Apply` the
update of the user by the kind of the event, `Lookup` and `Insert` the two
statements of `recordTransaction`; `BeginCheckout` is
`activateFromCheckout`, `BeginCancel`, `AskProvider` and `Flag` are
`cancelSubscription`. A cycle number stands for the payment that opened it and for
its `current_end`.

### SeekerPlans

`profile` holds the plan columns of one seeker and `mode` the ways of payment the seller
offers. `CreateLink`, `Checkout`, `Cancel` and `Deliver` are the Razorpay side over several
links, with `Addressed` (which profile an event is for) and `Applied` (what it
does); `HasAccess` is `resolveStatus` and decides, as in the code, by the status and the
period. The UPI side is statement by statement as in `ManualPayments`, one handler at
a time, since the overlaps are that module's subject.

### WorkflowRuns

A flow is a chain of nodes by kind. `exec` holds status and context; the
context is the four flags the engine decides on, the last message, the answers
and what the screenshot and booking nodes keep. `run` is the walk of a worker:
`BeginRun` takes a job and computes the `Entry`, one action per kind of node
follows, and `Pause`, `Delay`, `Complete` write the context back, over whatever
is there. Taps are `TapFinds`, `TapResumes`, `TapClears`, as the handler's awaits separate
them. Texts and images are one step here (`MessageStarts`, `MessageRestarts`,
`MessageResumes`); `InboundMessages` takes them apart.

### InboundMessages

`hook` is a webhook request with the messages of its payload still to do;
`CheckDuplicate`, `FindRow`/`CreateRow` (contact, then conversation),
`StoreMessage` (one transaction under a unique key), `EnqueueMessage` and `Reply`
are its awaits. `CreateRow` that meets the unique index, and `ErrorInHook`, are the
`catch` that answers 200. `worker` is `IncomingMessageProcessor.handle`:
`ReadWaiting`, then `Remind`, `CancelStuck`, `Resume` or `Start`, then `EnqueueRun`. An execution's
walk is one step, `Walk`, which begins with the message the row holds at that
moment. Which published workflow a message selects is `WorkflowSetup`'s; here it is a choice
(`Dismiss` or start).

### CareerAssistant

`seeker` is the profile, whose `data` is the JSON column: the staged review, the
pending reupload, the interview, the list that APPLY refers to, what alerts told. `work` is
what each chat worker, task and sender is doing, with the `row` it read: writers that
read the column again write it in one step (`Merge`), writers that keep an older
copy write that copy back (`WriteBack`), as each does in the code. `Hear` and `Route` are the
routing of a message; `Answer`, `Confirm`, `Fill`, `Advance`, `Finish` the onboarding;
`Upload`, `Load`, `ReadFile`, `CreateResume`, `Parse` the way of a file; `Apply` with `ByIndex` what a
number refers to; the `...Session` actions the interview; `BeginSending`, `SendAlert`,
`SaveAlert` the alerts and digests. Crashes, failing AI, files and sends are
bounded by `MaxTroubles`.

### WorkflowTemplates, WorkflowSetup

A flow is a graph whose nodes say what they need to know, what they make known and what they
say; every template of the repository is one, with the choice of a template for a business
and a use case. `row` is the table of workflows; setup is `BeginSetup`, `ArchiveOld`, `SetCategory`,
`SetCases` and `GenerateNext` for each use case, and may be cut off anywhere (`CutSetup`).
`Sync` and `Publish` rewrite flows that are not up to date. `Message` selects a flow
as the matcher does, and `Ask`, `Resume` and the `...Step` actions walk it, with the flow read again at
each resumption.

### BookingConversation

`context` is what the execution keeps, `shown` the buttons of the last message. The operators
`DateMenu`, `ResourceMenu`, `TimePeriodMenu`, `SlotMenu` say what each node offers, `RetryButtons` the ways back when
nothing is free; `Tap` is the button handler with what a way back forgets (`Cleared`). Time
passes in hours (`Tick`), other customers take slots and the seller switches resources off.

### Storefront

The seller's handlers of the site, categories, products, files and payment settings, each
with its guards; `Menu` is the buttons of each node as the pages are cut (`Offered`, `From`, `HasMore`, `Page`), and
`Tap` runs a button that is still valid. `Visit` and `WebsiteOrder` are the public page and its
order link, `CreateOrder` to `AttachScreenshot` the nodes after a choice, with the flags that decide
where a reply goes.

### JobFeed, JobMatching

`JobFeed!lane` is each search that goes on at the same time: `Answer`, `Find` (under the new key, then the old),
`Store`, which a row made meanwhile makes a skip. `BeginAlerts` reads all profiles once, `Alert` sends
and `Remember` writes what was told on top of what was read. `JobMatching` has the rule
score as `RuleScore` with one operator per part, in exact integers; `BeginMatch` and `Match` are the rerank
around the AI's answer, `Applied`, `CoverLetter` and `Dismissed` what feedback teaches.

### LocalTime, SlotEngine, Bookings

`LocalTime!ToUtc` is `zonedLocalDateTimeToUtc` step by step: guess, look at how the
zone shows the guess, correct by the difference of days of the month and of
time, look again. `SlotEngine!Slots` is `slotsForResource` with one opening for the day; its
property compares it with the definition from the zone itself.
`Bookings` has `BeginCreate`/`Create` and `BeginUpdate`/`Update` around the awaits of the two
handlers, and `outbox` for messages that are sent and not awaited.

### Accounts, Reminders, Inbox, Triggers

`Accounts!handler` is where each request stands between its statements: registration is `Register`, `Create`,
then a link (`Void`, `Issue`) and a session; `FollowLink` reads a link, `UseLink`, `WriteUser` and `EndOthers`
are the three updates after it. Several accounts may answer to one address, as rows of before
lowercasing do.

`Reminders!sweep` is the daily job: `Begin` reads all sellers, `Notify` tries a notice that
the row read asks for (`Wanted`, from `Access` and `EndedAt`), `Note` writes the column. `Pay`, `Fall`, `Submit` and `Reject` are
what billing writes to the same row, at any moment, and `Administer` what the admin's `updateUserSubscription` and
`updateUserAccess` do, a field of the request at a time (`ByHand`).

`Inbox!sender` is a sending between its awaits: checks (`Allowed`), upload, call, record; text from the
queue is tried again. `View` and `Clear` are the two statements of opening a conversation.

`Triggers!tick` is a tick on a server: `TakeTick` reads the flow, `Check` decides by the last slot and the
last runs, `StartRun` looks again and starts. Ticks come late, at once or not at all. `Publish`, `Edit` and `Unpublish`
are the first statements of the seller's edits, `Derive` and `ClearColumns` the second. `Claim` and `Invoke` are a call. The schedule
names a few minutes, and time goes from one tick to the next.

## What the runs show

| Run | States | Bounds | What it shows |
|---|---|---|---|
| `Orders` | 882k | two orders, one product, two handlers in flight or one, stock 2, an edit | `NoOversell` and `FulfilledIsBacked` however requests overlap; `StatusesAgree`: so do the two status columns, but for an order whose confirmation a stale screenshot took back; with one handler at a time the desk implements `OrderLifecycle` (`AtomicLifecycle`) |
| `Payments` | 158k | one user, two submissions; one handler at a time with two references and a crash or an event, or two handlers over one reference; fairness | `ReviewEnds`, however handlers overlap; `ReviewIsSound` where they do not: references are unique, verdicts stand, who is under review has something to review (until an event), who is active stays so (until an event or a crash) |
| `Webhooks` | 29k | three circumstances, fairness | `AppliedOnce`, `ChargesRecorded`, `OneTransactionPerPayment`, `SettlesOnProvider` |
| `Workflows` | 289k | nine circumstances, fairness | `ActsOnce`, `AnswersFollowQuestions`, `ButtonsWork`, `ComesToRest` |
| `Inbound` | 42k | three circumstances, fairness | `HandledOnce`, `AcknowledgedIsKept`, `EveryMessageHeard` |
| `Seekers` | 211k | three modes, two links, two submissions, two events of a link, a crash, fairness | `ChargedIsServed`, `PaidAccessKept`, `UnderReviewEnds` |
| `Career` | 125k | fifteen circumstances, two jobs, two questions, one trouble, fairness | `OneMaster`, `CompleteMeansAnswered`, `AppliesToListed`, `InterviewKept`, `Onboards` |
| `Office` | 1430k | eleven parts, below | fifteen properties, below |

`Office` explores each part from initial states of its own, with the bounds in `MCOffice` and `Office.cfg`:

* *matching*: three listings, three seekers, feedback and reranks over changing profiles.
  `MoreNeverHurts`: who offers more never scores less, the first role and the first place of a seeker left out (who
  names none is scored in the middle); `FeedbackPointsOneWay`: a dismissal raises no
  listing, an application lowers none.
* *setup*: every business with two operations, one business with three, three rows. `NeverWithoutFacts`:
  no message of an unchanged product flow names what is not known yet; `SetupServes`: a completed
  setup leaves one flow per use case, and what publication or synchronisation has written, it leaves
  alone from then on.
* *slots*: two dates, four zones of which two have a clock change, three openings, two bookings.
  `OffersAreRight`: the slots offered are exactly the free ones of the wall clock.
* *bookings*: three bookings, three windows, one handler, prompt messages, no reopening. `NoDoubleBooking`,
  `ToldTheTruth`; neither says anything of handlers that overlap, of messages that come late and out of order, or of a booking that is reopened.
* *talk*: three flows, two resources, two hours of the day, one trouble, two changes by others. `PeriodWasChosen`: the
  slots on the phone are of a time of day chosen for the day and person at hand; `AlwaysAWay`: a
  customer who waits behind buttons can tap through to a booking as long as somebody has a slot open
  tomorrow.
* *shop*: four shelves of two categories and three products, pages of one entry, one edit. `EverythingOnOffer`: from
  where a customer is, every product for sale can be reached by tapping.
* *feed*: one listing, two searches at a time, one seeker, two refreshes, a cooldown, a death. `AlertedOnce`.
* *accounts*: two accounts of one address, two passwords, two handlers, three requests, links and sessions that
  run out. `OldLinksAreDead`: after a reset none of the links it found works, however many were alive.
* *reminders*: a trial of two days, periods of three, a window of two, seven days, three changes by payments or the admin, who dates
  to day 3 or 8, a death. `ToldExactlyOnce`: each end is announced at most once and told at most once, and after a run whoever has not changed since
  it read has had what is due. The first part leaves out the `forgiven` (whose columns were written during a run or led back to
  an earlier end, or who was being notified at the death) and the `adjusted` (to whom the admin gave a row that no payment leaves).
* *inbox*: two messages and pages of two, one sender, a death, a window that closes. `InboxIsRight`: the badge counts what
  was not shown; nothing is handed to Instagram outside its window.
* *triggers*: three minutes of which one has a slot, two servers, two editors, two edits, two deliveries, a lost tick. `StartedAsDue`: a
  slot is not missed and starts two runs at most; a call starts one. Calls are made in the first minute, since
  they do not depend on time.

Requests, servers, editors, deliveries and searches of these parts are told apart by nothing but their name, so the run
takes one of two that are mirror images (`Symmetry`); all of its properties are safety properties.

Some properties hold only where something does not happen. Several modules therefore
have a `setting` or a flag, chosen in `Init` and never
changed: it says what the environment does in that behaviour, and the
properties that need it name it in their hypothesis. One run explores all of
its settings:

* `Orders`, `Payments`. *serial* says that handlers do not overlap. `AtomicLifecycle`
  and `ReviewIsSound` need it, the others do not.
* `Webhooks`. *AnyOrder*: three events, two overlapping handlers, the return from checkout,
  any order, no failure. *InOrder*: five events, each delivered when the one before it was answered.
  *Failing*: three events, one handler at a time, one of which fails or crashes, and the
  checkout. `ChargesRecorded` needs that nothing fails,
  `OneTransactionPerPayment` one handler at a time, `SettlesOnProvider`
  the order; `AppliedOnce` needs nothing.
* `Workflows`. *Asked*: flows with questions, a screenshot, a delay; two impatient customers and
  four messages. *Tapped*: flows with buttons and a booking; a patient customer (one
  who writes when nothing is running), two taps. *Retried*: flows of both kinds, two workers, one
  node that fails or worker that crashes, a retry. `ActsOnce` needs that nothing crashes, `ButtonsWork`
  a patient customer, `ComesToRest` that nobody taps; `AnswersFollowQuestions`
  holds in all of them.
* `Inbound`. *Repeated*: a payload of two customers' messages, delivered again while it is
  handled, and a request cut off anywhere. *Retried*: a worker cut off anywhere. *Strangers*:
  two first messages of a customer at the same time, and a failing call. `HandledOnce`
  needs that no worker dies, `AcknowledgedIsKept` that contacts are known and no
  call fails, `EveryMessageHeard` that no request fails or is cut off.
* `Seekers`. `PaidAccessKept` is for sellers who offer one way to pay and until a crash, `ChargedIsServed`
  while one link was paid; `UnderReviewEnds` is for every mode and after crashes, too. It rests on the fairness
  of the module (handlers go on, the expiry job runs daily), and like all of it on one handler at a time.
* `Career`. Newcomers, updaters, an impatient one, an applicant, a candidate, each with the words they use and
  the faults around them; beside alerts, letters and a second reader of files. `Onboards` needs a seeker who
  answers what is asked and does not start anew, `OneMaster` one reader at a time, `AppliesToListed` and `InterviewKept` that no
  alert and no letter is under way (and `AppliesToListed` that lists are sent), `CompleteMeansAnswered` one chat, and for
  seekers who reset that files are confirmed and none is read for an update.
* *feed* of `Office`. `AlertedOnce` needs that two passes of alerts do not go on at the same time and
  that none is cut between a message and its note.

Why these bounds are enough to be of interest: every race in this code is
between two activations over one row, or between one activation and a job; two
activations, two rows and one shared resource make each of them happen, and every
disagreement listed below appears within the same bounds. A third
activation adds a second victim of the same kind. Retries and faults are
bounded by one or two, the code's retry limits are two and three: what matters
is one walk that was cut off and one that repeats it. Three events at the provider
are an activation, its charge and whatever comes next; five also hold a
failed payment, its recovery and a cancellation. In the storefront a page of one entry makes
every boundary of paging happen with two to four entries; three rows of workflows hold a flow of before,
one of the new business and one that was drawn.

All runs turn deadlock checking off: a server with nothing to do stops, and the
bounds end every behaviour.

## Where the code does not do what it says

Four runs end in a violation and are kept as the record of a finding:
`OrdersDoubleDeduct` (two confirmations of one order each deduct stock),
`WebhooksLostEvent` (an event whose handler failed is answered as a duplicate when
it is sent again), `SlotsMonthEnd` (slots of the last day of a month are offered
at wrong times) and `ShopOrders` (a customer who was asked for a screenshot and writes instead
gets a second order). `findings` in `PROJECT.json` quotes the lines.

The other conditions that the properties above carry are there because the code does not hold them
without. What happens without them, and how to see it in TLC:

| What happens | Code | What the repository says | To see it |
|---|---|---|---|
| A screenshot attached over a verdict puts a confirmed or rejected order back under verification | `catalog-orders.service.ts:565` | :554 "Screenshot can only be attached while payment is pending" | `Orders` without `serial` in the mapping: `AtomicLifecycle` |
| After that, an address, a shipment or a delivery that was read of the confirmed order is written: its stage is one of fulfilment, its payment submitted or rejected | `catalog-orders.service.ts:407` | :391 "Order can only be shipped from ready_to_ship" | `Orders`: `StatusesAgree` without `Reopened` |
| An address change during a delivery: the order is delivered from ready_to_ship | `catalog-orders.service.ts:428` | :424 "Order can only be marked delivered from shipped" | the same |
| Two decisions on one submission are both written | `manual-payment.service.ts:363` | :299 "Submission is already ..." | `Payments` without `serial` in `ReviewIsSound`: `VerdictStands` |
| Two submissions keep the same payment reference | `manual-payment.service.ts:138` | :164 "This UPI transaction ID was already submitted" | the same: `LiveUtrUnique` |
| A user reads as under review with nothing to review | `manual-payment.service.ts:204` | :133 "A payment is already under review" | the same: `UnderReviewHasPending` |
| A rejection demotes a user whose subscription became active meanwhile; so does one that follows an approval cut off by a crash | `manual-payment.service.ts:432` | `billing-notification.service.ts:79` "Your subscription is now active until ..." | the same, or without the crash condition: `StaysActive` |
| A rejected renewal ends the rest of the period a cancelled user had paid for | `manual-payment.service.ts:437` | `billing.service.ts:447` "Cancelled: honor the remaining paid period (grace)" | `Demoted` sets `paid` to "none" from any period |
| The same of a seeker whose seller offers UPI beside Razorpay | `career-seeker-manual-payment.service.ts:185` | `career-seeker-billing.service.ts:794` "Access continues until ..." | `Seekers` without `mode # "both"` in `PaidAccessKept` |
| A seeker with two paid links is cancelled by an event of the one that was replaced | `career-seeker-billing.service.ts:673` | the same | `Seekers` without the condition on other links in `ChargedIsServed` |
| A late charge reactivates a cancelled subscription | `billing.service.ts:1063` | :812 "subscription.cancelled ... finalizes the local status" | `Webhooks` without the condition on `inOrder`, `SettlesOnProvider` |
| A tap whose walk has already sent the next buttons clears them | `interactive-message-handler.service.ts:126` | "pauses workflow until user responds" (`interactive-message-node.executor.ts:10`) | a *Tapped* setting with the flow trigger, pick, pick, book, or with trigger, pick, delay, or, for a slot that was lost, trigger, pick, book and two workers or a crash: `ButtonsWork` |
| An option without a next node clears the buttons and leaves the execution waiting at them | `interactive-message-handler.service.ts:85` | the same | *Tapped* with the flow trigger, pick: `ButtonsWork` |
| A tap resumes the newest waiting execution of the workflow, possibly another customer's | `interactive-message-handler.service.ts:96` | the same | *Tapped* with two contacts: `ButtonsWork` |
| A stale resume flag sends a walk back over nodes that have acted (a second order) | `workflow-execution.service.ts:147` | `collect-payment-screenshot-node.executor.ts:12` | *Tapped* with trigger, pick, send, photo: `ActsOnce`; run `ShopOrders` |
| After a delay, a question takes the message before it as its answer | `collect-input-node.executor.ts:33` | :7 "pauses the workflow until the contact replies" | *Asked* with trigger, send, delay, ask: `AnswersFollowQuestions` |
| A delay behind an answered question is reached again and again | `workflow-execution.service.ts:147` | the validator refuses cycles (`workflow-validator.service.ts:68`) | *Asked* with trigger, ask, delay, send: `ComesToRest` |
| A lost slot: the pause overwrites the resumption, book_slot runs for ever | `workflow-execution.service.ts:207` | `book-slot-node.executor.ts:56` "pick another time" | `ComesToRest` without its condition, trigger, pick, pick, book |
| A request cut off between store and enqueue: the bot never hears the message | `webhooks.controller.ts:139` | `inbox.service.ts:129` "Persists an inbound message idempotently" | `EveryMessageHeard` without its condition |
| Of two first messages one violates the unique index; the payload is acknowledged and lost | `inbox.service.ts:94` | the same | `AcknowledgedIsKept` without its condition |
| Two server processes resume one execution with two answers; the first is never read | `incoming-message.processor.ts:235` | `collect-input-node.executor.ts:8` "stores the answer in context" | *Retried* with two `Workers`, no fault, three messages of one customer: `EveryMessageHeard` |
| Two bookings of the same hours; a reopened booking over another one | `availability.service.ts:245`, `:297` | :402 "This time slot is already booked" | *bookings* with two `Requests`, or `Reopening` TRUE: `NoDoubleBooking` |
| A booking approved after a refusal is confirmed without a message | `availability.service.ts:309` | `docs/TURF_BOOKING_SETUP.md:39` | action `Update`, operator `Notices` |
| A reset while an update is read: confirming the update completes the empty profile; where files are not confirmed, the file alone does; a letter asked for before the reset takes the years of experience out again | `career-bot.service.ts:957` | `career-onboarding.util.ts` lists the questions | `Career` without the condition on resets: `CompleteMeansAnswered` |
| Two workers read two files of a seeker: two resumes claim to be the master | `career-bot.service.ts:754` | :751 "leaving multiple rows all claiming to be master" | *Servers* without the condition: `OneMaster` |
| An alert, a letter or a resume that is taken over unasked writes an older copy of the column back: an interview is gone, APPLY means the list before | `career-bot.service.ts:1668` | the list on the phone | *Alerted*, *Lettered* without `Undisturbed` |
| A seeker is told of an opening twice when a pass of alerts dies after the message, or two passes overlap | `career-job-alert.service.ts`, its update after the send | its list of what was told | *feed* without `excused`: `AlertedOnce` |
| A schedule that names one minute is started twice as a rule: the tick of the next minute is within 90 s of the slot, and the run before it is older than 55 s | `workflow-schedule.service.ts:65` | (`recent`, :69, is there to prevent it) | `StartedAsDue` with `Runs(slot) <= 1` |
| Publication and withdrawal that overlap leave a live flow without its schedule or token | `workflow-trigger.service.ts:82` | `workflows.controller.ts:269` (draft and columns go together) | `StartedAsDue` without `crossed` |
| A rejection after a paid period clears its end: the end of the trial is told a second time | `subscription-lifecycle.service.ts:90` | :34 "Idempotent via users.billing_expiring_notified_for ..." | `ToldExactlyOnce` without the condition on `LastEnd` in `Change` |
| Back on a trial or a period whose end was told, by the admin: nothing is told and the status stays; a trial beyond what is sold is announced and told beside a shorter period | `manual-payment.service.ts:550`, `admin.service.ts:489` | `subscription-lifecycle.service.ts:34`, as above | `ToldExactlyOnce` without `adjusted` |
| A message that comes in while a page is put together is never counted as unread | `inbox.controller.ts:98` | (the counter, `inbox.service.ts:165`) | `InboxIsRight` without `late` |

Met while modelling, with no property of their own:

* Storefront. `deleteMedia` leaves `paymentQrMediaId`, and `updatePaymentSettings` can clear the QR while
  payments stay on, though `catalog.service.ts:505` says "Upload a payment QR code before enabling customer
  payments." Products of inactive categories are hidden on WhatsApp and sold on the public page. A
  published site stays up when the add-on ends. A website order cancels only the newest waiting execution.
* Booking flows. A typed day that is unclear outranks the tapped one at every walk, so "Please pick
  *Today* or *Tomorrow*" repeats; "tomorrow" moves with midnight while the conversation waits; list_slots reads words by
  the clock of Kolkata first; a list left overnight still books past slots; a slot list has no way back; a deactivated
  person's slots stay listed and their booking ends silently.
* Flows. Support flows fall back to "Your appointment is confirmed!" (`business-workflow-templates.ts:18`) when
  the AI fails, though nothing was booked. A flow of another business stays live when the business
  changes. Archiving keeps the webhook token. Overlapping setups make duplicates.
* Seekers. "Reply SUBSCRIBE" of a past due seeker creates a second live subscription; a charge after a
  cancellation clears the wish to cancel, as in `billing.service.ts:1070`; `subscription.authenticated` grants an estimated period.
* Career. A cover letter is sent to `letter.profileId` as if it were a contact (`career-bot.service.ts:1511`). A crash
  between the two updates of a confirmation leaves a review that has expired. `APPLY n` past the end of
  the list falls back to the table of matches. A failed alert still replaces the list.
* Jobs. Two first refreshes seed the sample jobs twice, and they stay beside real ones, though
  `career-job.service.ts:67` says that they are never re-inserted, "preventing fake companies from appearing alongside
  real listings". Jobs found in a cooldown, or beyond the top three, are never alerted later.
* Inbox. Any page clears the counter, oldest messages first, so a long conversation reads as seen before its newest
  message was. A text that the queue sends again after a crash is sent twice.
* Schedules. The tick of an every-minute schedule that is late misses its minute. A call before the flow is
  live claims its key (`workflow-webhook.controller.ts:38`): repeated later, it is a duplicate.
* Accounts. Two overlapping requests for a link leave two that work, until a reset ends both.
* Matching. An employer is blocked at the first dismissal, though the parameter is called
  `priorCompanyDismissals` (`career-match-learning.util.ts:207`); an AI verdict that was kept outlives edits of the listing.

Four patterns account for most: the update by id after a check (orders,
payments, bookings), the claim or store that is not undone when what follows
fails (webhooks), flags in a context that outlive the step they were set for (workflows), and the
JSON column that is read, worked on for seconds and written back whole (career).

## Fairness

* Handlers that were started go on (weak fairness): the process is one event loop
  and every await returns, in time or with an error. Crashes end them.
* The expiry job runs every day (`ManualPayments` and `SeekerPlans`, strong fairness of its start for
  each stale submission: the bound on handlers in flight makes it come and go).
* Razorpay and Meta deliver again until they get 200 (strong, for the same reason).
* Workers poll their queues; no queued message is passed over for ever, since
  pg-boss fetches the oldest first (strong fairness per message in `InboundMessages`). In `CareerAssistant`
  chat workers and parse tasks go on with what they have taken up.
* Of customers, sellers and admins nothing is assumed, with one exception: `Onboards` is about a
  seeker who gives the proper answer again and again (`Cooperate`). It cannot be had otherwise: a
  seeker who stops writing is never onboarded.

The parts of `Office` have no fairness, as their properties are safety properties.

## Proofs

Eight modules hold proofs. Each theorem is for any values of the constants (any number of orders, users, handlers, messages,
workers, ...; any graph of nodes, any bounds), under what its module assumes of them; where a property says on which
setting it depends, so does the theorem. TLC looked at each inductive invariant on the run of its module before it was
proved. Where a hypothesis is stronger than the property's, the paragraph says what breaks the theorem without it.

`CatalogOrdersProofs`

* `TypeCorrect`: the type invariant, one step per action.
* `FulfilledAlwaysBacked`: an order on its way has stock deducted, and an address once
  it left "confirmed". This is not inductive: a stale handler writes
  "shipped" over whatever the order has become. The strengthening says what
  a handler in flight may rely on: what it saw deducted stays deducted, an
  address stays, a row never becomes blank again, since rows only grow in these respects
  (`RowsGrow`). The invariant `Desk` is the conjunction of the types, the blank
  rows, the facts requests rely on and the goal.
* `StatusesAlwaysAgree`: the two status columns agree, but for orders that were confirmed, put back by a
  stale screenshot and moved on by another stale handler. Address, shipment and delivery write the
  stage alone; what they rest on is that the order they have read was confirmed once (from `Desk`, above), so
  that where its payment does not read verified now, somebody took the verdict back (`Reopened`).
* `NeverOversold`: paid orders of a product plus its stock never exceed what was
  supplied. The ledger invariant counts orders that ever consumed stock, which
  only a confirmation adds to, and the cardinalities of the library's
  `FiniteSetTheorems` do the rest.
* `SerialIsAtomic`: the refinement. With one request at a time the initial states of the desk map to
  initial states of `OrderLifecycle`, and every step maps to one of its steps or to a stutter. `OneByOne` says that at most one request is in flight, and
  what it has read is still what the row says (`Undisturbed`), up to the seller's edits of a product, which may come
  between; `TakenOnce`, which `SerialDeductsOnce` is read off, that stock was taken at most once, and not before the order was paid.

`ManualPaymentsProofs`

* `TypeCorrect` and `ApprovalsRecorded`: a submission that reads approved has its transaction. What makes it
  inductive is that a handler about to close a submission has left the transaction of that
  same submission (`Closing`), and that whatever else is going on never removes one. That submissions under review belong to
  somebody (`Filed`) is what the types of the handlers' data rest on.
* `ReviewsAreSound`: all four parts of `ReviewIsSound`, with one handler in flight. `Hands` says of each statement of each handler
  what it has read and checked and what therefore still holds when it writes (`Fits`): of submissions
  always, of users as long as no event interferes. `Tidy` relates a user and their submissions between handlers:
  references of live submissions differ, a user has one pending submission at most, and is under review exactly as long as
  there is one, but for the statements between the two writes (`Between`). Of the action property `StaysActive` the invariant
  gives one implication per action (`Outcome`).

`RazorpayWebhooksProofs`

* `TypeCorrect`: the length of the provider's log bounds the cycles and the events handlers work on.
* `EventsAppliedOnce`: the unique key of the claims. The invariant counts claimants: an event that is not claimed has no
  handler and was not applied; one that is claimed has at most one handler that has still to apply it, and if there is
  one it was not applied yet. Overlapping deliveries and crashes included.
* `PaymentsRecordedOnce`: `recordTransaction` looks before it inserts. With one handler, what it found missing
  is still missing when it inserts.
* `ColumnsFollowProvider`: whenever everything emitted has been answered, the user's columns say what the provider
  says. `Chronicle` reads the provider's state off the last event of its log. `Settling` says that the first
  n events are answered, that the columns say what the n-th says, and that the next is unclaimed or with the only handler
  there is. The hypothesis (`Orderly`) is one handler at a time, events in order, no fault and no return from
  checkout: a return after a setback, a failure after the claim, and a duplicate that a second handler answers first
  each leave the columns behind the provider, as the table above and run `WebhooksLostEvent` show.

`SeekerPlansProofs`

* `TypeCorrect`; `Shape` adds that a submission which was made has its reference and that a review is about one of these.
* `PayersAreServed`: a link that is charged has told, or is still to tell, that it was charged, and this is the last it tells
  (`LastWord`); a seeker who was served stays so while no other link is paid (`Served`). Of a seller with Razorpay alone,
  as the property is.
* `PaidIsKept`: the action property that only time ends paid access, for sellers with one way to pay and before a crash. A seeker who never
  paid, or was demoted, has no period (`NoPeriod`); with UPI alone there is one review at most, and who is under
  review has no access to lose (`OneReview`).

`WorkflowRunsProofs`

* `TypeCorrect` and `WhatIsFoundWaits`, for every workflow, with overlapping walks, crashes and retries: what a message or a tap
  finds to go on with waits. The order of last updates and the statuses of the rows are written by the same steps (`RecentIsWaiting`).
* `AnswersAfterQuestions`: a stored answer is a message that came after its question went out, whatever fails. `Answered` says so of the context
  in the row, and of the one each walk carries: a context that is resumed has a message newer than the open
  question it paused at. The hypothesis (`AnsweredInWriting`) is that nobody taps and no node delays: the walk that a delay
  schedules says "resuming", and the next question takes the message before it.
* `NoNodeActsTwice`: where no worker crashes, an execution is in one place: a job, a walk or a row that waits (`OneWalk`), and
  no node from there on has acted (`Unrepeated`). The hypothesis (`DelaysComeFirst`) is that nobody taps or books, and that delays come
  before the first question and not last: after a question the scheduled walk goes back to it, and at
  the end to the trigger. With taps it is false, as `ShopOrders` shows; the flows with taps for which it holds are only model-checked.
* `HeldButtonsWork`: an execution that waits at buttons is the one its contact's tap is looked up for, with any number of workers,
  messages, taps, failing nodes, crashes and retries. That the buttons are held (`ButtonsHeld`) is not inductive: the handler of a
  tap clears them at the end, whatever the walk it started has sent. The invariant adds that one execution at most has a job, a walk or a row that waits (`Sole`),
  that nothing moves while a tap has only found it (`TapsInTurn`), and that from its resumption until
  the buttons are cleared every walk, and every context one could start from, is behind the node with the buttons
  (`BehindButtons`), so that nobody holds what is cleared. The hypothesis (`ButtonsOnce`) is a patient customer, one contact, one
  node with buttons, which leads on as does every delay, and, where slots are booked, one worker and no faults: of a lost
  slot's two contexts the wrong one would be taken (`Overridden`). TLC found a counterexample
  to `ButtonsWork` without each of these conditions: a customer who taps before the walk has saved that it waits, and
  those listed above under "Where the code does not do what it says". The workflows and circumstances of *Tapped* meet them all. The assumption is that a walk is not `None`.

`InboundMessagesProofs`

* `MessagesHandledOnce`: with any number of overlapping deliveries, payloads, requests and workers. The
  invariant (`Once`) says that a stored message is in one place at a time: at one request that will enqueue it, in one
  job, at one worker that has not passed it on, or passed on; and that a message that is not stored is nowhere. Each
  lemma is one move between these places. Where a worker may die the property claims nothing, as a
  retried job handles its message again.
* `NothingAcknowledgedIsLost`: what was answered 200 is stored, message by message, where contacts are known and no call fails. What a
  request has stored and what it has still to do make up its payload (`NothingLeftOut`), so that at the end all is stored.

`CareerAssistantProofs` proves all the safety properties of run `Career`, for any settings, questions, lists, rounds and
numbers of chats, tasks and senders, crashes and retries included (`CareerConstants` are the assumptions).

* `TypeCorrect`: besides the types, `WellFormed` says who may be at what step (`May`): letters only where letters are
  asked for, tasks that fill in a profile only where nothing is confirmed, no row of a profile that was not yet made.
* `OneResumeIsMaster`: with one worker for tasks, at most one task is past the queue, and when it creates its resume the
  flag has been taken from the others, or its profile is gone (`Master`).
* `CompleteProfilesHaveAnswers`: what is known of the row is known of the copy each worker carries. `RowRight` says of a row
  that it is complete only with all answers, that the questions before the one it is at are answered, and that an update awaits
  a profile that was complete. `Know` says of a worker that the answers in its copy are in the row (a deleted row aside), so
  that writing the old copy back loses none: rows only get fuller (`Fuller`), except by a reset, which is why the property
  excludes what it does.
* `InterviewsAreKept` and `ApplicationsAreMeant`: both rest on `Conversed`. Where one chat is served and nothing
  else saves lists (`Undisturbed`), the copy of the column that the chat carries has the session and the list as they are;
  where moreover nothing crashes and every reply arrives, the list on the phone is the one that was saved, or about to be
  shown (`OnPhone`), so that number n means the same job to the seeker and to the assistant. Tasks that read a resume
  go on beside it, and are shown to leave both keys alone (`TasksLeave`).

The proofs corrected three conditions: a letter asked for before a reset writes back a column without the answer it keeps, and
a resume that is taken over unasked ends in a list and the older column. TLC showed each on a setting of its own, and
`CompleteMeansAnswered`, `AppliesToListed` and `InterviewKept` name them now.

`OfficeProofs` is about `PartsSpec`, the seven parts of `OfficeParts` of which each behaviour picks one. Run `Office` adds four
that are only checked, and a bound on calls from outside; its behaviours are among those of `PartsSpec` (those of the
four leave the seven `Off`), so that the theorems hold of it. Of each part an invariant holds at first and is preserved by
every step. The constants are parameters, with the assumptions that `OfficeParts` names.

* `NeverDoubleBooked`: with one handler at a time and without reopening, what the handler read is so when it
  writes (`ReadIsTrue`), so no overlap is written.
* `CustomersToldTheTruth`: what the customer was told last of a booking is what the row says, completion aside
  (`Truth`), or the message that says so is in the outbox (`Messages`). As in the run, one request is handled at a time, its messages
  are delivered before the next one starts, and no booking is reopened: the theorem says nothing of late messages out of order.
* `SeekersAreToldOnce`: two rows are never about one listing (`RowsApart`), though searches look for the row and write it
  in two steps: what a search has found, or that there is nothing but a row with a key, stays so while the table grows (`Finding`,
  `TableGrows`). As long as nothing is excused, one pass goes on at a time, by profiles that are still what it has read
  (`ByProfile`), and whatever a seeker has heard of is in their profile or in the message about to be noted (`HeardIsNoted`).
* `InboxStaysRight`: a page about to clear the counter covers what came in (`PageCovers`), and who hands something to
  Instagram was allowed to when they set out (`AllowedAt`). Not inductive without `LastOne`: one of the messages that came in is the last.
* `AccountsExist`: types, and that every link, session and request is of an account that exists (`Known`), which the
  types of `WriteUser` rest on: it writes to a row it never looked for.
* `OldLinksStayDead`: however many requests overlap and wherever the server dies, a link that a finished reset has
  found stays used (`SpentAreUsed`). No step makes a used link unused, and a new link is never among the old ones.
* `SellersAreRemindedOnce`: a notice that a seller was sent is noted in their row, or about to be (`ToldOnce`, `NotedIsTold`); what
  the job read is still so of whoever was not written to meanwhile (`Sweeping`); whoever it has passed is told what is
  due (`NobodyForgotten`). It claims no more than the property does: of sellers whose columns were ever written during a run or led back to an
  earlier end, who were being notified at a death, or to whom the admin gave a row that no payment leaves, nothing is said about repeats. The
  assumption is that a paid period is not shorter than the trial (seven days and a month by
  default): the end of a shorter one is announced after the end of the trial was, which is then announced a second
  time (a trial of six days, periods of two and a window of three days show it in TLC).
* `OffersFollowChoices`: slots are in front of a customer only after they chose a time of day. The invariant (`TalkInv`)
  says that a time of day in the context was chosen, and of the buttons shown that those with slots are there only after
  such a choice, and that the ways back carry nothing that could bring an older one in again.
* `SchedulesAreKept`: a slot is run twice at most; it is run once at least where some tick looked in time, the flow was live before
  it and edits neither crossed nor were in flight; no call from outside is run twice. Of each slot there are two chances: the tick of its minute and the tick after it. A chance is a job, a tick that has
  looked, or a start, and steps only turn one into the next (`OnTime`, `StartsAreDue`); what a tick has seen started it will not start again
  (`SlotsAreRun`). The assumption (`TriggerConstants`) is that the slots of a schedule are farther apart than the reach of a tick and
  its delay, 90 s, two minutes and 55 s: of closer ones the late run of one is taken for the run of the next, as the lists above and
  below say of every-minute schedules.

Only model-checked:

* The liveness properties (`ReviewEnds`, `ChargesRecorded`, `ComesToRest`, `EveryMessageHeard`, `UnderReviewEnds`, `Onboards`): fairness and
  ENABLED are out of this prover's reach.
* What is computed over data by recursion, folds or paths (`MoreNeverHurts`, `FeedbackPointsOneWay`, `NeverWithoutFacts`,
  `SetupServes`, `EverythingOnOffer`, `AlwaysAWay`, `OffersAreRight`): this would take induction over data, which it cannot use either.
* `ActsOnce` of the workflows with taps, and `ButtonsWork` of several nodes with buttons: a walk that a tap resumes starts behind
  the buttons again whenever the customer answers a later question, so what holds depends on the flow.

## What is not modelled, and why

* Prompts, the AI, rendering of messages, documents, pages, mail, wording, prices: data without control that a
  property is about. Where the code waits for one of them, the model has a step that may fail.
* Clients of Meta, AI, job portals and mail: I/O.
* Inline dispatch when pg-boss is down: the jobs run inside the request that would have
  enqueued them. `WorkflowRuns` allows for it in the order of taps; it is not otherwise modelled.
* A second subscription of the same user of the platform at the provider (`SeekerPlans` has several links of a
  seeker).
* Match modes exact and all; pausing a flow by `is_active`; lists of conversations; hashing of passwords and tokens.
* Storefront: sections, the kinds of files, texts and order of entries. Career: consent, e-mail alerts,
  interview scheduling and portal links, each a write of one flag. Job feed: how keywords are made, what sources return.
* In `Bookings`, sends that fail, and messages to the owner.
* Controllers, guards, statistics, administration screens: reads, or writes of a single row.

## Plan

Done: order desk, manual payments, Razorpay, seekers' plans, workflow engine, templates and setup, booking
conversations, storefront, inbound messages, career assistant, matching, job feed, slots, bookings, accounts,
reminders, inbox, schedules; proofs about fourteen of them, among them the refinement of `OrderLifecycle`.

Next: `ManualPayments` and `RazorpayWebhooks` over the same account, with a replaced subscription at the provider.
