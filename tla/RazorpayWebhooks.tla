-------------------------- MODULE RazorpayWebhooks --------------------------
(***************************************************************************)
(* One user's Razorpay subscription: the events the provider emits, their  *)
(* delivery to BillingWebhookController (at least once, in any order), the *)
(* claim in processed_webhook_events that filters duplicates, and the      *)
(* statements of BillingService.handleWebhookEvent; next to them the       *)
(* browser's return from checkout (activateFromCheckout) and the user's    *)
(* cancelSubscription.                                                     *)
(*                                                                         *)
(* The provider is external: it is modelled by the events it sends and the *)
(* calls the code makes.  Every event carries x-razorpay-event-id, which   *)
(* is the key that is claimed; nothing in the code ever releases a claim   *)
(* (purgeExpired has no caller).  A billing cycle stands for the payment   *)
(* that opened it and for its current_end.                                 *)
(***************************************************************************)
EXTENDS Integers, Sequences

CONSTANTS
  Tasks,          \* handler activations that may be in flight at once
  NoTask,         \* a free activation
  Settings,       \* the circumstances to consider
  MaxEvents,      \* bound on the events the provider emits
  MaxCancels      \* bound on the user's requests to cancel

Kinds == {"authenticated", "activated", "charged", "resumed", "pending", "halted",
          "cancelled"}

Cycles == 0..MaxEvents

(* 'cycle' is the period end a task writes and the payment it records.       *)
Task == [at : {"apply", "lookup", "insert", "ask", "flag"},
         event : 0..MaxEvents, cycle : Cycles]

(* Circumstances: whether the provider delivers an event after the one before*)
(* it, the activations that are used, whether the browser returns from       *)
(* checkout, how many statements fail and how many events are emitted.       *)
Setting == [inOrder : BOOLEAN, tasks : SUBSET Tasks, checkout : BOOLEAN,
            faults : Nat, events : 0..MaxEvents]

ASSUME ConstantsOK ==
  /\ MaxEvents \in Nat \ {0} /\ MaxCancels \in Nat
  /\ Settings \subseteq Setting
  /\ NoTask \notin Task

VARIABLES
  setting,        \* the circumstances of this behaviour
  provider,       \* the subscription as Razorpay keeps it
  log,            \* the events it has emitted, oldest first
  acked,          \* events answered with 200
  claimed,        \* processed_webhook_events
  applied,        \* history: how often each event was applied
  user,           \* the user's subscription columns
  ledger,         \* billing_transactions with the payment of each cycle
  task,
  browser,        \* whether a signed checkout result waits to be sent
  cancels, faults

outside == <<provider, log>>
inbox == <<acked, claimed, applied>>
limits == <<cancels, faults>>
vars == <<setting, outside, inbox, user, ledger, task, browser, limits>>

Events == 1..Len(log)

Init ==
  /\ setting \in Settings
  /\ provider = [life |-> "created", cycle |-> 0, ending |-> FALSE]
  /\ log = << >>
  /\ acked = {}
  /\ claimed = {}
  /\ applied = [e \in 1..MaxEvents |-> 0]
  /\ user = [status |-> "trial", end |-> 0, cancelAtEnd |-> FALSE]
  /\ ledger = [c \in Cycles |-> 0]
  /\ task = [h \in Tasks |-> NoTask]
  /\ browser = FALSE
  /\ cancels = 0
  /\ faults = 0

-----------------------------------------------------------------------------
(* The provider's subscription lives on and says so.                         *)
Emit(kinds, next) ==
  /\ Len(log) + Len(kinds) <= setting.events
  /\ log' = log \o [i \in 1..Len(kinds) |-> [kind |-> kinds[i], cycle |-> next.cycle]]
  /\ provider' = next
  /\ UNCHANGED <<setting, inbox, user, ledger, task, limits>>

(* The mandate is authorised; nothing is charged yet.                        *)
Authenticate ==
  /\ provider.life = "created"
  /\ Emit(<<"authenticated">>, [provider EXCEPT !.life = "authenticated"])
  /\ UNCHANGED browser

FirstPayment ==
  /\ provider.life \in {"created", "authenticated"}
  /\ Emit(<<"activated", "charged">>, [provider EXCEPT !.life = "active", !.cycle = 1])
  /\ browser' = setting.checkout

NextPayment ==
  /\ provider.life \in {"active", "pending"}
  /\ ~provider.ending
  /\ Emit(<<"charged">>, [provider EXCEPT !.life = "active", !.cycle = @ + 1])
  /\ UNCHANGED browser

PaymentFails ==
  /\ \/ /\ provider.life = "active"
        /\ Emit(<<"pending">>, [provider EXCEPT !.life = "pending"])
     \/ /\ provider.life = "pending"
        /\ Emit(<<"halted">>, [provider EXCEPT !.life = "halted"])
  /\ UNCHANGED browser

Resume ==
  /\ provider.life = "halted"
  /\ Emit(<<"resumed">>, [provider EXCEPT !.life = "active"])
  /\ UNCHANGED browser

(* subscription.cancelled or subscription.completed: the code treats them    *)
(* alike.                                                                    *)
Finish ==
  /\ provider.life \in {"active", "pending", "halted"}
  /\ Emit(<<"cancelled">>, [provider EXCEPT !.life = "cancelled"])
  /\ UNCHANGED browser

-----------------------------------------------------------------------------
Free(h) == task[h] = NoTask

Starts(h) == /\ Free(h)
             /\ h \in setting.tasks

(* The provider sends an event, or sends it again.                           *)
Delivered(e) == setting.inOrder => e \notin acked /\ 1..(e - 1) \subseteq acked

At(h, step) == /\ ~Free(h)
               /\ task[h].at = step

Goto(h, step) == task' = [task EXCEPT ![h].at = step]

(* The handler returns; a webhook is answered with 200.                      *)
End(h) == /\ task' = [task EXCEPT ![h] = NoTask]
          /\ acked' = acked \cup ({task[h].event} \ {0})

(* Mutant of Receive: only an event that was answered is a duplicate.        *)
ReceiveUnlessAnswered(h, e) ==
  /\ Starts(h)
  /\ Delivered(e)
  /\ e \notin acked
  /\ claimed' = claimed \cup {e}
  /\ task' = [task EXCEPT ![h] = [at |-> "apply", event |-> e, cycle |-> log[e].cycle]]
  /\ UNCHANGED <<setting, outside, acked, applied, user, ledger, browser, limits>>

(* receive: the claim decides, before anything else is done, whether this    *)
(* delivery is processed or answered as a duplicate.                         *)
Receive(h, e) ==
  /\ Starts(h)
  /\ Delivered(e)
  /\ IF e \in claimed
     THEN /\ e \notin acked
          /\ acked' = acked \cup {e}
          /\ UNCHANGED <<claimed, task>>
     ELSE /\ claimed' = claimed \cup {e}
          /\ task' = [task EXCEPT ![h] =
               [at |-> "apply", event |-> e, cycle |-> log[e].cycle]]
          /\ UNCHANGED acked
  /\ UNCHANGED <<setting, outside, applied, user, ledger, browser, limits>>

(* current_end, or an estimate of it while the provider has none.            *)
PeriodEnd(cycle) == IF cycle = 0 THEN 1 ELSE cycle

(* Mutant of Updated: a payment that failed for now is passed over.          *)
UpdatedUnlessPending(kind, cycle) ==
  CASE kind \in {"authenticated", "activated", "charged", "resumed"} ->
         [status |-> "active", end |-> PeriodEnd(cycle), cancelAtEnd |-> FALSE]
    [] kind = "pending" -> user
    [] kind = "halted" -> [user EXCEPT !.status = "past_due"]
    [] kind = "cancelled" ->
         [user EXCEPT !.status = "cancelled", !.cancelAtEnd = FALSE]

(* The columns after an event, whatever they were before.                    *)
Updated(kind, cycle) ==
  CASE kind \in {"authenticated", "activated", "charged", "resumed"} ->
         [status |-> "active", end |-> PeriodEnd(cycle), cancelAtEnd |-> FALSE]
    [] kind \in {"pending", "halted"} -> [user EXCEPT !.status = "past_due"]
    [] kind = "cancelled" ->
         [user EXCEPT !.status = "cancelled", !.cancelAtEnd = FALSE]

(* Mutant of Apply: it is the activation that is taken for the payment.      *)
ApplyActivation(h) ==
  /\ At(h, "apply")
  /\ LET t == task[h]
     IN IF t.event = 0
        THEN /\ user' = [user EXCEPT !.status = "active", !.end = t.cycle]
             /\ task' = [task EXCEPT ![h] = [@ EXCEPT !.at = "lookup", !.cycle = 1]]
             /\ UNCHANGED <<acked, applied>>
        ELSE /\ user' = Updated(log[t.event].kind, t.cycle)
             /\ applied' = [applied EXCEPT ![t.event] = @ + 1]
             /\ IF log[t.event].kind = "activated"
                THEN Goto(h, "lookup") /\ UNCHANGED acked
                ELSE End(h)
  /\ UNCHANGED <<setting, outside, claimed, ledger, browser, limits>>

(* applySubscriptionEvent; only a charge goes on to record a transaction.    *)
(* Event 0 is the browser's return: activateFromCheckout writes the period   *)
(* it fetched, and leaves the flag alone.                                    *)
Apply(h) ==
  /\ At(h, "apply")
  /\ LET t == task[h]
     IN IF t.event = 0
        THEN /\ user' = [user EXCEPT !.status = "active", !.end = t.cycle]
             /\ task' = [task EXCEPT ![h] = [@ EXCEPT !.at = "lookup", !.cycle = 1]]
             /\ UNCHANGED <<acked, applied>>
        ELSE /\ user' = Updated(log[t.event].kind, t.cycle)
             /\ applied' = [applied EXCEPT ![t.event] = @ + 1]
             /\ IF log[t.event].kind = "charged"
                THEN Goto(h, "lookup") /\ UNCHANGED acked
                ELSE End(h)
  /\ UNCHANGED <<setting, outside, claimed, ledger, browser, limits>>

(* Mutant of Lookup: the payment is not looked for.                          *)
LookupNothing(h) ==
  /\ At(h, "lookup")
  /\ Goto(h, "insert")
  /\ UNCHANGED <<setting, outside, acked, claimed, applied, user, ledger, browser, limits>>

(* recordTransaction looks for the payment id, then inserts.                 *)
Lookup(h) ==
  /\ At(h, "lookup")
  /\ IF ledger[task[h].cycle] > 0
     THEN End(h)
     ELSE Goto(h, "insert") /\ UNCHANGED acked
  /\ UNCHANGED <<setting, outside, claimed, applied, user, ledger, browser, limits>>

Insert(h) ==
  /\ At(h, "insert")
  /\ ledger' = [ledger EXCEPT ![task[h].cycle] = @ + 1]
  /\ End(h)
  /\ UNCHANGED <<setting, outside, claimed, applied, user, browser, limits>>

(* activateFromCheckout has fetched current_end when it gets to its update.  *)
BeginCheckout(h) ==
  /\ Starts(h)
  /\ browser
  /\ browser' = FALSE
  /\ task' = [task EXCEPT ![h] = [at |-> "apply", event |-> 0, cycle |-> provider.cycle]]
  /\ UNCHANGED <<setting, outside, inbox, user, ledger, limits>>

(* cancelSubscription: ask the provider to stop at the end of the cycle,     *)
(* then flag the user.  The provider refuses when there is nothing to stop.  *)
BeginCancel(h) ==
  /\ Starts(h)
  /\ cancels < MaxCancels
  /\ cancels' = cancels + 1
  /\ task' = [task EXCEPT ![h] = [at |-> "ask", event |-> 0, cycle |-> 0]]
  /\ UNCHANGED <<setting, outside, inbox, user, ledger, browser, faults>>

AskProvider(h) ==
  /\ At(h, "ask")
  /\ IF provider.life \in {"active", "pending", "halted"}
     THEN /\ provider' = [provider EXCEPT !.ending = TRUE]
          /\ Goto(h, "flag") /\ UNCHANGED acked
     ELSE End(h) /\ UNCHANGED provider
  /\ UNCHANGED <<setting, log, claimed, applied, user, ledger, browser, limits>>

Flag(h) ==
  /\ At(h, "flag")
  /\ user' = [user EXCEPT !.cancelAtEnd = TRUE]
  /\ End(h)
  /\ UNCHANGED <<setting, outside, claimed, applied, ledger, browser, limits>>

(* A statement throws (500, the provider will retry), or the process stops.  *)
Fail(hs) ==
  /\ faults < setting.faults
  /\ faults' = faults + 1
  /\ \E h \in hs : ~Free(h)
  /\ task' = [h \in Tasks |-> IF h \in hs THEN NoTask ELSE task[h]]
  /\ UNCHANGED <<setting, outside, inbox, user, ledger, browser, cancels>>

-----------------------------------------------------------------------------
Provider == Authenticate \/ FirstPayment \/ NextPayment \/ PaymentFails \/ Resume \/ Finish

Continue(h) == Apply(h) \/ Lookup(h) \/ Insert(h) \/ AskProvider(h) \/ Flag(h)

Next ==
  \/ Provider
  \/ \E h \in Tasks :
       \/ \E e \in Events : Receive(h, e)
       \/ BeginCheckout(h)
       \/ BeginCancel(h)
       \/ Continue(h)
       \/ Fail({h})
  \/ Fail(Tasks)

Spec == Init /\ [][Next]_vars

(* Handlers go on, and the provider retries an event until it is answered    *)
(* (strongly: Tasks bounds what the server does at once).                    *)
Fairness ==
  /\ \A h \in Tasks : WF_vars(Continue(h))
  /\ \A e \in 1..MaxEvents :
       SF_vars(\E h \in Tasks : e \in Events \ acked /\ Receive(h, e))

FairSpec == Spec /\ Fairness

-----------------------------------------------------------------------------
TypeOK ==
  /\ setting \in Settings
  /\ provider \in [life : {"created", "authenticated", "active", "pending", "halted", "cancelled"},
                   cycle : Cycles, ending : BOOLEAN]
  /\ log \in Seq([kind : Kinds, cycle : Cycles]) /\ Len(log) <= MaxEvents
  /\ acked \subseteq Events /\ claimed \subseteq Events
  /\ applied \in [1..MaxEvents -> Nat]
  /\ user \in [status : {"trial", "active", "past_due", "cancelled"},
               end : Cycles, cancelAtEnd : BOOLEAN]
  /\ ledger \in [Cycles -> Nat]
  /\ task \in [Tasks -> Task \cup {NoTask}]
  /\ browser \in BOOLEAN /\ cancels \in Nat /\ faults \in Nat

(* However often and however concurrently an event is delivered, it changes  *)
(* the user once: the unique key of processed_webhook_events.                *)
AppliedOnce == \A e \in 1..MaxEvents : applied[e] <= 1

(* "Returns false if the key was already processed (duplicate delivery)": an *)
(* event the provider may forget has been applied, or a handler is at it.    *)
(* Holds as long as no handler fails.                                        *)
AcknowledgedIsApplied ==
  \A e \in acked : \/ applied[e] >= 1
                   \/ \E h \in Tasks : At(h, "apply") /\ task[h].event = e

(* Every payment the provider announces reaches billing_transactions, where  *)
(* no handler fails.                                                         *)
ChargesRecorded ==
  \A c \in Cycles :
    (setting.faults = 0 /\ \E e \in Events : log[e] = [kind |-> "charged", cycle |-> c]) ~> ledger[c] >= 1

(* One payment, one transaction: the checkout's return and the webhook both  *)
(* record the first payment.  It holds where handlers do not overlap.        *)
OneTransactionPerPayment ==
  (\A g, h \in setting.tasks : g = h) => \A c \in Cycles : ledger[c] <= 1

StatusFor(life) == CASE life = "active" -> "active"
                     [] life \in {"pending", "halted"} -> "past_due"
                     [] life = "cancelled" -> "cancelled"

(* When the provider's events have all been answered, the user's columns say *)
(* what the provider says; where events arrive in order and none is lost.    *)
SettlesOnProvider ==
  /\ setting.inOrder
  /\ acked = Events
  /\ \A h \in Tasks : Free(h)
  /\ provider.life \notin {"created", "authenticated"}
  => /\ user.status = StatusFor(provider.life)
     /\ user.end = provider.cycle
=============================================================================
