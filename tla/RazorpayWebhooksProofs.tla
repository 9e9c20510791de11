----------------------- MODULE RazorpayWebhooksProofs -----------------------
(***************************************************************************)
(* What holds of the webhooks of a subscription for any number of events,  *)
(* overlapping handlers and failures.                                      *)
(***************************************************************************)
EXTENDS RazorpayWebhooks, SequenceTheorems, TLAPS

USE ConstantsOK

Subscription == [life : {"created", "authenticated", "active", "pending", "halted", "cancelled"},
                 cycle : Cycles, ending : BOOLEAN]

EventRecord == [kind : Kinds, cycle : Cycles]

(* The period cannot have been renewed more often than events say so, which  *)
(* keeps cycles within their bound, and handlers are at events that exist.   *)
Typed == /\ TypeOK
         /\ provider.cycle <= Len(log)
         /\ \A h \in Tasks : ~Free(h) => task[h].event <= Len(log)

(* What the provider emits is appended, of the right kind.                   *)
LEMMA EmitTyped ==
  ASSUME Typed, NEW kinds \in Seq(Kinds), NEW next \in Subscription, next.cycle <= Len(log) + 1,
         Len(kinds) >= 1, Emit(kinds, next), browser' \in BOOLEAN
  PROVE  Typed'
<1>. DEFINE more == [i \in 1..Len(kinds) |-> [kind |-> kinds[i], cycle |-> next.cycle]]
<1>1. setting.events \in 0..MaxEvents /\ Len(log) \in Nat /\ Len(kinds) \in Nat
  BY DEF Typed, TypeOK, Setting
<1>2. more \in Seq(EventRecord) /\ Len(more) = Len(kinds)
  <2>1. \A i \in 1..Len(kinds) : [kind |-> kinds[i], cycle |-> next.cycle] \in EventRecord
    BY DEF EventRecord, Subscription
  <2>. QED
    BY <1>1, <2>1
<1>. HIDE DEF more
<1>3. /\ log' \in Seq(EventRecord)
      /\ Len(log') = Len(log) + Len(kinds)
  BY <1>2 DEF Emit, Typed, TypeOK, EventRecord, more
<1>4. Len(log') <= MaxEvents /\ next.cycle <= Len(log')
  BY <1>1, <1>3 DEF Emit, Subscription, Cycles
<1>5. Events \subseteq Events'
  BY <1>1, <1>3 DEF Events
<1>6. TypeOK'
  BY <1>3, <1>4, <1>5 DEF Emit, Typed, TypeOK, EventRecord, Subscription, inbox, limits
<1>7. \A h \in Tasks : ~Free(h)' => task'[h].event <= Len(log')
  <2>. SUFFICES ASSUME NEW h \in Tasks, ~Free(h)'
                PROVE  task'[h].event <= Len(log')
    OBVIOUS
  <2>1. task' = task /\ ~Free(h)
    BY DEF Emit, Free
  <2>2. task[h].event \in Nat /\ task[h].event <= Len(log)
    BY <2>1 DEF Typed, TypeOK, Task, Free
  <2>. QED
    BY <1>1, <1>3, <2>1, <2>2
<1>8. provider' = next
  BY DEF Emit
<1>. QED
  BY <1>4, <1>6, <1>7, <1>8 DEF Typed

LEMMA OneEmitTyped ==
  ASSUME Typed, NEW kind \in Kinds, NEW next \in Subscription, next.cycle <= Len(log) + 1,
         Emit(<<kind>>, next), browser' \in BOOLEAN
  PROVE  Typed'
<1>1. <<kind>> \in Seq(Kinds) /\ Len(<<kind>>) >= 1
  OBVIOUS
<1>. QED
  BY <1>1, EmitTyped

LEMMA ProviderTyped ==
  ASSUME Typed, Provider
  PROVE  Typed'
<1>. /\ provider \in Subscription
     /\ Len(log) \in Nat
     /\ provider.cycle \in Nat /\ provider.cycle <= Len(log)
     /\ browser \in BOOLEAN /\ setting.checkout \in BOOLEAN
     /\ setting.events \in 0..MaxEvents
  BY DEF Typed, TypeOK, Subscription, Cycles, Setting
<1>1. ASSUME NEW life \in {"authenticated", "active", "pending", "halted", "cancelled"}
      PROVE  /\ [provider EXCEPT !.life = life] \in Subscription
             /\ [provider EXCEPT !.life = life].cycle = provider.cycle
  BY DEF Subscription
<1>2. ASSUME NEW kind \in Kinds, UNCHANGED browser,
             NEW life \in {"authenticated", "active", "pending", "halted", "cancelled"},
             Emit(<<kind>>, [provider EXCEPT !.life = life])
      PROVE  Typed'
  <2>. DEFINE next == [provider EXCEPT !.life = life]
  <2>1. Emit(<<kind>>, next) /\ browser' \in BOOLEAN
    BY <1>2
  <2>2. next \in Subscription /\ next.cycle = provider.cycle
    BY <1>1
  <2>. HIDE DEF next
  <2>3. next.cycle <= Len(log) + 1
    BY <2>2
  <2>. QED
    BY <2>1, <2>2, <2>3, OneEmitTyped
<1>3. ASSUME FirstPayment
      PROVE  Typed'
  <2>. DEFINE next == [provider EXCEPT !.life = "active", !.cycle = 1]
              kinds == <<"activated", "charged">>
  <2>1. kinds \in Seq(Kinds) /\ Len(kinds) = 2
    BY DEF Kinds
  <2>2. Emit(kinds, next) /\ browser' \in BOOLEAN
    BY <1>3 DEF FirstPayment
  <2>3. 1 \in Cycles
    <3>1. Len(log) + 2 <= setting.events
      BY <2>1, <2>2 DEF Emit
    <3>. QED
      BY <3>1 DEF Cycles
  <2>4. next \in Subscription /\ next.cycle = 1
    BY <2>3 DEF Subscription
  <2>. HIDE DEF next, kinds
  <2>5. next.cycle <= Len(log) + 1 /\ Len(kinds) >= 1
    BY <2>1, <2>4
  <2>. QED
    BY <2>1, <2>2, <2>4, <2>5, EmitTyped
<1>4. ASSUME NextPayment
      PROVE  Typed'
  <2>. DEFINE next == [provider EXCEPT !.life = "active", !.cycle = @ + 1]
  <2>1. Emit(<<"charged">>, next) /\ browser' \in BOOLEAN /\ "charged" \in Kinds
    BY <1>4 DEF NextPayment, Kinds
  <2>2. provider.cycle + 1 \in Cycles
    <3>1. Len(log) + 1 <= setting.events
      BY <2>1 DEF Emit
    <3>. QED
      BY <3>1 DEF Cycles
  <2>3. next \in Subscription /\ next.cycle = provider.cycle + 1
    BY <2>2 DEF Subscription
  <2>. HIDE DEF next
  <2>4. next.cycle <= Len(log) + 1
    BY <2>3
  <2>. QED
    BY <2>1, <2>3, <2>4, OneEmitTyped
<1>. QED
  BY <1>2, <1>3, <1>4
     DEF Provider, Authenticate, PaymentFails, Resume, Finish, Kinds

Columns == [status : {"trial", "active", "past_due", "cancelled"},
            end : Cycles, cancelAtEnd : BOOLEAN]

LEMMA UserTyped ==
  ASSUME Typed, NEW kind \in Kinds, NEW cycle \in Cycles
  PROVE  Updated(kind, cycle) \in Columns
<1>1. user \in Columns
  BY DEF Typed, TypeOK, Columns
<1>2. CASE kind \in {"authenticated", "activated", "charged", "resumed"}
  <2>1. PeriodEnd(cycle) \in Cycles
    BY DEF PeriodEnd, Cycles
  <2>. QED
    BY <1>2, <2>1 DEF Updated, Columns
<1>3. CASE kind \in {"pending", "halted"}
  BY <1>1, <1>3 DEF Updated, Columns
<1>4. CASE kind = "cancelled"
  BY <1>1, <1>4 DEF Updated, Columns
<1>. QED
  BY <1>2, <1>3, <1>4 DEF Kinds

(* What a handler carries.                                                   *)
LEMMA TaskTyped ==
  ASSUME Typed, NEW h \in Tasks, ~Free(h)
  PROVE  /\ task[h] \in Task
         /\ task[h].event \in {0} \cup Events
         /\ task[h].cycle \in Cycles
  BY DEF Typed, TypeOK, Free, Task, Events

(* A step that writes the tables only, and hands its event on or ends.       *)
LEMMA TypedStep ==
  ASSUME Typed, UNCHANGED <<setting, log>>, NEW h \in Tasks,
         NEW t \in Task \cup {NoTask}, task' = [task EXCEPT ![h] = t],
         t # NoTask => t.event <= Len(log),
         provider' \in Subscription, provider'.cycle = provider.cycle,
         acked' \subseteq Events, claimed' \subseteq Events,
         applied' \in [1..MaxEvents -> Nat],
         user' \in Columns,
         ledger' \in [Cycles -> Nat], browser' \in BOOLEAN, cancels' \in Nat, faults' \in Nat
  PROVE  Typed'
<1>. task' \in [Tasks -> Task \cup {NoTask}]
  BY DEF Typed, TypeOK
<1>. log' = log /\ setting' = setting /\ Events' = Events
  BY DEF Events
<1>1. TypeOK'
  BY DEF Typed, TypeOK, Subscription, Columns
<1>2. \A g \in Tasks : ~Free(g)' => task'[g].event <= Len(log')
  BY DEF Typed, TypeOK, Free
<1>. QED
  BY <1>1, <1>2 DEF Typed

LEMMA TypePreserved ==
  ASSUME Typed, [Next]_vars
  PROVE  Typed'
<1>. /\ provider \in Subscription /\ log \in Seq(EventRecord) /\ Len(log) \in 0..MaxEvents
     /\ acked \subseteq Events /\ claimed \subseteq Events
     /\ applied \in [1..MaxEvents -> Nat] /\ user \in Columns /\ ledger \in [Cycles -> Nat]
     /\ browser \in BOOLEAN /\ cancels \in Nat /\ faults \in Nat
     /\ 0 \in Cycles /\ 0 \in 0..MaxEvents
  BY SMTT(30) DEF Typed, TypeOK, Subscription, EventRecord, Columns, Cycles
<1>. Events' = Events \/ log' # log
  BY DEF Events
<1>1. ASSUME NEW h \in Tasks, NEW e \in Events, Receive(h, e)
      PROVE  Typed'
  <2>1. log[e] \in EventRecord /\ e \in 0..MaxEvents /\ e <= Len(log)
    BY DEF Events
  <2>. log[e].cycle \in Cycles
    BY <2>1 DEF EventRecord
  <2>. DEFINE load == [at |-> "apply", event |-> e, cycle |-> log[e].cycle]
  <2>2. load \in Task /\ load.event = e
    BY <2>1 DEF Task
  <2>3. CASE e \in claimed
    BY <1>1, <2>3, <2>1 DEF Receive, Typed, TypeOK, outside, limits, Free, Events
  <2>4. CASE e \notin claimed
    <3>. HIDE DEF load
    <3>1. task' = [task EXCEPT ![h] = load]
      BY <1>1, <2>4 DEF Receive, load
    <3>. QED
      <4>1. UNCHANGED <<setting, log, provider, acked, applied, user, ledger, browser, cancels, faults>>
        BY <1>1, <2>4 DEF Receive, outside, limits
      <4>2. load \in Task \cup {NoTask} /\ load.event <= Len(log)
        BY <2>1, <2>2
      <4>3. claimed' \subseteq Events
        BY <1>1, <2>4 DEF Receive
      <4>. QED
        BY <3>1, <4>1, <4>2, <4>3, TypedStep
  <2>. QED
    BY <2>3, <2>4
<1>2. ASSUME NEW h \in Tasks, BeginCheckout(h)
      PROVE  Typed'
  <2>. DEFINE load == [at |-> "apply", event |-> 0, cycle |-> provider.cycle]
  <2>1. load \in Task /\ load.event = 0
    BY DEF Task, Subscription
  <2>2. task' = [task EXCEPT ![h] = load]
    BY <1>2 DEF BeginCheckout
  <2>. HIDE DEF load
  <2>3. /\ UNCHANGED <<setting, log, provider, acked, claimed, applied, user, ledger, cancels, faults>>
        /\ browser' \in BOOLEAN
    BY <1>2 DEF BeginCheckout, outside, inbox, limits
  <2>4. load \in Task \cup {NoTask} /\ load.event <= Len(log)
    BY <2>1
  <2>. QED
    BY <2>2, <2>3, <2>4, TypedStep
<1>3. ASSUME NEW h \in Tasks, BeginCancel(h)
      PROVE  Typed'
  <2>. DEFINE load == [at |-> "ask", event |-> 0, cycle |-> 0]
  <2>1. load \in Task /\ load.event = 0
    BY DEF Task
  <2>2. task' = [task EXCEPT ![h] = load]
    BY <1>3 DEF BeginCancel
  <2>. HIDE DEF load
  <2>3. /\ UNCHANGED <<setting, log, provider, acked, claimed, applied, user, ledger, browser, faults>>
        /\ cancels' \in Nat
    BY <1>3 DEF BeginCancel, outside, inbox, limits
  <2>4. load \in Task \cup {NoTask} /\ load.event <= Len(log)
    BY <2>1
  <2>. QED
    BY <2>2, <2>3, <2>4, TypedStep
<1>4. ASSUME NEW h \in Tasks, ~Free(h)
      PROVE  /\ task[h] \in Task /\ task[h].event \in {0} \cup Events
             /\ task[h].event <= Len(log) /\ task[h].cycle \in Cycles
             /\ acked \cup ({task[h].event} \ {0}) \subseteq Events
             /\ \A step \in {"apply", "lookup", "insert", "ask", "flag"} :
                  /\ [task[h] EXCEPT !.at = step] \in Task
                  /\ [task[h] EXCEPT !.at = step].event = task[h].event
  BY <1>4, TaskTyped DEF Task, Typed
<1>5. ASSUME NEW h \in Tasks, Apply(h)
      PROVE  Typed'
  <2>1. ~Free(h)
    BY <1>5 DEF Apply, At
  <2>2. CASE task[h].event = 0
    <3>. DEFINE load == [task[h] EXCEPT !.at = "lookup", !.cycle = 1]
    <3>1. load \in Task /\ load.event = 0
      <4>1. task[h] \in Task /\ 1 \in Cycles
        BY <2>1, TaskTyped DEF Cycles
      <4>. QED
        BY <2>2, <4>1 DEF Task
    <3>2. task' = [task EXCEPT ![h] = load]
      BY <1>5, <2>2 DEF Apply
    <3>3. user' \in Columns /\ UNCHANGED <<setting, outside, inbox, ledger, browser, limits>>
      BY <1>4, <1>5, <2>1, <2>2 DEF Apply, Columns, inbox
    <3>. HIDE DEF load
    <3>4. UNCHANGED <<setting, log, provider, acked, claimed, applied, ledger, browser, cancels, faults>>
      BY <3>3 DEF outside, inbox, limits
    <3>5. load \in Task \cup {NoTask} /\ load.event <= Len(log)
      BY <3>1
    <3>. QED
      BY <3>2, <3>3, <3>4, <3>5, TypedStep
  <2>3. CASE task[h].event # 0
    <3>. DEFINE e == task[h].event
    <3>1. e \in Events /\ e \in 1..MaxEvents /\ log[e].kind \in Kinds /\ applied[e] + 1 \in Nat
      <4>1. e \in Events
        BY <1>4, <2>1, <2>3
      <4>2. e \in 1..MaxEvents /\ log[e] \in EventRecord
        BY <4>1 DEF Events
      <4>3. log[e].kind \in Kinds
        BY <4>2 DEF EventRecord
      <4>. QED
        BY <4>1, <4>2, <4>3
    <3>2. user' \in Columns
      <4>1. user' = Updated(log[e].kind, task[h].cycle)
        BY <1>5, <2>3 DEF Apply
      <4>2. task[h].cycle \in Cycles
        BY <1>4, <2>1
      <4>. QED
        BY <3>1, <4>1, <4>2, UserTyped
    <3>3. applied' \in [1..MaxEvents -> Nat]
      BY <1>5, <2>3, <3>1 DEF Apply
    <3>4. UNCHANGED <<setting, outside, claimed, ledger, browser, limits>>
      BY <1>5 DEF Apply
    <3>5. CASE Goto(h, "lookup") /\ UNCHANGED acked
      BY <1>4, <2>1, <3>2, <3>3, <3>4, <3>5, TypedStep
         DEF Goto, outside, limits, Events
    <3>6. CASE End(h)
      BY <1>4, <2>1, <3>2, <3>3, <3>4, <3>6, TypedStep DEF End, outside, limits, Events
    <3>. QED
      BY <1>5, <2>3, <3>5, <3>6 DEF Apply
  <2>. QED
    BY <2>2, <2>3
<1>6. ASSUME NEW h \in Tasks, Lookup(h)
      PROVE  Typed'
  <2>1. ~Free(h) /\ UNCHANGED <<setting, outside, claimed, applied, user, ledger, browser, limits>>
    BY <1>6 DEF Lookup, At
  <2>2. CASE Goto(h, "insert") /\ UNCHANGED acked
    BY <1>4, <2>1, <2>2, TypedStep DEF Goto, outside, limits, Events
  <2>3. CASE End(h)
    BY <1>4, <2>1, <2>3, TypedStep DEF End, outside, limits, Events
  <2>. QED
    BY <1>6, <2>2, <2>3 DEF Lookup
<1>7. ASSUME NEW h \in Tasks, Insert(h)
      PROVE  Typed'
  <2>1. ~Free(h) /\ UNCHANGED <<setting, outside, claimed, applied, user, browser, limits>>
    BY <1>7 DEF Insert, At
  <2>2. ledger' \in [Cycles -> Nat]
    <3>1. ledger[task[h].cycle] + 1 \in Nat
      BY <2>1, TaskTyped
    <3>. QED
      BY <1>7, <3>1 DEF Insert
  <2>. QED
    BY <1>4, <1>7, <2>1, <2>2, TypedStep DEF Insert, End, outside, limits, Events
<1>8. ASSUME NEW h \in Tasks, AskProvider(h)
      PROVE  Typed'
  <2>1. ~Free(h) /\ UNCHANGED <<setting, log, claimed, applied, user, ledger, browser, limits>>
    BY <1>8 DEF AskProvider, At
  <2>2. provider' \in Subscription /\ provider'.cycle = provider.cycle
    BY <1>8 DEF AskProvider, Subscription
  <2>3. CASE Goto(h, "flag") /\ UNCHANGED acked
    BY <1>4, <2>1, <2>2, <2>3, TypedStep DEF Goto, outside, limits, Events
  <2>4. CASE End(h)
    BY <1>4, <2>1, <2>2, <2>4, TypedStep DEF End, outside, limits, Events
  <2>. QED
    BY <1>8, <2>3, <2>4 DEF AskProvider
<1>9. ASSUME NEW h \in Tasks, Flag(h)
      PROVE  Typed'
  <2>1. ~Free(h) /\ UNCHANGED <<setting, outside, claimed, applied, ledger, browser, limits>>
    BY <1>9 DEF Flag, At
  <2>2. user' \in Columns
    BY <1>9 DEF Flag, Columns
  <2>. QED
    BY <1>4, <1>9, <2>1, <2>2, TypedStep DEF Flag, End, outside, limits, Events
<1>10. ASSUME NEW hs \in SUBSET Tasks, Fail(hs)
       PROVE  Typed'
  <2>1. task' \in [Tasks -> Task \cup {NoTask}]
    BY <1>10 DEF Fail, Typed, TypeOK
  <2>2. \A h \in Tasks : ~Free(h)' => task'[h].event <= Len(log')
    BY <1>10 DEF Fail, Typed, Free, outside
  <2>. QED
    BY SMTT(30), <1>10, <2>1, <2>2 DEF Fail, Typed, TypeOK, outside, inbox, limits, Events
<1>11. CASE UNCHANGED vars
  BY <1>11 DEF vars, outside, inbox, limits, Typed, TypeOK, Events, Free
<1>. QED
  BY <1>1, <1>2, <1>3, <1>5, <1>6, <1>7, <1>8, <1>9, <1>10, <1>11, ProviderTyped
     DEF Next, Continue

LEMMA InitTyped == Init => Typed
BY SMTT(30) DEF Init, Typed, TypeOK, Cycles, Free, Events

LEMMA TypedInvariant == Spec => []Typed
BY InitTyped, TypePreserved, PTL DEF Spec

(* The tables, the provider and the handlers hold what their columns say.    *)
THEOREM TypeCorrect == Spec => []TypeOK
<1>. QED
  BY TypedInvariant, PTL DEF Typed

-----------------------------------------------------------------------------
(* Handlers that are about to apply event e.                                 *)
Applying(h, e) == At(h, "apply") /\ task[h].event = e

(* An event is applied by the one delivery that claimed it: whoever is at it *)
(* is alone, and it has not been applied yet.                                *)
OneClaimant ==
  \A e \in 1..MaxEvents :
    /\ applied[e] <= 1
    /\ applied[e] = 1 => e \in claimed
    /\ \A h \in Tasks : Applying(h, e) =>
         /\ e \in claimed
         /\ applied[e] = 0
         /\ \A g \in Tasks : Applying(g, e) => g = h

Claims == Typed /\ OneClaimant

(* A step that claims and applies nothing, and leaves each handler where it  *)
(* is or away from "apply".                                                  *)
LEMMA ClaimsKept ==
  ASSUME OneClaimant, UNCHANGED <<claimed, applied>>,
         \A h \in Tasks, e \in 1..MaxEvents : Applying(h, e)' => Applying(h, e)
  PROVE  OneClaimant'
  BY DEF OneClaimant

LEMMA ClaimsPreserved ==
  ASSUME Claims, [Next]_vars
  PROVE  Claims'
<1>. Typed /\ OneClaimant /\ Typed'
  BY TypePreserved DEF Claims
<1>. /\ task \in [Tasks -> Task \cup {NoTask}] /\ task' \in [Tasks -> Task \cup {NoTask}]
     /\ applied \in [1..MaxEvents -> Nat]
  BY DEF Typed, TypeOK
<1>1. ASSUME NEW h \in Tasks, NEW e \in Events, Receive(h, e)
      PROVE  OneClaimant'
  <2>1. CASE e \in claimed
    BY <1>1, <2>1, ClaimsKept DEF Receive, Applying, At, Free
  <2>2. CASE e \notin claimed
    <3>1. /\ claimed' = claimed \cup {e}
          /\ applied' = applied
          /\ task' = [task EXCEPT ![h] = [at |-> "apply", event |-> e, cycle |-> log[e].cycle]]
      BY <1>1, <2>2 DEF Receive
    <3>2. ASSUME NEW g \in Tasks, NEW d \in 1..MaxEvents, Applying(g, d)'
          PROVE  Applying(g, d) \/ (g = h /\ d = e)
      BY <3>1, <3>2 DEF Applying, At, Free
    <3>3. \A g \in Tasks : ~Applying(g, e)
      <4>1. e \in 1..MaxEvents
        BY DEF Events, Typed, TypeOK
      <4>. QED
        BY <2>2, <4>1 DEF OneClaimant
    <3>4. ASSUME NEW d \in 1..MaxEvents
          PROVE  /\ applied'[d] <= 1
                 /\ applied'[d] = 1 => d \in claimed'
                 /\ \A g \in Tasks : Applying(g, d)' =>
                      /\ d \in claimed'
                      /\ applied'[d] = 0
                      /\ \A f \in Tasks : Applying(f, d)' => f = g
      <4>1. CASE d = e
        <5>1. applied[d] = 0
          BY <2>2, <4>1 DEF OneClaimant
        <5>. QED
          BY <3>1, <3>2, <3>3, <4>1, <5>1
      <4>2. CASE d # e
        BY <3>1, <3>2, <4>2 DEF OneClaimant
      <4>. QED
        BY <4>1, <4>2
    <3>. QED
      BY <3>4 DEF OneClaimant
  <2>. QED
    BY <2>1, <2>2
<1>2. ASSUME NEW h \in Tasks, BeginCheckout(h) \/ BeginCancel(h)
      PROVE  OneClaimant'
  BY <1>2, ClaimsKept DEF BeginCheckout, BeginCancel, inbox, Applying, At, Free
<1>3. ASSUME NEW h \in Tasks, Apply(h)
      PROVE  OneClaimant'
  <2>1. At(h, "apply") /\ claimed' = claimed
    BY <1>3 DEF Apply
  <2>. PICK e \in 0..MaxEvents : task[h].event = e
    BY <2>1 DEF At, Free, Task
  <2>2. ASSUME NEW g \in Tasks, NEW d \in 1..MaxEvents, Applying(g, d)'
        PROVE  Applying(g, d) /\ g # h
    <3>1. \/ task' = [task EXCEPT ![h] = NoTask]
          \/ task' = [task EXCEPT ![h].at = "lookup"]
          \/ task' = [task EXCEPT ![h] = [task[h] EXCEPT !.at = "lookup", !.cycle = 1]]
      BY <1>3, Zenon DEF Apply, Goto, End
    <3>2. task[h] \in Task
      BY <2>1 DEF At, Free
    <3>3. g # h => task'[g] = task[g]
      BY <3>1
    <3>4. ~At(h, "apply")'
      <4>1. task'[h] = NoTask \/ task'[h].at = "lookup"
        <5>1. [task[h] EXCEPT !.at = "lookup"].at = "lookup"
          BY <3>2 DEF Task
        <5>2. [task[h] EXCEPT !.at = "lookup", !.cycle = 1].at = "lookup"
          BY <3>2 DEF Task
        <5>3. \/ task'[h] = NoTask
              \/ task'[h] = [task[h] EXCEPT !.at = "lookup"]
              \/ task'[h] = [task[h] EXCEPT !.at = "lookup", !.cycle = 1]
          BY <3>1
        <5>. QED
          BY <5>1, <5>2, <5>3, Zenon
      <4>. QED
        BY <4>1 DEF At, Free
    <3>. QED
      BY <2>2, <3>3, <3>4 DEF Applying, At, Free
  <2>3. CASE e = 0
    BY <1>3, <2>1, <2>2, <2>3, ClaimsKept DEF Apply
  <2>4. CASE e # 0
    <3>1. e \in 1..MaxEvents /\ Applying(h, e)
      BY <2>1, <2>4 DEF Applying, At, Free, Task
    <3>2. applied' = [applied EXCEPT ![e] = @ + 1]
      BY <1>3, <2>4 DEF Apply
    <3>3. applied[e] = 0 /\ e \in claimed
      BY <3>1 DEF OneClaimant
    <3>4. ASSUME NEW g \in Tasks
          PROVE  ~Applying(g, e)'
      BY <2>2, <3>1, <3>4 DEF OneClaimant
    <3>5. ASSUME NEW d \in 1..MaxEvents
          PROVE  /\ applied'[d] <= 1
                 /\ applied'[d] = 1 => d \in claimed'
                 /\ \A g \in Tasks : Applying(g, d)' =>
                      /\ d \in claimed'
                      /\ applied'[d] = 0
                      /\ \A f \in Tasks : Applying(f, d)' => f = g
      <4>1. CASE d = e
        BY <2>1, <3>1, <3>2, <3>3, <3>4, <4>1
      <4>2. CASE d # e
        BY <2>1, <2>2, <3>2, <4>2 DEF OneClaimant
      <4>. QED
        BY <4>1, <4>2
    <3>. QED
      BY <3>5 DEF OneClaimant
  <2>. QED
    BY <2>3, <2>4
<1>4. ASSUME NEW h \in Tasks, Lookup(h) \/ Insert(h) \/ AskProvider(h) \/ Flag(h)
      PROVE  OneClaimant'
  BY <1>4, ClaimsKept DEF Lookup, Insert, AskProvider, Flag, Goto, End, Applying, At, Free, Task
<1>5. ASSUME NEW hs \in SUBSET Tasks, Fail(hs)
      PROVE  OneClaimant'
  BY <1>5, ClaimsKept DEF Fail, inbox, Applying, At, Free
<1>6. ASSUME Provider \/ UNCHANGED vars
      PROVE  OneClaimant'
  <2>1. UNCHANGED <<claimed, applied, task>>
    BY <1>6 DEF Provider, Authenticate, FirstPayment, NextPayment, PaymentFails, Resume, Finish,
                Emit, inbox, vars
  <2>2. \A h \in Tasks, e \in 1..MaxEvents : Applying(h, e)' => Applying(h, e)
    BY <2>1 DEF Applying, At, Free
  <2>. QED
    BY <2>1, <2>2, ClaimsKept
<1>. QED
  BY <1>1, <1>2, <1>3, <1>4, <1>5, <1>6 DEF Next, Continue, Claims

(* However events are delivered, repeated and interrupted, and however many  *)
(* handlers work on them at the same time, each is applied at most once: the *)
(* claim is made before and never given back.                                *)
THEOREM EventsAppliedOnce == Spec => []AppliedOnce
<1>1. Init => Claims
  <2>1. Init => Typed
    BY SMTT(30) DEF Init, Typed, TypeOK, Cycles, Free, Events
  <2>2. Init => OneClaimant
    BY DEF Init, OneClaimant, Applying, At, Free
  <2>. QED
    BY <2>1, <2>2 DEF Claims
<1>2. Claims => AppliedOnce
  BY DEF Claims, OneClaimant, AppliedOnce
<1>. QED
  BY <1>1, <1>2, ClaimsPreserved, PTL DEF Spec

-----------------------------------------------------------------------------
(* One handler at a time: what Lookup did not find, nobody inserts before    *)
(* Insert does.                                                              *)
Alone == \A g, h \in setting.tasks : g = h

Ledger ==
  /\ \A h \in Tasks : ~Free(h) => h \in setting.tasks
  /\ Alone => \A c \in Cycles :
       /\ ledger[c] <= 1
       /\ \A h \in Tasks : At(h, "insert") /\ task[h].cycle = c => ledger[c] = 0

(* A step that inserts nothing and brings nobody to "insert".                *)
LEMMA LedgerKept ==
  ASSUME Ledger, UNCHANGED <<setting, ledger>>,
         \A h \in Tasks : ~Free(h)' => h \in setting.tasks,
         \A h \in Tasks : At(h, "insert")' => At(h, "insert") /\ task'[h] = task[h]
  PROVE  Ledger'
<1>1. Alone' = Alone
  BY DEF Alone
<1>. QED
  BY <1>1 DEF Ledger

LEMMA LedgerPreserved ==
  ASSUME Typed, Ledger, [Next]_vars
  PROVE  Ledger'
<1>. /\ task \in [Tasks -> Task \cup {NoTask}] /\ ledger \in [Cycles -> Nat]
     /\ \A h \in Tasks : ~Free(h) => h \in setting.tasks
  BY DEF Typed, TypeOK, Ledger
<1>1. ASSUME NEW h \in Tasks, NEW e \in Events, Receive(h, e)
      PROVE  Ledger'
  <2>1. \/ task' = task
        \/ task' = [task EXCEPT ![h] = [at |-> "apply", event |-> e, cycle |-> log[e].cycle]]
    BY <1>1 DEF Receive
  <2>. QED
    BY <1>1, <2>1, LedgerKept DEF Receive, Starts, At, Free
<1>2. ASSUME NEW h \in Tasks, BeginCheckout(h) \/ BeginCancel(h)
      PROVE  Ledger'
  BY <1>2, LedgerKept DEF BeginCheckout, BeginCancel, Starts, At, Free
<1>3. ASSUME NEW h \in Tasks, ~Free(h), UNCHANGED <<setting, ledger>>,
             \A g \in Tasks \ {h} : task'[g] = task[g],
             task'[h] = NoTask \/ task'[h].at # "insert"
      PROVE  Ledger'
  BY <1>3, LedgerKept DEF At, Free
<1>4. ASSUME NEW h \in Tasks, ~Free(h)
      PROVE  /\ task[h] \in Task
             /\ \A step \in {"apply", "lookup", "insert", "ask", "flag"} :
                  /\ [task[h] EXCEPT !.at = step].at = step
                  /\ [task[h] EXCEPT !.at = step, !.cycle = 1].at = step
                  /\ [task[h] EXCEPT !.at = step].cycle = task[h].cycle
  BY <1>4, TaskTyped DEF Task
<1>5. ASSUME NEW h \in Tasks, Apply(h)
      PROVE  Ledger'
  <2>1. \/ task' = [task EXCEPT ![h] = NoTask]
        \/ task' = [task EXCEPT ![h].at = "lookup"]
        \/ task' = [task EXCEPT ![h] = [task[h] EXCEPT !.at = "lookup", !.cycle = 1]]
    BY <1>5, Zenon DEF Apply, Goto, End
  <2>2. ~Free(h) /\ UNCHANGED <<setting, ledger>>
    BY <1>5 DEF Apply, At
  <2>3. task'[h] = NoTask \/ task'[h].at = "lookup"
    <3>1. /\ [task[h] EXCEPT !.at = "lookup"].at = "lookup"
          /\ [task[h] EXCEPT !.at = "lookup", !.cycle = 1].at = "lookup"
      BY <1>4, <2>2
    <3>2. \/ task'[h] = NoTask
          \/ task'[h] = [task[h] EXCEPT !.at = "lookup"]
          \/ task'[h] = [task[h] EXCEPT !.at = "lookup", !.cycle = 1]
      BY <2>1
    <3>. QED
      BY <3>1, <3>2, Zenon
  <2>. QED
    BY <1>3, <2>1, <2>2, <2>3
<1>6. ASSUME NEW h \in Tasks, Lookup(h)
      PROVE  Ledger'
  <2>1. At(h, "lookup") /\ ~Free(h) /\ UNCHANGED <<setting, ledger>>
    BY <1>6 DEF Lookup, At
  <2>2. CASE End(h)
    BY <1>3, <2>1, <2>2 DEF End
  <2>3. CASE ledger[task[h].cycle] = 0 /\ Goto(h, "insert")
    <3>1. /\ task'[h] = [task[h] EXCEPT !.at = "insert"]
          /\ task'[h].cycle = task[h].cycle
          /\ \A g \in Tasks \ {h} : task'[g] = task[g]
      BY <1>4, <2>1, <2>3 DEF Goto
    <3>2. \A g \in Tasks : ~Free(g)' => g \in setting.tasks
      BY <2>1, <3>1 DEF Free
    <3>3. Alone' = Alone
      BY <2>1 DEF Alone
    <3>4. ASSUME Alone, NEW c \in Cycles, NEW g \in Tasks, At(g, "insert")', task'[g].cycle = c
          PROVE  ledger[c] = 0
      BY ZenonT(30), <2>3, <3>1, <3>4 DEF Ledger, At, Free
    <3>. QED
      BY <2>1, <3>2, <3>3, <3>4 DEF Ledger
  <2>4. task[h].cycle \in Cycles
    BY <2>1, TaskTyped
  <2>. QED
    BY <1>6, <2>2, <2>3, <2>4 DEF Lookup
<1>7. ASSUME NEW h \in Tasks, Insert(h)
      PROVE  Ledger'
  <2>. PICK c \in Cycles : task[h].cycle = c
    BY <1>7, TaskTyped DEF Insert, At
  <2>1. /\ At(h, "insert") /\ ~Free(h)
        /\ ledger' = [ledger EXCEPT ![c] = @ + 1]
        /\ task' = [task EXCEPT ![h] = NoTask]
        /\ setting' = setting
    BY <1>7 DEF Insert, At, End
  <2>2. \A g \in Tasks : ~Free(g)' => ~Free(g) /\ g # h /\ g \in setting.tasks
    BY <2>1 DEF Free
  <2>3. Alone' = Alone
    BY <2>1 DEF Alone
  <2>4. ASSUME Alone, NEW d \in Cycles
        PROVE  /\ ledger'[d] <= 1
               /\ \A g \in Tasks : At(g, "insert")' /\ task'[g].cycle = d => ledger'[d] = 0
    <3>1. ledger[c] = 0 /\ ledger[d] <= 1 /\ ledger[d] \in Nat
      BY <2>1, <2>4 DEF Ledger
    <3>2. \A g \in Tasks : Free(g)'
      BY <2>1, <2>2, <2>4 DEF Alone
    <3>. QED
      BY <2>1, <3>1, <3>2 DEF At
  <2>. QED
    BY <2>1, <2>2, <2>3, <2>4 DEF Ledger
<1>8. ASSUME NEW h \in Tasks, AskProvider(h) \/ Flag(h)
      PROVE  Ledger'
  <2>1. \/ task' = [task EXCEPT ![h] = NoTask]
        \/ task' = [task EXCEPT ![h].at = "flag"]
    BY <1>8, Zenon DEF AskProvider, Flag, Goto, End
  <2>2. ~Free(h) /\ UNCHANGED <<setting, ledger>>
    BY <1>8 DEF AskProvider, Flag, At
  <2>3. task'[h] = NoTask \/ task'[h].at = "flag"
    <3>1. [task[h] EXCEPT !.at = "flag"].at = "flag"
      BY <1>4, <2>2
    <3>2. task'[h] = NoTask \/ task'[h] = [task[h] EXCEPT !.at = "flag"]
      BY <2>1
    <3>. QED
      BY <3>1, <3>2, Zenon
  <2>. QED
    BY <1>3, <2>1, <2>2, <2>3
<1>9. ASSUME NEW hs \in SUBSET Tasks, Fail(hs)
      PROVE  Ledger'
  BY <1>9, LedgerKept DEF Fail, At, Free
<1>10. ASSUME Provider \/ UNCHANGED vars
       PROVE  Ledger'
  <2>1. UNCHANGED <<setting, ledger, task>>
    BY <1>10 DEF Provider, Authenticate, FirstPayment, NextPayment, PaymentFails, Resume, Finish,
                 Emit, vars
  <2>. QED
    BY <2>1, LedgerKept DEF At, Free
<1>. QED
  BY <1>1, <1>2, <1>5, <1>6, <1>7, <1>8, <1>9, <1>10 DEF Next, Continue

(* Where handlers do not overlap, a payment has one transaction, whether the *)
(* checkout or the webhook records it, and whatever fails in between.        *)
THEOREM PaymentsRecordedOnce == Spec => []OneTransactionPerPayment
<1>1. Init => Ledger
  BY DEF Init, Ledger, Free, At
<1>2. Ledger => OneTransactionPerPayment
  BY DEF Ledger, OneTransactionPerPayment, Alone
<1>. QED
  BY <1>1, <1>2, LedgerPreserved, TypedInvariant, PTL DEF Spec

-----------------------------------------------------------------------------
(* The log tells the life of the subscription: its last event is what the    *)
(* provider says now, and an event that takes access away (a setback) speaks *)
(* of the cycle of the event before it.                                      *)
Setbacks == {"pending", "halted", "cancelled"}

LifeAfter(kind) == IF kind \in {"activated", "charged", "resumed"} THEN "active" ELSE kind

Chronicle ==
  /\ Len(log) = 0 => provider.life = "created"
  /\ Len(log) > 0 => /\ provider.life = LifeAfter(log[Len(log)].kind)
                     /\ provider.cycle = log[Len(log)].cycle
  /\ provider.life \notin {"created", "authenticated"} => provider.cycle >= 1
  /\ \A i \in 1..Len(log) :
       log[i].kind \in Setbacks => i > 1 /\ log[i - 1].cycle = log[i].cycle

LEMMA EmitEffect ==
  ASSUME Typed, NEW kinds \in Seq(Kinds), NEW next \in Subscription, Emit(kinds, next)
  PROVE  /\ Len(log') = Len(log) + Len(kinds)
         /\ \A i \in 1..Len(log) : log'[i] = log[i]
         /\ \A j \in 1..Len(kinds) : log'[Len(log) + j] = [kind |-> kinds[j], cycle |-> next.cycle]
         /\ provider' = next
<1>. DEFINE more == [i \in 1..Len(kinds) |-> [kind |-> kinds[i], cycle |-> next.cycle]]
<1>1. more \in Seq(EventRecord) /\ Len(more) = Len(kinds)
  <2>1. \A i \in 1..Len(kinds) : [kind |-> kinds[i], cycle |-> next.cycle] \in EventRecord
    BY DEF EventRecord, Subscription
  <2>2. Len(kinds) \in Nat
    OBVIOUS
  <2>. QED
    BY <2>1, <2>2
<1>2. log' = log \o more /\ provider' = next /\ log \in Seq(EventRecord)
  BY DEF Emit, Typed, TypeOK, EventRecord
<1>3. \A j \in 1..Len(kinds) : more[j] = [kind |-> kinds[j], cycle |-> next.cycle]
  OBVIOUS
<1>. HIDE DEF more
<1>4. /\ Len(log') = Len(log) + Len(more)
      /\ \A i \in 1..Len(log) : log'[i] = log[i]
      /\ \A j \in 1..Len(more) : log'[Len(log) + j] = more[j]
  <2>1. Len(log) \in Nat /\ Len(more) \in Nat
    BY <1>1, <1>2
  <2>2. /\ Len(log') = Len(log) + Len(more)
        /\ \A i \in 1 .. Len(log) + Len(more) :
              log'[i] = IF i <= Len(log) THEN log[i] ELSE more[i - Len(log)]
    <3>1. /\ Len(log \o more) = Len(log) + Len(more)
          /\ \A i \in 1 .. Len(log) + Len(more) :
                (log \o more)[i] = IF i <= Len(log) THEN log[i] ELSE more[i - Len(log)]
      <4>1. more \in Seq(EventRecord) /\ log \in Seq(EventRecord)
        BY <1>1, <1>2
      <4>. QED
        BY ONLY <4>1, ConcatProperties, Zenon
    <3>. QED
      BY <1>2, <3>1
  <2>3. ASSUME NEW i \in 1..Len(log)
        PROVE  log'[i] = log[i]
    <3>1. i \in 1 .. Len(log) + Len(more) /\ i <= Len(log)
      BY <2>1
    <3>. QED
      BY <2>2, <3>1
  <2>4. ASSUME NEW j \in 1..Len(more)
        PROVE  log'[Len(log) + j] = more[j]
    <3>1. /\ Len(log) + j \in 1 .. Len(log) + Len(more)
          /\ ~ (Len(log) + j <= Len(log))
          /\ Len(log) + j - Len(log) = j
      BY <2>1
    <3>. QED
      BY <2>2, <3>1
  <2>. QED
    BY <2>2, <2>3, <2>4
<1>5. \A j \in 1..Len(kinds) : log'[Len(log) + j] = [kind |-> kinds[j], cycle |-> next.cycle]
  <2>. SUFFICES ASSUME NEW j \in 1..Len(kinds)
                PROVE  log'[Len(log) + j] = [kind |-> kinds[j], cycle |-> next.cycle]
    OBVIOUS
  <2>1. log'[Len(log) + j] = more[j]
    BY <1>1, <1>4
  <2>2. more[j] = [kind |-> kinds[j], cycle |-> next.cycle]
    BY <1>3
  <2>. QED
    BY <2>1, <2>2, Zenon
<1>. QED
  BY <1>1, <1>2, <1>4, <1>5

LEMMA ChronicleGrows ==
  ASSUME Typed, Chronicle, NEW kind \in Kinds, NEW next \in Subscription,
         Emit(<<kind>>, next), next.life = LifeAfter(kind),
         next.life # "authenticated" => next.cycle >= 1,
         kind \in Setbacks => next.cycle = provider.cycle /\ Len(log) > 0
  PROVE  Chronicle'
<1>1. /\ Len(log) \in Nat
      /\ Len(log') = Len(log) + 1
      /\ \A i \in 1..Len(log) : log'[i] = log[i]
      /\ log'[Len(log) + 1] = [kind |-> kind, cycle |-> next.cycle]
      /\ provider' = next
  <2>1. <<kind>> \in Seq(Kinds) /\ Len(<<kind>>) = 1 /\ <<kind>>[1] = kind
    OBVIOUS
  <2>. DEFINE kinds == <<kind>>
  <2>2. kinds \in Seq(Kinds) /\ Len(kinds) = 1 /\ kinds[1] = kind /\ Emit(kinds, next)
    BY <2>1
  <2>. HIDE DEF kinds
  <2>3. Len(log) \in Nat
    BY DEF Typed, TypeOK
  <2>4. /\ Len(log') = Len(log) + Len(kinds)
        /\ \A i \in 1..Len(log) : log'[i] = log[i]
        /\ \A j \in 1..Len(kinds) :
             log'[Len(log) + j] = [kind |-> kinds[j], cycle |-> next.cycle]
        /\ provider' = next
    BY <2>2, EmitEffect
  <2>5. 1 \in 1..Len(kinds)
    BY <2>2
  <2>6. log'[Len(log) + 1] = [kind |-> kind, cycle |-> next.cycle]
    BY <2>2, <2>4, <2>5
  <2>. QED
    BY <2>2, <2>3, <2>4, <2>6
<1>2. log'[Len(log')].kind = kind /\ log'[Len(log')].cycle = next.cycle
  BY <1>1
<1>3. ASSUME NEW i \in 1..Len(log'), log'[i].kind \in Setbacks
      PROVE  i > 1 /\ log'[i - 1].cycle = log'[i].cycle
  <2>1. CASE i \in 1..Len(log)
    <3>1. log'[i] = log[i]
      BY <1>1, <2>1
    <3>2. i > 1 /\ log[i - 1].cycle = log[i].cycle
      BY <1>3, <2>1, <3>1 DEF Chronicle
    <3>3. i - 1 \in 1..Len(log)
      BY <1>1, <2>1, <3>2
    <3>. QED
      BY <1>1, <3>1, <3>2, <3>3
  <2>2. CASE i = Len(log) + 1
    <3>1. kind \in Setbacks
      BY <1>1, <1>3, <2>2
    <3>2. Len(log) \in 1..Len(log) /\ next.cycle = log[Len(log)].cycle
      BY <1>1, <3>1 DEF Chronicle
    <3>3. log'[i - 1] = log[Len(log)] /\ log'[i].cycle = next.cycle
      BY <1>1, <2>2, <3>2
    <3>. QED
      BY <1>1, <2>2, <3>2, <3>3
  <2>. QED
    BY <1>1, <2>1, <2>2
<1>4. Len(log') > 0
  BY <1>1
<1>5. next.life \notin {"created", "authenticated"} => next.cycle >= 1
  OBVIOUS
<1>. QED
  BY <1>1, <1>2, <1>3, <1>4, <1>5 DEF Chronicle

LEMMA ChroniclePreserved ==
  ASSUME Typed, Chronicle, [Next]_vars
  PROVE  Chronicle'
<1>. /\ provider \in Subscription
     /\ Len(log) \in Nat
     /\ provider.cycle \in Nat /\ provider.cycle <= Len(log)
     /\ setting.events \in 0..MaxEvents
  BY DEF Typed, TypeOK, Subscription, Cycles, Setting
<1>1. ASSUME NEW life \in {"authenticated", "active", "pending", "halted", "cancelled"}
      PROVE  /\ [provider EXCEPT !.life = life] \in Subscription
             /\ [provider EXCEPT !.life = life].cycle = provider.cycle
             /\ [provider EXCEPT !.life = life].life = life
  BY DEF Subscription
<1>2. ASSUME NEW kind \in {"authenticated", "pending", "halted", "resumed", "cancelled"},
             Emit(<<kind>>, [provider EXCEPT !.life = LifeAfter(kind)]),
             kind # "authenticated" => provider.life \notin {"created", "authenticated"}
      PROVE  Chronicle'
  <2>. DEFINE next == [provider EXCEPT !.life = LifeAfter(kind)]
  <2>1. LifeAfter(kind) \in {"authenticated", "active", "pending", "halted", "cancelled"}
    BY DEF LifeAfter
  <2>2. next \in Subscription /\ next.cycle = provider.cycle /\ next.life = LifeAfter(kind)
    BY <1>1, <2>1
  <2>3. Emit(<<kind>>, next)
    BY <1>2
  <2>. HIDE DEF next
  <2>4. next.life # "authenticated" => next.cycle >= 1
    BY <1>2, <2>2 DEF LifeAfter, Chronicle
  <2>5. kind \in Setbacks => next.cycle = provider.cycle /\ Len(log) > 0
    BY <1>2, <2>2 DEF Setbacks, Chronicle
  <2>6. kind \in Kinds
    BY DEF Kinds
  <2>. QED
    BY <2>2, <2>3, <2>4, <2>5, <2>6, ChronicleGrows
<1>3. ASSUME FirstPayment
      PROVE  Chronicle'
  <2>. DEFINE next == [provider EXCEPT !.life = "active", !.cycle = 1]
              kinds == <<"activated", "charged">>
  <2>1. kinds \in Seq(Kinds) /\ Len(kinds) = 2 /\ kinds[1] = "activated" /\ kinds[2] = "charged"
    BY DEF Kinds
  <2>2. Emit(kinds, next)
    BY <1>3 DEF FirstPayment
  <2>3. 1 \in Cycles
    <3>1. Len(log) + 2 <= setting.events
      BY <2>1, <2>2 DEF Emit
    <3>. QED
      BY <3>1 DEF Cycles
  <2>4. next \in Subscription /\ next.cycle = 1 /\ next.life = "active"
    BY <2>3 DEF Subscription
  <2>. HIDE DEF next, kinds
  <2>5. /\ Len(log') = Len(log) + 2
        /\ \A i \in 1..Len(log) : log'[i] = log[i]
        /\ log'[Len(log) + 1] = [kind |-> "activated", cycle |-> 1]
        /\ log'[Len(log) + 2] = [kind |-> "charged", cycle |-> 1]
        /\ provider' = next
    <3>1. \A j \in 1..Len(kinds) :
            log'[Len(log) + j] = [kind |-> kinds[j], cycle |-> next.cycle]
      BY <2>1, <2>2, <2>4, EmitEffect
    <3>2. 1 \in 1..Len(kinds) /\ 2 \in 1..Len(kinds)
      BY <2>1
    <3>3. /\ log'[Len(log) + 1] = [kind |-> "activated", cycle |-> 1]
          /\ log'[Len(log) + 2] = [kind |-> "charged", cycle |-> 1]
      BY <2>1, <2>4, <3>1, <3>2
    <3>4. /\ Len(log') = Len(log) + Len(kinds)
          /\ \A i \in 1..Len(log) : log'[i] = log[i]
          /\ provider' = next
      BY <2>1, <2>2, <2>4, EmitEffect
    <3>. QED
      BY <2>1, <3>3, <3>4
  <2>6. log'[Len(log')].kind = "charged" /\ log'[Len(log')].cycle = 1
    BY <2>5
  <2>7. ASSUME NEW i \in 1..Len(log'), log'[i].kind \in Setbacks
        PROVE  i > 1 /\ log'[i - 1].cycle = log'[i].cycle
    <3>1. i \in 1..Len(log)
      BY <2>5, <2>7 DEF Setbacks
    <3>2. log'[i] = log[i]
      BY <2>5, <3>1
    <3>3. i > 1 /\ log[i - 1].cycle = log[i].cycle
      BY <2>7, <3>1, <3>2 DEF Chronicle
    <3>4. i - 1 \in 1..Len(log)
      BY <3>1, <3>3
    <3>. QED
      BY <2>5, <3>2, <3>3, <3>4
  <2>8. Len(log') > 0
    BY <2>5
  <2>. QED
    BY <2>4, <2>5, <2>6, <2>7, <2>8 DEF Chronicle, LifeAfter
<1>4. ASSUME NextPayment
      PROVE  Chronicle'
  <2>. DEFINE next == [provider EXCEPT !.life = "active", !.cycle = @ + 1]
  <2>1. Emit(<<"charged">>, next) /\ "charged" \in Kinds
    BY <1>4 DEF NextPayment, Kinds
  <2>2. provider.cycle + 1 \in Cycles
    <3>1. Len(log) + 1 <= setting.events
      BY <2>1 DEF Emit
    <3>. QED
      BY <3>1 DEF Cycles
  <2>3. next \in Subscription /\ next.cycle = provider.cycle + 1 /\ next.life = "active"
    BY <2>2 DEF Subscription
  <2>. HIDE DEF next
  <2>4. next.cycle >= 1
    BY <2>3
  <2>. QED
    BY <2>1, <2>3, <2>4, ChronicleGrows DEF LifeAfter, Setbacks
<1>5. ASSUME Authenticate
      PROVE  Chronicle'
  BY <1>2, <1>5 DEF Authenticate, LifeAfter
<1>6. ASSUME PaymentFails
      PROVE  Chronicle'
  BY <1>2, <1>6 DEF PaymentFails, LifeAfter
<1>7. ASSUME Resume
      PROVE  Chronicle'
  BY <1>2, <1>7 DEF Resume, LifeAfter
<1>8. ASSUME Finish
      PROVE  Chronicle'
  BY <1>2, <1>8 DEF Finish, LifeAfter
<1>9. ASSUME NEW h \in Tasks, AskProvider(h)
      PROVE  Chronicle'
  <2>1. /\ log' = log
        /\ provider'.life = provider.life
        /\ provider'.cycle = provider.cycle
    BY <1>9 DEF AskProvider, Subscription
  <2>. QED
    BY <2>1 DEF Chronicle
<1>10. CASE UNCHANGED outside
  BY <1>10 DEF Chronicle, outside
<1>. QED
  BY <1>3, <1>4, <1>5, <1>6, <1>7, <1>8, <1>9, <1>10
     DEF Next, Provider, Receive, BeginCheckout, BeginCancel, Continue, Apply, Lookup, Insert,
         Flag, Fail, vars

-----------------------------------------------------------------------------
(* Events that are answered in order, by one handler at a time that does not *)
(* fail and that no browser's return competes with.                          *)
Orderly ==
  /\ setting.inOrder
  /\ ~setting.checkout
  /\ setting.faults = 0
  /\ Alone

StatusAfter(kind) ==
  IF kind = "cancelled" THEN "cancelled"
  ELSE IF kind \in Setbacks THEN "past_due" ELSE "active"

(* The user's columns say what the event says.                               *)
Says(columns, event) ==
  /\ columns.status = StatusAfter(event.kind)
  /\ columns.end = PeriodEnd(event.cycle)

Told(columns, n) == n > 0 => Says(columns, log[n])

(* A handler has the event it claimed to apply, or has applied it.           *)
Serving(t, n) ==
  /\ t.event = n
  /\ t.cycle = log[n].cycle
  /\ t.at \in {"apply", "lookup", "insert"}
  /\ Told(user, IF t.at = "apply" THEN n - 1 ELSE n)

(* The first n events are answered.  Nothing else is claimed, or the next    *)
(* one is, by the only handler there is.                                     *)
Answered(n) ==
  /\ acked = 1..n
  /\ \/ /\ claimed = 1..n
        /\ Told(user, n)
        /\ \A h \in Tasks : ~Free(h) => task[h].event = 0
     \/ /\ n < Len(log)
        /\ claimed = 1..(n + 1)
        /\ \E h \in Tasks : ~Free(h) /\ Serving(task[h], n + 1)

Settling ==
  Orderly =>
    /\ ~browser
    /\ \A h \in Tasks : ~Free(h) /\ task[h].event = 0 => task[h].at \in {"ask", "flag"}
    /\ \E n \in 0..Len(log) : Answered(n)

LEMMA OneHandler ==
  ASSUME Ledger, Alone, NEW g \in Tasks, NEW h \in Tasks, ~Free(g), ~Free(h) \/ Starts(h)
  PROVE  g = h
BY DEF Ledger, Alone, Starts

LEMMA EventInHand ==
  ASSUME Ledger, Alone, NEW n \in Nat, Answered(n), NEW h \in Tasks, ~Free(h), task[h].event # 0
  PROVE  /\ n < Len(log)
         /\ claimed = 1..(n + 1)
         /\ Serving(task[h], n + 1)
BY OneHandler DEF Answered

LEMMA NoEventInHand ==
  ASSUME NEW n \in Nat, Answered(n), \A h \in Tasks : ~Free(h) => task[h].event = 0
  PROVE  claimed = 1..n /\ Told(user, n)
BY DEF Answered, Serving

LEMMA UpdateSays ==
  ASSUME Typed, Chronicle, NEW n \in 1..Len(log), Told(user, n - 1)
  PROVE  Says(Updated(log[n].kind, log[n].cycle), log[n])
<1>. DEFINE kind == log[n].kind
            cycle == log[n].cycle
<1>1. log \in Seq(EventRecord) /\ user \in Columns
  BY DEF Typed, TypeOK, EventRecord, Columns
<1>2. log[n] \in EventRecord
  BY <1>1
<1>3. kind \in Kinds /\ log[n].kind = kind /\ log[n].cycle = cycle
  BY <1>2 DEF EventRecord
<1>4. CASE kind \in Setbacks
  <2>1. n > 1 /\ log[n - 1].cycle = cycle
    BY <1>3, <1>4 DEF Chronicle
  <2>2. user.end = PeriodEnd(cycle)
    BY <2>1 DEF Told, Says
  <2>3. /\ kind = "cancelled" => Updated(kind, cycle) = [user EXCEPT !.status = "cancelled",
                                                                     !.cancelAtEnd = FALSE]
        /\ kind # "cancelled" => Updated(kind, cycle) = [user EXCEPT !.status = "past_due"]
    BY <1>4 DEF Setbacks, Updated
  <2>4. /\ [user EXCEPT !.status = "cancelled", !.cancelAtEnd = FALSE].end = user.end
        /\ [user EXCEPT !.status = "cancelled", !.cancelAtEnd = FALSE].status = "cancelled"
        /\ [user EXCEPT !.status = "past_due"].end = user.end
        /\ [user EXCEPT !.status = "past_due"].status = "past_due"
    BY <1>1 DEF Columns
  <2>5. /\ Updated(kind, cycle).end = user.end
        /\ Updated(kind, cycle).status = StatusAfter(kind)
    BY <1>4, <2>3, <2>4 DEF StatusAfter
  <2>. QED
    BY <2>2, <2>5 DEF Says
<1>5. CASE kind \notin Setbacks
  <2>1. Updated(kind, cycle) = [status |-> "active", end |-> PeriodEnd(cycle),
                                cancelAtEnd |-> FALSE]
    BY <1>3, <1>5 DEF Setbacks, Updated, Kinds
  <2>2. StatusAfter(kind) = "active"
    BY <1>5 DEF StatusAfter, Setbacks
  <2>. QED
    BY <2>1, <2>2 DEF Says
<1>. QED
  BY <1>4, <1>5

(* Old events stay in the log when new ones are emitted.                     *)
LEMMA EmitKeeps ==
  ASSUME Typed, NEW kinds \in Seq(Kinds), NEW next, Emit(kinds, next)
  PROVE  /\ Len(log') \in Nat /\ Len(log') >= Len(log)
         /\ \A i \in 1..Len(log) : log'[i] = log[i]
         /\ UNCHANGED <<setting, inbox, user, task>>
<1>. DEFINE more == [i \in 1..Len(kinds) |-> [kind |-> kinds[i], cycle |-> next.cycle]]
            Any == EventRecord \cup [kind : Kinds, cycle : {next.cycle}]
<1>1. more \in Seq(Any)
  <2>1. Len(kinds) \in Nat /\ \A i \in 1..Len(kinds) : kinds[i] \in Kinds
    OBVIOUS
  <2>2. \A i \in 1..Len(kinds) : [kind |-> kinds[i], cycle |-> next.cycle] \in Any
    BY <2>1
  <2>. HIDE DEF Any
  <2>. QED
    BY <2>1, <2>2
<1>2. log' = log \o more
  BY DEF Emit
<1>3. log \in Seq(Any)
  <2>1. log \in Seq(EventRecord) /\ EventRecord \subseteq Any
    BY DEF Typed, TypeOK, EventRecord
  <2>. HIDE DEF Any
  <2>. QED
    BY <2>1
<1>. HIDE DEF more, Any
<1>4. /\ Len(log') = Len(log) + Len(more)
      /\ \A i \in 1 .. Len(log) + Len(more) :
            log'[i] = IF i <= Len(log) THEN log[i] ELSE more[i - Len(log)]
  BY <1>1, <1>2, <1>3, ConcatProperties, Zenon
<1>5. Len(log) \in Nat /\ Len(more) \in Nat
  BY <1>1, <1>3
<1>6. Len(log') \in Nat /\ Len(log') >= Len(log) /\ \A i \in 1..Len(log) : log'[i] = log[i]
  BY <1>4, <1>5
<1>. QED
  BY <1>6 DEF Emit

LEMMA ProviderKeeps ==
  ASSUME Typed, Provider
  PROVE  /\ Len(log') \in Nat /\ Len(log') >= Len(log)
         /\ \A i \in 1..Len(log) : log'[i] = log[i]
         /\ UNCHANGED <<setting, inbox, user, task>>
         /\ browser' \in {browser, setting.checkout}
<1>1. PICK kinds, next : kinds \in Seq(Kinds) /\ Emit(kinds, next)
  <2>1. ASSUME NEW kind \in Kinds
        PROVE  <<kind>> \in Seq(Kinds)
    OBVIOUS
  <2>2. CASE FirstPayment
    <3>1. <<"activated", "charged">> \in Seq(Kinds)
      BY DEF Kinds
    <3>. QED
      BY <2>2, <3>1 DEF FirstPayment
  <2>3. CASE Authenticate
    <3>1. <<"authenticated">> \in Seq(Kinds)
      BY <2>1 DEF Kinds
    <3>. QED
      BY <2>3, <3>1 DEF Authenticate
  <2>4. CASE NextPayment
    <3>1. <<"charged">> \in Seq(Kinds)
      BY <2>1 DEF Kinds
    <3>. QED
      BY <2>4, <3>1 DEF NextPayment
  <2>5. CASE PaymentFails
    <3>1. <<"pending">> \in Seq(Kinds) /\ <<"halted">> \in Seq(Kinds)
      BY <2>1 DEF Kinds
    <3>. QED
      BY <2>5, <3>1 DEF PaymentFails
  <2>6. CASE Resume
    <3>1. <<"resumed">> \in Seq(Kinds)
      BY <2>1 DEF Kinds
    <3>. QED
      BY <2>6, <3>1 DEF Resume
  <2>7. CASE Finish
    <3>1. <<"cancelled">> \in Seq(Kinds)
      BY <2>1 DEF Kinds
    <3>. QED
      BY <2>7, <3>1 DEF Finish
  <2>. QED
    BY <2>2, <2>3, <2>4, <2>5, <2>6, <2>7 DEF Provider
<1>2. browser' \in {browser, setting.checkout}
  BY DEF Provider, Authenticate, FirstPayment, NextPayment, PaymentFails, Resume, Finish
<1>. QED
  BY <1>1, <1>2, EmitKeeps

(* Steps that leave alone what has been told.                                *)
LEMMA AnsweredKept ==
  ASSUME NEW n \in Nat, n <= Len(log), Len(log) \in Nat, Answered(n),
         acked' = acked, claimed' = claimed, user' = user, task' = task,
         Len(log') \in Nat, Len(log') >= Len(log),
         \A i \in 1..Len(log) : log'[i] = log[i]
  PROVE  Answered(n)'
<1>1. ASSUME NEW m \in Nat, m <= Len(log), Told(user, m)
      PROVE  Told(user, m)'
  BY <1>1 DEF Told
<1>2. CASE claimed = 1..n /\ Told(user, n) /\ \A h \in Tasks : ~Free(h) => task[h].event = 0
  BY <1>1, <1>2 DEF Answered, Free
<1>3. ASSUME n < Len(log), claimed = 1..(n + 1),
             NEW h \in Tasks, ~Free(h), Serving(task[h], n + 1)
      PROVE  Answered(n)'
  <2>1. log'[n + 1] = log[n + 1]
    BY <1>3
  <2>2. Told(user, n)' \/ task[h].at # "apply"
    BY <1>1, <1>3 DEF Serving
  <2>3. Told(user, n + 1)' \/ task[h].at = "apply"
    BY <1>1, <1>3 DEF Serving
  <2>4. Serving(task[h], n + 1)'
    BY <1>3, <2>1, <2>2, <2>3 DEF Serving
  <2>. QED
    BY <1>3, <2>4 DEF Answered, Free
<1>. QED
  BY <1>2, <1>3 DEF Answered

(* A step of a handler that is not about an event.                           *)
LEMMA AnsweredBeside ==
  ASSUME Ledger, Alone, NEW n \in Nat, n <= Len(log), Answered(n), NEW h \in Tasks,
         Starts(h) \/ (~Free(h) /\ task[h].event = 0),
         \A g \in Tasks \ {h} : task'[g] = task[g],
         task'[h] = NoTask \/ task'[h].event = 0,
         log' = log, acked' = acked, claimed' = claimed,
         user'.status = user.status, user'.end = user.end
  PROVE  Answered(n)'
<1>1. \A g \in Tasks : ~Free(g) => task[g].event = 0
  BY OneHandler DEF Starts
<1>2. claimed = 1..n /\ Told(user, n)
  BY <1>1, NoEventInHand
<1>3. Told(user, n)'
  BY <1>2 DEF Told, Says
<1>4. \A g \in Tasks : ~Free(g)' => task'[g].event = 0
  BY <1>1 DEF Free
<1>. QED
  BY <1>2, <1>3, <1>4 DEF Answered

LEMMA ReceiveSettles ==
  ASSUME Typed, Ledger, Orderly, NEW n \in Nat, n <= Len(log), Answered(n),
         NEW h \in Tasks, NEW e \in Events, Receive(h, e)
  PROVE  Answered(n)' /\ task'[h].event # 0
<1>1. Starts(h) /\ Free(h) /\ Len(log) \in Nat /\ e \in Nat /\ e >= 1 /\ e <= Len(log)
  BY DEF Receive, Starts, Events, Typed, TypeOK
<1>2. \A g \in Tasks : Free(g)
  BY <1>1, OneHandler DEF Orderly
<1>3. claimed = 1..n /\ Told(user, n) /\ acked = 1..n
  BY <1>2, NoEventInHand DEF Answered
<1>4. e = n + 1
  <2>1. e \notin acked /\ 1..(e - 1) \subseteq acked
    BY DEF Receive, Delivered, Orderly
  <2>2. e > n
    BY <1>1, <1>3, <2>1
  <2>3. e - 1 <= n
    <3>1. CASE e = 1
      BY <3>1
    <3>2. CASE e > 1
      <4>1. e - 1 \in 1..(e - 1)
        BY <1>1, <3>2
      <4>2. e - 1 \in 1..n
        BY <1>3, <2>1, <4>1
      <4>. QED
        BY <4>2
    <3>. QED
      BY <1>1, <3>1, <3>2
  <2>. QED
    BY <1>1, <2>2, <2>3
<1>5. e \notin claimed
  BY <1>3, <1>4
<1>6. /\ claimed' = claimed \cup {e}
      /\ task' = [task EXCEPT ![h] = [at |-> "apply", event |-> e, cycle |-> log[e].cycle]]
      /\ acked' = acked /\ log' = log /\ user' = user
  BY <1>5 DEF Receive, outside
<1>7. claimed' = 1..(n + 1)
  BY <1>3, <1>4, <1>6
<1>8. /\ task'[h] = [at |-> "apply", event |-> e, cycle |-> log[e].cycle]
      /\ task'[h].at = "apply" /\ task'[h].event = n + 1 /\ task'[h].cycle = log[n + 1].cycle
  BY <1>4, <1>6 DEF Typed, TypeOK
<1>9. Serving(task[h], n + 1)'
  BY <1>3, <1>6, <1>8 DEF Serving, Told
<1>10. ~Free(h)'
  <2>1. [at |-> "apply", event |-> e, cycle |-> log[e].cycle] \in Task
    <3>1. log \in Seq(EventRecord) /\ Len(log) <= MaxEvents /\ MaxEvents \in Nat
      BY DEF Typed, TypeOK, EventRecord
    <3>2. log[e] \in EventRecord /\ e \in 0..MaxEvents
      BY <1>1, <3>1
    <3>. QED
      BY <3>2 DEF Task, EventRecord
  <2>. QED
    BY <1>8, <2>1 DEF Free
<1>. QED
  BY <1>1, <1>3, <1>4, <1>6, <1>7, <1>8, <1>9, <1>10 DEF Answered

(* The handler that holds the event ends: the event is answered.             *)
LEMMA EndSettles ==
  ASSUME Ledger, Alone, NEW n \in Nat, n < Len(log), Len(log) \in Nat, acked = 1..n,
         claimed = 1..(n + 1), NEW h \in Tasks, task \in [Tasks -> Task \cup {NoTask}],
         ~Free(h), task[h].event = n + 1, End(h),
         Told(user, n + 1)', claimed' = claimed, log' = log
  PROVE  n + 1 \in 0..Len(log') /\ Answered(n + 1)'
<1>1. acked' = 1..(n + 1)
  BY DEF End
<1>2. \A g \in Tasks : Free(g)'
  <2>1. \A g \in Tasks : g # h => Free(g)
    BY OneHandler
  <2>. QED
    BY <2>1 DEF End, Free
<1>. QED
  BY <1>1, <1>2 DEF Answered

LEMMA GotoKeeps ==
  ASSUME Typed, NEW h \in Tasks, ~Free(h), NEW step \in {"lookup", "insert", "flag"},
         Goto(h, step)
  PROVE  /\ task'[h].at = step
         /\ task'[h].event = task[h].event
         /\ task'[h].cycle = task[h].cycle
         /\ ~Free(h)'
         /\ \A g \in Tasks \ {h} : task'[g] = task[g]
<1>1. task[h] \in Task /\ task \in [Tasks -> Task \cup {NoTask}]
  BY DEF Typed, TypeOK, Free
<1>2. task'[h] = [task[h] EXCEPT !.at = step] /\ \A g \in Tasks \ {h} : task'[g] = task[g]
  BY <1>1 DEF Goto
<1>3. /\ [task[h] EXCEPT !.at = step].at = step
      /\ [task[h] EXCEPT !.at = step].event = task[h].event
      /\ [task[h] EXCEPT !.at = step].cycle = task[h].cycle
      /\ [task[h] EXCEPT !.at = step] \in Task
  BY <1>1 DEF Task
<1>. QED
  BY <1>2, <1>3 DEF Free

LEMMA EventSettles ==
  ASSUME Typed, Ledger, Chronicle, Orderly, NEW n \in Nat, n <= Len(log), Answered(n),
         NEW h \in Tasks, ~Free(h), task[h].event # 0,
         \/ Apply(h) \/ Lookup(h) \/ Insert(h)
  PROVE  /\ \E m \in 0..Len(log') : Answered(m)'
         /\ ~Free(h)' => task'[h].event # 0
<1>1. /\ n < Len(log) /\ claimed = 1..(n + 1) /\ acked = 1..n
      /\ Serving(task[h], n + 1)
      /\ Len(log) \in Nat
      /\ task \in [Tasks -> Task \cup {NoTask}]
  <2>1. /\ Len(log) \in Nat /\ task \in [Tasks -> Task \cup {NoTask}]
        /\ Alone /\ acked = 1..n
    BY DEF Orderly, Answered, Typed, TypeOK
  <2>. QED
    BY <2>1, EventInHand
<1>2. task[h].event = n + 1 /\ task[h].cycle = log[n + 1].cycle
  BY <1>1 DEF Serving
<1>3. log' = log /\ claimed' = claimed
  BY DEF Apply, Lookup, Insert, outside
<1>4. ASSUME End(h), Told(user, n + 1)'
      PROVE  /\ \E m \in 0..Len(log') : Answered(m)'
             /\ ~Free(h)' => task'[h].event # 0
  <2>1. n + 1 \in 0..Len(log') /\ Answered(n + 1)'
    BY <1>1, <1>2, <1>3, <1>4, EndSettles DEF Orderly
  <2>2. Free(h)'
    BY <1>1, <1>4 DEF End, Free
  <2>. QED
    BY <2>1, <2>2
<1>5. ASSUME NEW step \in {"lookup", "insert"}, Goto(h, step), Told(user, n + 1)',
             acked' = acked
      PROVE  /\ \E m \in 0..Len(log') : Answered(m)'
             /\ ~Free(h)' => task'[h].event # 0
  <2>1. /\ task'[h].at = step /\ task'[h].event = n + 1 /\ task'[h].cycle = log[n + 1].cycle
        /\ ~Free(h)'
    BY <1>2, <1>5, GotoKeeps
  <2>2. Serving(task[h], n + 1)'
    BY <1>3, <1>5, <2>1 DEF Serving
  <2>3. Answered(n)' /\ n \in 0..Len(log')
    BY <1>1, <1>3, <1>5, <2>1, <2>2 DEF Answered
  <2>. QED
    BY <2>1, <2>3
<1>6. CASE Apply(h)
  <2>1. task[h].at = "apply"
    BY <1>6 DEF Apply, At
  <2>2. Told(user, n)
    BY <1>1, <2>1 DEF Serving
  <2>3. user' = Updated(log[n + 1].kind, log[n + 1].cycle)
    BY <1>2, <1>6 DEF Apply
  <2>4. n + 1 \in 1..Len(log) /\ n + 1 - 1 = n
    BY <1>1
  <2>5. Says(user', log[n + 1])
    <3>. DEFINE k == n + 1
    <3>1. k \in 1..Len(log) /\ Told(user, k - 1) /\ user' = Updated(log[k].kind, log[k].cycle)
      BY <2>2, <2>3, <2>4
    <3>. HIDE DEF k
    <3>2. Says(Updated(log[k].kind, log[k].cycle), log[k])
      BY <3>1, UpdateSays
    <3>3. Says(user', log[k])
      BY <3>1, <3>2
    <3>. QED
      BY <3>3 DEF k
  <2>6. Told(user, n + 1)'
    BY <1>3, <2>5 DEF Told, Says
  <2>7. End(h) \/ (Goto(h, "lookup") /\ acked' = acked)
    BY <1>2, <1>6 DEF Apply
  <2>. QED
    BY <1>4, <1>5, <2>6, <2>7
<1>7. CASE Lookup(h) \/ Insert(h)
  <2>1. task[h].at # "apply" /\ user' = user
    BY <1>7 DEF Lookup, Insert, At
  <2>2. Told(user, n + 1)
    BY <1>1, <2>1 DEF Serving
  <2>3. Told(user, n + 1)'
    BY <1>3, <2>1, <2>2 DEF Told
  <2>4. End(h) \/ (Goto(h, "insert") /\ acked' = acked)
    BY <1>7 DEF Lookup, Insert
  <2>. QED
    BY <1>4, <1>5, <2>3, <2>4
<1>. QED
  BY <1>6, <1>7

LEMMA SettlingPreserved ==
  ASSUME Typed, Ledger, Chronicle, Settling, [Next]_vars
  PROVE  Settling'
<1>1. setting' = setting
  BY DEF Next, Provider, Authenticate, FirstPayment, NextPayment, PaymentFails, Resume, Finish,
         Emit, Receive, BeginCheckout, BeginCancel, Continue, Apply, Lookup, Insert,
         AskProvider, Flag, Fail, vars
<1>2. Orderly' = Orderly
  BY <1>1 DEF Orderly, Alone
<1>. DEFINE Rest == /\ ~browser
                    /\ \A h \in Tasks : ~Free(h) /\ task[h].event = 0
                                          => task[h].at \in {"ask", "flag"}
                    /\ \E n \in 0..Len(log) : Answered(n)
<1>. SUFFICES ASSUME Orderly
              PROVE  Rest'
  BY <1>2 DEF Settling
<1>3. PICK n \in 0..Len(log) : Answered(n)
  BY DEF Settling
<1>4. /\ ~browser /\ Alone
      /\ \A h \in Tasks : ~Free(h) /\ task[h].event = 0 => task[h].at \in {"ask", "flag"}
      /\ task \in [Tasks -> Task \cup {NoTask}]
      /\ Len(log) \in Nat /\ n \in Nat /\ n <= Len(log)
  BY DEF Settling, Orderly, Typed, TypeOK
<1>5. CASE Provider
  <2>1. Answered(n)' /\ n \in 0..Len(log')
    BY <1>3, <1>4, <1>5, ProviderKeeps, AnsweredKept DEF inbox
  <2>2. ~browser'
    BY <1>4, <1>5, ProviderKeeps DEF Orderly
  <2>3. task' = task
    BY <1>5, ProviderKeeps
  <2>. QED
    BY <1>4, <2>1, <2>2, <2>3 DEF Free
<1>6. ASSUME NEW h \in Tasks, NEW e \in Events, Receive(h, e)
      PROVE  Rest'
  <2>1. Answered(n)' /\ task'[h].event # 0
    BY <1>3, <1>4, <1>6, ReceiveSettles
  <2>2. /\ log' = log /\ browser' = browser
        /\ \A g \in Tasks \ {h} : task'[g] = task[g]
    BY <1>6, <1>4 DEF Receive, outside
  <2>. QED
    BY <1>4, <2>1, <2>2 DEF Free
<1>7. ASSUME NEW h \in Tasks, BeginCheckout(h)
      PROVE  FALSE
  BY <1>4, <1>7 DEF BeginCheckout
<1>8. ASSUME NEW hs, Fail(hs)
      PROVE  FALSE
  BY <1>8 DEF Fail, Orderly, Typed, TypeOK
<1>9. ASSUME NEW h \in Tasks,
             Starts(h) \/ (~Free(h) /\ task[h].event = 0),
             \A g \in Tasks \ {h} : task'[g] = task[g],
             task'[h] = NoTask \/ (task'[h].event = 0 /\ task'[h].at \in {"ask", "flag"}),
             log' = log, acked' = acked, claimed' = claimed, browser' = browser,
             user'.status = user.status, user'.end = user.end
      PROVE  Rest'
  <2>1. Answered(n)'
    BY <1>3, <1>4, <1>9, AnsweredBeside
  <2>2. \A g \in Tasks : ~Free(g)' /\ task'[g].event = 0 => task'[g].at \in {"ask", "flag"}
    BY <1>4, <1>9 DEF Free
  <2>. QED
    BY <1>4, <1>9, <2>1, <2>2
<1>10. ASSUME NEW h \in Tasks, BeginCancel(h)
       PROVE  Rest'
  <2>1. task' = [task EXCEPT ![h] = [at |-> "ask", event |-> 0, cycle |-> 0]]
    BY <1>10 DEF BeginCancel
  <2>2. /\ task'[h].event = 0 /\ task'[h].at = "ask"
        /\ \A g \in Tasks \ {h} : task'[g] = task[g]
    BY <1>4, <2>1
  <2>3. /\ Starts(h) /\ log' = log /\ acked' = acked /\ claimed' = claimed
        /\ browser' = browser /\ user' = user
    BY <1>10 DEF BeginCancel, outside, inbox
  <2>. QED
    BY <1>9, <2>2, <2>3
<1>11. ASSUME NEW h \in Tasks, AskProvider(h) \/ Flag(h)
       PROVE  Rest'
  <2>1. ~Free(h) /\ task[h].at \in {"ask", "flag"}
    BY <1>11 DEF AskProvider, Flag, At
  <2>2. task[h].event = 0
    <3>. SUFFICES ASSUME task[h].event # 0
                  PROVE  FALSE
      OBVIOUS
    <3>1. Serving(task[h], n + 1)
      BY <1>3, <1>4, <2>1, EventInHand
    <3>. QED
      BY <2>1, <3>1 DEF Serving
  <2>3. /\ log' = log /\ claimed' = claimed /\ browser' = browser
        /\ user'.status = user.status /\ user'.end = user.end
    BY <1>11 DEF AskProvider, Flag, outside, Typed, TypeOK
  <2>4. CASE End(h)
    <3>1. acked' = acked
      BY <2>2, <2>4 DEF End
    <3>2. task'[h] = NoTask /\ \A g \in Tasks \ {h} : task'[g] = task[g]
      BY <1>4, <2>4 DEF End
    <3>. QED
      BY <1>9, <2>1, <2>2, <2>3, <3>1, <3>2
  <2>5. CASE Goto(h, "flag") /\ acked' = acked
    <3>1. /\ task'[h].at = "flag" /\ task'[h].event = 0
          /\ \A g \in Tasks \ {h} : task'[g] = task[g]
      BY <2>1, <2>2, <2>5, GotoKeeps
    <3>. QED
      BY <1>9, <2>1, <2>2, <2>3, <2>5, <3>1
  <2>. QED
    BY <1>11, <2>4, <2>5 DEF AskProvider, Flag
<1>12. ASSUME NEW h \in Tasks, Apply(h) \/ Lookup(h) \/ Insert(h)
       PROVE  Rest'
  <2>1. ~Free(h) /\ task[h].at \in {"apply", "lookup", "insert"}
    BY <1>12 DEF Apply, Lookup, Insert, At
  <2>2. task[h].event # 0
    BY <1>4, <2>1
  <2>3. /\ \E m \in 0..Len(log') : Answered(m)'
        /\ ~Free(h)' => task'[h].event # 0
    BY <1>3, <1>4, <1>12, <2>1, <2>2, EventSettles
  <2>4. browser' = browser
    BY <1>12 DEF Apply, Lookup, Insert
  <2>5. \A g \in Tasks \ {h} : task'[g] = task[g]
    <3>1. End(h) \/ Goto(h, "lookup") \/ Goto(h, "insert")
      BY <1>12, <2>2 DEF Apply, Lookup, Insert
    <3>. QED
      BY <1>4, <3>1 DEF End, Goto
  <2>. QED
    BY <1>4, <2>3, <2>4, <2>5 DEF Free
<1>13. CASE UNCHANGED vars
  <2>1. Answered(n)' /\ n \in 0..Len(log')
    BY <1>3, <1>4, <1>13, AnsweredKept DEF vars, inbox, outside
  <2>. QED
    BY <1>4, <1>13, <2>1 DEF vars, Free
<1>. HIDE DEF Rest
<1>. QED
  BY <1>5, <1>6, <1>7, <1>8, <1>10, <1>11, <1>12, <1>13 DEF Next, Continue

(* Where one handler at a time answers the events in order, none fails and   *)
(* no browser's return competes, the user's columns say what the provider    *)
(* says as soon as all its events are answered: for any number of renewals,  *)
(* setbacks, resumptions, deliveries repeated and requests to cancel.  (A    *)
(* duplicate that another handler answers first, a failure after the claim   *)
(* and a return from checkout after a setback each break it.)                *)
THEOREM ColumnsFollowProvider == Spec => [](Orderly => SettlesOnProvider)
<1>. DEFINE Inv == Typed /\ Ledger /\ Chronicle /\ Settling
<1>1. Init => Inv
  <2>. SUFFICES ASSUME Init
                PROVE  Inv
    OBVIOUS
  <2>1. Chronicle
    BY DEF Init, Chronicle
  <2>2. Ledger
    BY DEF Init, Ledger, Free, At
  <2>3. Settling
    <3>1. Len(log) = 0 /\ acked = 1..0 /\ claimed = 1..0 /\ ~browser /\ \A h \in Tasks : Free(h)
      BY DEF Init, Free
    <3>2. Answered(0) /\ 0 \in 0..Len(log)
      BY <3>1 DEF Answered, Told
    <3>. QED
      BY <3>1, <3>2 DEF Settling
  <2>4. Typed
    BY InitTyped
  <2>. QED
    BY <2>1, <2>2, <2>3, <2>4
<1>2. Inv /\ [Next]_vars => Inv'
  BY TypePreserved, LedgerPreserved, ChroniclePreserved, SettlingPreserved
<1>3. Inv => (Orderly => SettlesOnProvider)
  <2>. SUFFICES ASSUME Inv, Orderly, acked = Events, \A h \in Tasks : Free(h),
                       provider.life \notin {"created", "authenticated"}
                PROVE  user.status = StatusFor(provider.life) /\ user.end = provider.cycle
    BY DEF SettlesOnProvider
  <2>1. PICK n \in 0..Len(log) : Answered(n)
    BY DEF Settling
  <2>2. Len(log) \in Nat /\ Len(log) > 0
    BY DEF Typed, TypeOK, Chronicle
  <2>3. n = Len(log)
    <3>1. 1..n = 1..Len(log)
      BY <2>1 DEF Answered, Events
    <3>2. Len(log) \in 1..n
      BY <2>2, <3>1
    <3>. QED
      BY <2>1, <2>2, <3>2
  <2>4. Says(user, log[n])
    BY <2>1, <2>2, <2>3, NoEventInHand DEF Told
  <2>. DEFINE kind == log[n].kind
  <2>5. kind \in Kinds
    <3>1. log \in Seq(EventRecord)
      BY DEF Typed, TypeOK, EventRecord
    <3>2. log[n] \in EventRecord
      BY <2>2, <2>3, <3>1
    <3>. QED
      BY <3>2 DEF EventRecord
  <2>6. /\ provider.life = LifeAfter(kind)
        /\ provider.cycle = log[n].cycle /\ provider.cycle >= 1
    BY <2>2, <2>3 DEF Chronicle
  <2>7. user.end = provider.cycle
    <3>1. provider.cycle \in Nat
      BY DEF Typed, TypeOK, Cycles
    <3>. QED
      BY <2>4, <2>6, <3>1 DEF Says, PeriodEnd
  <2>8. user.status = StatusFor(provider.life)
    BY <2>4, <2>5, <2>6 DEF Says, StatusFor, StatusAfter, LifeAfter, Kinds, Setbacks
  <2>. QED
    BY <2>7, <2>8
<1>. QED
  BY <1>1, <1>2, <1>3, PTL DEF Spec
=============================================================================
