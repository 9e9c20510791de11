----------------------- MODULE InboundMessagesProofs -----------------------
(***************************************************************************)
(* What holds of inbound messages for any contacts, payloads, deliveries,  *)
(* requests, workers and executions.                                       *)
(***************************************************************************)
EXTENDS InboundMessages, TLAPS

USE ConstantsOK

(* The parts of the state a message travels through.                         *)
HookRecord == [payload : Payloads, todo : Seq(Messages),
               at : {"check", "store", "enqueue", "createContact", "createConversation"}
                    \cup Tables]

(* Which execution a worker found does not matter here.                      *)
IsWorker(v) ==
  /\ v = [x \in {"message", "tries", "at", "exec", "paused"} |-> v[x]]
  /\ v.message \in Messages
  /\ v.at \in {"read", "found", "start", "enqueue", "done"}

Typed ==
  /\ hook \in [Hooks -> {None} \cup HookRecord]
  /\ jobs \in [Messages -> [0..RetryLimit -> Nat]]
  /\ DOMAIN worker = Workers
  /\ \A w \in Workers : worker[w] # None => IsWorker(worker[w])
  /\ used \in [Messages -> 0..2]
  /\ stored \subseteq Messages

-----------------------------------------------------------------------------
(* Where a stored message can be on its way to an execution: at a request    *)
(* that will enqueue it, in the queue, at a worker that has not passed it    *)
(* on, or passed on.                                                         *)
Enqueueing(h, m) == Working(h, "enqueue") /\ Message(h) = m

Queued(m, t) == jobs[m][t] > 0

Held(w, m) == /\ worker[w] # None
              /\ worker[w].message = m
              /\ worker[w].at \in {"read", "found", "start"}

(* It is in one place at a time, and nowhere before it is stored.            *)
Once(m) ==
  /\ used[m] <= 1
  /\ used[m] # 0 => m \in stored
  /\ \A h \in Hooks : Enqueueing(h, m) =>
       /\ m \in stored /\ used[m] = 0
       /\ \A g \in Hooks : Enqueueing(g, m) => g = h
       /\ \A t \in 0..RetryLimit : ~Queued(m, t)
       /\ \A w \in Workers : ~Held(w, m)
  /\ \A t \in 0..RetryLimit : Queued(m, t) =>
       /\ m \in stored /\ used[m] = 0
       /\ jobs[m][t] = 1
       /\ \A s \in 0..RetryLimit : Queued(m, s) => s = t
       /\ \A w \in Workers : ~Held(w, m)
  /\ \A w \in Workers : Held(w, m) =>
       /\ m \in stored /\ used[m] = 0
       /\ \A v \in Workers : Held(v, m) => v = w

NoWorkerDies == "cutWorker" \notin setting.faults

Safe == NoWorkerDies => Typed /\ \A m \in Messages : Once(m)

-----------------------------------------------------------------------------
(* What requests write of themselves.                                        *)
LEMMA HookTyped ==
  ASSUME Typed, NEW h \in Hooks, hook[h] # None
  PROVE  /\ hook[h] \in HookRecord
         /\ hook[h].todo \in Seq(Messages)
         /\ hook[h].todo # << >> => Message(h) \in Messages /\ Tail(hook[h].todo) \in Seq(Messages)
         /\ \A at \in {"check", "store", "enqueue", "createContact", "createConversation"} \cup Tables :
              [hook[h] EXCEPT !.at = at] \in HookRecord
<1>1. hook[h] \in HookRecord
  BY DEF Typed
<1>. QED
  BY <1>1 DEF HookRecord, Message

(* A worker that moves on.                                                   *)
LEMMA WorkerMoves ==
  ASSUME NEW v, IsWorker(v), NEW at \in {"read", "found", "start", "enqueue", "done"}
  PROVE  /\ IsWorker([v EXCEPT !.at = at])
         /\ [v EXCEPT !.at = at].at = at
         /\ [v EXCEPT !.at = at].message = v.message
  BY DEF IsWorker

(* Requests move without enqueueing or storing: nothing is anywhere else.    *)
LEMMA HookMoves ==
  ASSUME Typed, \A m \in Messages : Once(m), NEW h \in Hooks,
         NEW rec \in {None} \cup HookRecord, hook' = [hook EXCEPT ![h] = rec],
         rec # None => rec.at # "enqueue",
         UNCHANGED <<jobs, worker, used>>, stored \subseteq stored', stored' \subseteq Messages
  PROVE  Typed' /\ \A m \in Messages : Once(m)'
<1>1. Typed'
  BY DEF Typed, IsWorker
<1>2. ASSUME NEW g \in Hooks, NEW m \in Messages, Enqueueing(g, m)'
      PROVE  Enqueueing(g, m)
  BY <1>2 DEF Typed, Enqueueing, Working, Message
<1>3. \A m \in Messages : /\ \A t \in 0..RetryLimit : Queued(m, t)' = Queued(m, t)
                            /\ \A w \in Workers : Held(w, m)' = Held(w, m)
  BY DEF Queued, Held
<1>. QED
  BY <1>1, <1>2, <1>3 DEF Once

(* Workers move on with what they hold, or without it.                       *)
LEMMA WorkerMovesOn ==
  ASSUME Typed, \A m \in Messages : Once(m), NEW w \in Workers, worker[w] # None, NEW v,
         worker' = [worker EXCEPT ![w] = v],
         v # None => /\ IsWorker(v)
                     /\ v.message = worker[w].message
                     /\ v.at \in {"found", "start"} => worker[w].at \in {"read", "found", "start"}
                     /\ v.at # "read",
         UNCHANGED <<hook, jobs, used, stored>>
  PROVE  Typed' /\ \A m \in Messages : Once(m)'
<1>1. Typed'
  BY DEF Typed, IsWorker
<1>2. ASSUME NEW u \in Workers, NEW m \in Messages, Held(u, m)'
      PROVE  Held(u, m)
  BY <1>2 DEF Typed, Held
<1>3. \A m \in Messages : /\ \A t \in 0..RetryLimit : Queued(m, t)' = Queued(m, t)
                            /\ \A h \in Hooks : Enqueueing(h, m)' = Enqueueing(h, m)
  BY DEF Queued, Enqueueing, Working, Message
<1>. QED
  BY <1>1, <1>2, <1>3 DEF Once

(* A worker passes on what it holds.                                         *)
LEMMA WorkerUses ==
  ASSUME Typed, \A m \in Messages : Once(m), NEW w \in Workers, worker[w] # None,
         worker[w].at \in {"found", "start"}, NEW v, IsWorker(v), v.at = "enqueue",
         worker' = [worker EXCEPT ![w] = v], Use(w), UNCHANGED <<hook, jobs, stored>>
  PROVE  Typed' /\ \A m \in Messages : Once(m)'
<1>. PICK m \in Messages : worker[w].message = m
  BY DEF Typed, IsWorker
<1>1. Held(w, m) /\ used[m] = 0 /\ m \in stored
  BY DEF Held, Once
<1>2. used' = [used EXCEPT ![m] = 1]
  BY <1>1 DEF Use
<1>3. Typed'
  <2>1. used' \in [Messages -> 0..2]
    BY <1>2 DEF Typed
  <2>2. /\ DOMAIN worker' = Workers
        /\ \A u \in Workers : worker'[u] = IF u = w THEN v ELSE worker[u]
    BY DEF Typed
  <2>3. \A u \in Workers : worker'[u] # None => IsWorker(worker'[u])
    BY <2>2 DEF Typed
  <2>. QED
    BY <2>1, <2>2, <2>3 DEF Typed
<1>4. ASSUME NEW u \in Workers, NEW n \in Messages, Held(u, n)'
      PROVE  Held(u, n) /\ u # w
  BY <1>4 DEF Typed, Held
<1>5. \A n \in Messages : /\ \A t \in 0..RetryLimit : Queued(n, t)' = Queued(n, t)
                            /\ \A h \in Hooks : Enqueueing(h, n)' = Enqueueing(h, n)
  BY DEF Queued, Enqueueing, Working, Message
<1>6. Once(m)'
  <2>1. /\ \A h \in Hooks : ~Enqueueing(h, m)
        /\ \A t \in 0..RetryLimit : ~Queued(m, t)
        /\ \A u \in Workers : Held(u, m) => u = w
    BY <1>1 DEF Once
  <2>2. used'[m] = 1
    BY <1>2 DEF Typed
  <2>. QED
    BY <1>1, <1>4, <1>5, <2>1, <2>2 DEF Once
<1>7. ASSUME NEW n \in Messages, n # m
      PROVE  Once(n)'
  <2>1. used'[n] = used[n]
    BY <1>2, <1>7 DEF Typed
  <2>. QED
    BY <1>4, <1>5, <1>7, <2>1 DEF Once
<1>. QED
  BY <1>3, <1>6, <1>7

(* A request stores a message that was nowhere.                              *)
LEMMA HookStores ==
  ASSUME Typed, \A m \in Messages : Once(m), NEW h \in Hooks, hook[h] # None,
         hook[h].todo # << >>, Message(h) \notin stored, GoTo(h, "enqueue"),
         stored' = stored \cup {Message(h)}, UNCHANGED <<jobs, worker, used>>
  PROVE  Typed' /\ \A m \in Messages : Once(m)'
<1>. PICK m \in Messages : m = Message(h)
  BY HookTyped
<1>1. m \in Messages /\ [hook[h] EXCEPT !.at = "enqueue"] \in HookRecord
  BY HookTyped
<1>2. /\ hook' \in [Hooks -> {None} \cup HookRecord]
      /\ \A g \in Hooks : g # h => hook'[g] = hook[g]
      /\ hook'[h].todo = hook[h].todo
  BY <1>1, HookTyped DEF Typed, GoTo, HookRecord
<1>3. Typed'
  BY <1>1, <1>2 DEF Typed, IsWorker
<1>4. ASSUME NEW n \in Messages
      PROVE  /\ \A t \in 0..RetryLimit : Queued(n, t)' = Queued(n, t)
             /\ \A w \in Workers : Held(w, n)' = Held(w, n)
             /\ \A g \in Hooks : Enqueueing(g, n)' => Enqueueing(g, n) \/ (g = h /\ n = m)
  BY <1>2 DEF Queued, Held, Enqueueing, Working, Message
<1>5. /\ used[m] = 0
      /\ \A g \in Hooks : ~Enqueueing(g, m)
      /\ \A t \in 0..RetryLimit : ~Queued(m, t)
      /\ \A w \in Workers : ~Held(w, m)
  BY <1>1 DEF Once
<1>6. Once(m)'
  BY <1>1, <1>4, <1>5 DEF Once
<1>7. ASSUME NEW n \in Messages, n # m
      PROVE  Once(n)'
  BY <1>4, <1>7 DEF Once
<1>. QED
  BY <1>3, <1>6, <1>7

(* A request hands the message it stored to the queue.                       *)
LEMMA HookEnqueues ==
  ASSUME Typed, \A m \in Messages : Once(m), NEW h \in Hooks, Working(h, "enqueue"),
         jobs' = [jobs EXCEPT ![Message(h)][0] = @ + 1], NextMessage(h),
         UNCHANGED <<worker, used, stored>>
  PROVE  Typed' /\ \A m \in Messages : Once(m)'
<1>. PICK m \in Messages : m = Message(h)
  BY HookTyped DEF Working
<1>. 0 \in 0..RetryLimit
  OBVIOUS
<1>1. /\ Enqueueing(h, m)
      /\ m \in stored
      /\ used[m] = 0
      /\ \A g \in Hooks : Enqueueing(g, m) => g = h
      /\ \A t \in 0..RetryLimit : ~Queued(m, t)
      /\ \A w \in Workers : ~Held(w, m)
  BY DEF Once, Enqueueing
<1>2. /\ jobs' \in [Messages -> [0..RetryLimit -> Nat]]
      /\ jobs'[m][0] = jobs[m][0] + 1
      /\ \A n \in Messages : \A t \in 0..RetryLimit :
           n # m \/ t # 0 => jobs'[n][t] = jobs[n][t]
  BY DEF Typed
<1>3. jobs[m][0] = 0
  BY <1>1 DEF Queued, Typed
<1>4. /\ hook' \in [Hooks -> {None} \cup HookRecord]
      /\ \A g \in Hooks : g # h => hook'[g] = hook[g]
      /\ hook'[h].at = "check"
  <2>. PICK rec : rec = [payload |-> hook[h].payload, todo |-> Tail(hook[h].todo),
                    at |-> "check"]
    OBVIOUS
  <2>1. rec \in HookRecord /\ rec.at = "check"
    BY HookTyped DEF Working, HookRecord
  <2>2. hook' = [hook EXCEPT ![h] = rec]
    BY DEF NextMessage
  <2>. QED
    BY <2>1, <2>2 DEF Typed
<1>5. Typed'
  BY <1>2, <1>4 DEF Typed, IsWorker
<1>6. ASSUME NEW n \in Messages
      PROVE  /\ \A t \in 0..RetryLimit : Queued(n, t)' => Queued(n, t) \/ (n = m /\ t = 0)
             /\ \A t \in 0..RetryLimit : n # m => jobs'[n][t] = jobs[n][t]
             /\ \A w \in Workers : Held(w, n)' = Held(w, n)
             /\ \A g \in Hooks : Enqueueing(g, n)' => Enqueueing(g, n) /\ g # h
  BY <1>2, <1>4 DEF Queued, Held, Enqueueing, Working, Message
<1>7. Once(m)'
  BY <1>1, <1>2, <1>3, <1>6 DEF Once
<1>8. ASSUME NEW n \in Messages, n # m
      PROVE  Once(n)'
  BY <1>6, <1>8 DEF Once
<1>. QED
  BY <1>5, <1>7, <1>8

(* A worker takes a job.                                                     *)
LEMMA WorkerTakes ==
  ASSUME Typed, \A m \in Messages : Once(m), NEW w \in Workers, NEW m \in Messages,
         NEW t \in 0..RetryLimit, worker[w] = None, jobs[m][t] > 0,
         jobs' = [jobs EXCEPT ![m][t] = @ - 1],
         worker' = [worker EXCEPT ![w] = [message |-> m, tries |-> t, at |-> "read",
                                          exec |-> 1, paused |-> "none"]],
         UNCHANGED <<hook, used, stored>>
  PROVE  Typed' /\ \A n \in Messages : Once(n)'
<1>1. /\ Queued(m, t)
      /\ jobs[m][t] = 1
      /\ m \in stored
      /\ used[m] = 0
      /\ \A s \in 0..RetryLimit : Queued(m, s) => s = t
      /\ \A v \in Workers : ~Held(v, m)
      /\ \A h \in Hooks : ~Enqueueing(h, m)
  BY DEF Once, Queued
<1>2. /\ jobs' \in [Messages -> [0..RetryLimit -> Nat]]
      /\ jobs'[m][t] = 0
      /\ \A n \in Messages : \A s \in 0..RetryLimit :
           n # m \/ s # t => jobs'[n][s] = jobs[n][s]
  BY <1>1 DEF Typed
<1>3. /\ DOMAIN worker' = Workers
      /\ \A v \in Workers : v # w => worker'[v] = worker[v]
      /\ worker'[w].message = m
      /\ IsWorker(worker'[w])
  BY DEF Typed, IsWorker
<1>4. Typed'
  BY <1>2, <1>3 DEF Typed, IsWorker
<1>5. ASSUME NEW n \in Messages
      PROVE  /\ \A s \in 0..RetryLimit : Queued(n, s)' => Queued(n, s) /\ n # m
             /\ \A s \in 0..RetryLimit : n # m => jobs'[n][s] = jobs[n][s]
             /\ \A v \in Workers : Held(v, n)' => Held(v, n) \/ (n = m /\ v = w)
             /\ \A h \in Hooks : Enqueueing(h, n)' = Enqueueing(h, n)
  BY <1>1, <1>2, <1>3 DEF Queued, Held, Enqueueing, Working, Message
<1>6. Once(m)'
  BY <1>1, <1>5 DEF Once
<1>7. ASSUME NEW n \in Messages, n # m
      PROVE  Once(n)'
  BY <1>5, <1>7 DEF Once
<1>. QED
  BY <1>4, <1>6, <1>7

(* Nothing of this moves.                                                    *)
LEMMA NothingMoves ==
  ASSUME Typed, \A m \in Messages : Once(m), UNCHANGED <<hook, jobs, worker, used, stored>>
  PROVE  Typed' /\ \A m \in Messages : Once(m)'
<1>1. Typed'
  BY DEF Typed, IsWorker
<1>. QED
  BY <1>1 DEF Once, Queued, Held, Enqueueing, Working, Message

-----------------------------------------------------------------------------
(* A request that goes to a step other than enqueueing, or to its next       *)
(* message, or to its end.                                                   *)
LEMMA HookSteps ==
  ASSUME Typed, NEW h \in Hooks, hook[h] # None
  PROVE  /\ \A at \in {"check", "store", "createContact", "createConversation"} \cup Tables :
              GoTo(h, at) => \E rec \in HookRecord :
                hook' = [hook EXCEPT ![h] = rec] /\ rec.at # "enqueue"
         /\ hook[h].todo # << >> /\ NextMessage(h) => \E rec \in HookRecord :
              hook' = [hook EXCEPT ![h] = rec] /\ rec.at # "enqueue"
         /\ Abandon(h) => \E rec \in HookRecord :
              hook' = [hook EXCEPT ![h] = rec] /\ rec.at # "enqueue"
<1>1. ASSUME NEW at \in {"check", "store", "createContact", "createConversation"} \cup Tables,
             GoTo(h, at)
      PROVE  \E rec \in HookRecord : hook' = [hook EXCEPT ![h] = rec] /\ rec.at # "enqueue"
  <2>. PICK rec : rec = [hook[h] EXCEPT !.at = at]
    OBVIOUS
  <2>1. rec \in HookRecord /\ rec.at # "enqueue"
    BY ZenonT(30), HookTyped DEF HookRecord, Tables
  <2>2. hook' = [hook EXCEPT ![h] = rec]
    BY <1>1 DEF GoTo
  <2>. QED
    BY <2>1, <2>2
<1>2. ASSUME hook[h].todo # << >>, NextMessage(h)
      PROVE  \E rec \in HookRecord : hook' = [hook EXCEPT ![h] = rec] /\ rec.at # "enqueue"
  <2>. PICK rec : rec = [payload |-> hook[h].payload, todo |-> Tail(hook[h].todo),
                    at |-> "check"]
    OBVIOUS
  <2>1. rec \in HookRecord /\ rec.at # "enqueue"
    BY <1>2, HookTyped DEF HookRecord
  <2>2. hook' = [hook EXCEPT ![h] = rec]
    BY <1>2 DEF NextMessage
  <2>. QED
    BY <2>1, <2>2
<1>3. ASSUME Abandon(h)
      PROVE  \E rec \in HookRecord : hook' = [hook EXCEPT ![h] = rec] /\ rec.at # "enqueue"
  <2>. PICK rec : rec = [payload |-> hook[h].payload, todo |-> << >>, at |-> "check"]
    OBVIOUS
  <2>1. rec \in HookRecord /\ rec.at # "enqueue"
    BY HookTyped DEF HookRecord
  <2>2. hook' = [hook EXCEPT ![h] = rec]
    BY <1>3 DEF Abandon
  <2>. QED
    BY <2>1, <2>2
<1>. QED
  BY <1>1, <1>2, <1>3

(* Every step of a request.                                                  *)
LEMMA RequestStep ==
  ASSUME Typed, \A m \in Messages : Once(m), NEW h \in Hooks,
         \/ \E p \in Payloads : Deliver(h, p)
         \/ HandleHook(h) \/ ErrorInHook(h) \/ CutHook(h)
  PROVE  Typed' /\ \A m \in Messages : Once(m)'
<1>1. CASE \E p \in Payloads : Deliver(h, p)
  <2>. PICK p \in Payloads : Deliver(h, p)
    BY <1>1
  <2>. PICK rec : rec = [payload |-> p, todo |-> p, at |-> "check"]
    OBVIOUS
  <2>1. rec \in HookRecord /\ rec.at # "enqueue"
    BY DEF HookRecord
  <2>2. /\ hook' = [hook EXCEPT ![h] = rec]
        /\ UNCHANGED <<jobs, worker, used>>
        /\ stored' = stored
    BY DEF Deliver, database, history
  <2>. QED
    BY <2>1, <2>2, HookMoves DEF Typed
<1>2. CASE CheckDuplicate(h)
  <2>1. /\ hook[h] # None /\ hook[h].todo # << >>
        /\ NextMessage(h) \/ GoTo(h, "contact")
        /\ UNCHANGED <<jobs, worker, used>>
        /\ stored' = stored
    BY <1>2 DEF CheckDuplicate, Working, database, history
  <2>2. PICK rec \in HookRecord : hook' = [hook EXCEPT ![h] = rec] /\ rec.at # "enqueue"
    BY <2>1, HookSteps DEF Tables
  <2>. QED
    BY <2>1, <2>2, HookMoves DEF Typed
<1>3. ASSUME NEW t \in Tables, FindRow(h, t) \/ CreateRow(h, t)
      PROVE  Typed' /\ \A m \in Messages : Once(m)'
  <2>1. /\ hook[h] # None
        /\ \/ Abandon(h)
           \/ \E at \in {"check", "store", "createContact", "createConversation"} \cup Tables :
                GoTo(h, at)
        /\ UNCHANGED <<jobs, worker, used>>
        /\ stored' = stored
    BY <1>3 DEF FindRow, CreateRow, Working, database, history, AfterTable, Creating, Tables
  <2>2. PICK rec \in HookRecord : hook' = [hook EXCEPT ![h] = rec] /\ rec.at # "enqueue"
    BY <2>1, HookSteps
  <2>. QED
    BY <2>1, <2>2, HookMoves DEF Typed
<1>4. CASE StoreMessage(h)
  <2>1. /\ hook[h] # None /\ hook[h].todo # << >>
        /\ stored' = stored \cup {Message(h)}
        /\ IF Message(h) \in stored THEN NextMessage(h) ELSE GoTo(h, "enqueue")
        /\ UNCHANGED <<jobs, worker, used>>
    BY <1>4 DEF StoreMessage, Working, history
  <2>2. CASE Message(h) \in stored
    <3>1. PICK rec \in HookRecord : hook' = [hook EXCEPT ![h] = rec] /\ rec.at # "enqueue"
      BY <2>1, <2>2, HookSteps
    <3>2. stored' = stored
      BY <2>1, <2>2
    <3>. QED
      BY <2>1, <3>1, <3>2, HookMoves DEF Typed
  <2>. QED
    BY <2>1, <2>2, HookStores
<1>5. CASE EnqueueMessage(h)
  BY <1>5, HookEnqueues DEF EnqueueMessage, database, history
<1>6. CASE Reply(h) \/ CutHook(h)
  <2>1. /\ hook' = [hook EXCEPT ![h] = None]
        /\ UNCHANGED <<jobs, worker, used>>
        /\ stored' = stored
    BY <1>6 DEF Reply, CutHook, database, history
  <2>. QED
    BY <2>1, HookMoves DEF Typed
<1>7. CASE ErrorInHook(h)
  <2>1. /\ hook[h] # None
        /\ Abandon(h)
        /\ UNCHANGED <<jobs, worker, used>>
        /\ stored' = stored
    BY <1>7 DEF ErrorInHook, database, history
  <2>2. PICK rec \in HookRecord : hook' = [hook EXCEPT ![h] = rec] /\ rec.at # "enqueue"
    BY <2>1, HookSteps
  <2>. QED
    BY <2>1, <2>2, HookMoves DEF Typed
<1>. QED
  BY <1>1, <1>2, <1>3, <1>4, <1>5, <1>6, <1>7 DEF HandleHook

(* Every step of a worker that does not die.                                 *)
LEMMA JobStep ==
  ASSUME Typed, \A m \in Messages : Once(m), NEW w \in Workers, TakeJob(w) \/ HandleJob(w)
  PROVE  Typed' /\ \A m \in Messages : Once(m)'
<1>1. CASE TakeJob(w)
  <2>. PICK m \in Messages, t \in 0..RetryLimit : Take(w, m, t)
    BY <1>1 DEF TakeJob
  <2>. QED
    BY WorkerTakes DEF Take, database, history
<1>2. CASE Dismiss(w) \/ Remind(w)
  <2>1. /\ worker[w] # None
        /\ worker' = [worker EXCEPT ![w] = [worker[w] EXCEPT !.at = "done"]]
        /\ UNCHANGED <<hook, jobs, used, stored>>
    BY <1>2 DEF Dismiss, Remind, Handling, database
  <2>2. IsWorker(worker[w])
    BY <2>1 DEF Typed
  <2>3. PICK v : v = [worker[w] EXCEPT !.at = "done"]
    OBVIOUS
  <2>4. IsWorker(v) /\ v.message = worker[w].message /\ v.at = "done"
    BY <2>2, <2>3, WorkerMoves
  <2>5. worker' = [worker EXCEPT ![w] = v]
    BY <2>1, <2>3
  <2>. QED
    BY <2>1, <2>4, <2>5, WorkerMovesOn
<1>3. CASE ReadWaiting(w)
  <2>1. /\ worker[w] # None /\ worker[w].at = "read"
        /\ \E e, status : worker' = [worker EXCEPT ![w] =
             IF Waiting(From[worker[w].message]) = << >>
             THEN [worker[w] EXCEPT !.at = "start"]
             ELSE [worker[w] EXCEPT !.at = "found", !.exec = e, !.paused = status]]
        /\ UNCHANGED <<hook, jobs, used, stored>>
    BY <1>3 DEF ReadWaiting, Handling, database, history
  <2>2. IsWorker(worker[w])
    BY <2>1 DEF Typed
  <2>3. PICK e, status : worker' = [worker EXCEPT ![w] =
             IF Waiting(From[worker[w].message]) = << >>
             THEN [worker[w] EXCEPT !.at = "start"]
             ELSE [worker[w] EXCEPT !.at = "found", !.exec = e, !.paused = status]]
    BY <2>1
  <2>4. PICK v : v = IF Waiting(From[worker[w].message]) = << >>
                     THEN [worker[w] EXCEPT !.at = "start"]
                     ELSE [worker[w] EXCEPT !.at = "found", !.exec = e, !.paused = status]
    OBVIOUS
  <2>5. IsWorker(v) /\ v.message = worker[w].message /\ v.at \in {"found", "start"}
    BY <2>2, <2>4 DEF IsWorker
  <2>6. worker' = [worker EXCEPT ![w] = v]
    BY <2>3, <2>4
  <2>. QED
    BY <2>1, <2>5, <2>6, WorkerMovesOn
<1>4. CASE CancelStuck(w)
  <2>1. /\ worker[w] # None /\ worker[w].at = "found"
        /\ worker' = [worker EXCEPT ![w] = [worker[w] EXCEPT !.at = "start"]]
        /\ UNCHANGED <<hook, jobs, used, stored>>
    BY <1>4 DEF CancelStuck, Handling, database, history
  <2>2. IsWorker(worker[w])
    BY <2>1 DEF Typed
  <2>3. PICK v : v = [worker[w] EXCEPT !.at = "start"]
    OBVIOUS
  <2>4. IsWorker(v) /\ v.message = worker[w].message /\ v.at = "start"
    BY <2>2, <2>3, WorkerMoves
  <2>5. worker' = [worker EXCEPT ![w] = v]
    BY <2>1, <2>3
  <2>. QED
    BY <2>1, <2>4, <2>5, WorkerMovesOn
<1>5. CASE EnqueueRun(w)
  <2>1. /\ worker[w] # None
        /\ worker' = [worker EXCEPT ![w] = [worker[w] EXCEPT !.at = "done"]]
        /\ UNCHANGED <<hook, jobs, used, stored>>
    BY <1>5 DEF EnqueueRun, Handling, database, history
  <2>2. IsWorker(worker[w])
    BY <2>1 DEF Typed
  <2>3. PICK v : v = [worker[w] EXCEPT !.at = "done"]
    OBVIOUS
  <2>4. IsWorker(v) /\ v.message = worker[w].message /\ v.at = "done"
    BY <2>2, <2>3, WorkerMoves
  <2>5. worker' = [worker EXCEPT ![w] = v]
    BY <2>1, <2>3
  <2>. QED
    BY <2>1, <2>4, <2>5, WorkerMovesOn
<1>6. CASE Finish(w)
  <2>1. /\ worker[w] # None
        /\ worker' = [worker EXCEPT ![w] = None]
        /\ UNCHANGED <<hook, jobs, used, stored>>
    BY <1>6 DEF Finish, Handling, database, history
  <2>. QED
    BY <2>1, WorkerMovesOn
<1>7. CASE Resume(w)
  <2>1. /\ worker[w] # None /\ worker[w].at = "found" /\ Use(w)
        /\ worker' = [worker EXCEPT ![w] = [worker[w] EXCEPT !.at = "enqueue"]]
        /\ UNCHANGED <<hook, jobs, stored>>
    BY <1>7 DEF Resume, Handling, database
  <2>2. IsWorker(worker[w])
    BY <2>1 DEF Typed
  <2>3. PICK v : v = [worker[w] EXCEPT !.at = "enqueue"]
    OBVIOUS
  <2>4. IsWorker(v) /\ v.at = "enqueue"
    BY <2>2, <2>3, WorkerMoves
  <2>5. worker' = [worker EXCEPT ![w] = v]
    BY <2>1, <2>3
  <2>. QED
    BY <2>1, <2>4, <2>5, WorkerUses
<1>8. CASE Start(w)
  <2>1. /\ worker[w] # None /\ worker[w].at = "start" /\ Use(w)
        /\ \E e \in Execs : worker' = [worker EXCEPT ![w] =
             [worker[w] EXCEPT !.at = "enqueue", !.exec = e]]
        /\ UNCHANGED <<hook, jobs, stored>>
    BY <1>8 DEF Start, Handling, database
  <2>2. IsWorker(worker[w])
    BY <2>1 DEF Typed
  <2>. PICK e \in Execs : worker' = [worker EXCEPT ![w] =
             [worker[w] EXCEPT !.at = "enqueue", !.exec = e]]
    BY <2>1
  <2>3. PICK v : v = [worker[w] EXCEPT !.at = "enqueue", !.exec = e]
    OBVIOUS
  <2>4. IsWorker(v) /\ v.at = "enqueue"
    BY <2>2, <2>3 DEF IsWorker
  <2>5. worker' = [worker EXCEPT ![w] = v]
    BY <2>3
  <2>. QED
    BY <2>1, <2>4, <2>5, WorkerUses
<1>. QED
  BY <1>1, <1>2, <1>3, <1>4, <1>5, <1>6, <1>7, <1>8 DEF HandleJob

-----------------------------------------------------------------------------
LEMMA InitSafe == Init => Safe
<1>. SUFFICES ASSUME Init
              PROVE  Typed /\ \A m \in Messages : Once(m)
  BY DEF Safe
<1>1. Typed
  BY DEF Init, Typed
<1>. QED
  BY <1>1 DEF Init, Once, Enqueueing, Working, Queued, Held

LEMMA NextSafe == Safe /\ [Next]_vars => Safe'
<1>. SUFFICES ASSUME Safe, [Next]_vars, NoWorkerDies'
              PROVE  Typed' /\ \A m \in Messages : Once(m)'
  BY DEF Safe
<1>1. setting' = setting
  BY ZenonT(30) DEF Next, vars, TakeJob, HandleJob, HandleHook, WalkOn, Deliver, CheckDuplicate,
         FindRow, CreateRow, StoreMessage, EnqueueMessage, Reply, ErrorInHook, CutHook,
         Take, Dismiss, ReadWaiting, Remind, CancelStuck, Resume, Start, EnqueueRun,
         Finish, CutWorker, Walk
<1>2. NoWorkerDies /\ Typed /\ \A m \in Messages : Once(m)
  BY <1>1 DEF NoWorkerDies, Safe
<1>3. ASSUME NEW h \in Hooks,
             \/ \E p \in Payloads : Deliver(h, p)
             \/ HandleHook(h) \/ ErrorInHook(h) \/ CutHook(h)
      PROVE  Typed' /\ \A m \in Messages : Once(m)'
  BY <1>2, <1>3, RequestStep
<1>4. ASSUME NEW w \in Workers, TakeJob(w) \/ HandleJob(w)
      PROVE  Typed' /\ \A m \in Messages : Once(m)'
  BY <1>2, <1>4, JobStep
<1>5. ASSUME NEW w \in Workers, CutWorker(w)
      PROVE  FALSE
  BY <1>2, <1>5 DEF CutWorker, Fault, NoWorkerDies
<1>6. ASSUME NEW e \in Execs, WalkOn(e)
      PROVE  UNCHANGED <<hook, jobs, worker, used, stored>>
  BY <1>6 DEF WalkOn, Walk, database
<1>7. CASE UNCHANGED vars
  BY <1>2, <1>7, NothingMoves DEF vars, database, history
<1>. QED
  BY <1>2, <1>3, <1>4, <1>5, <1>6, <1>7, NothingMoves DEF Next

(* However often and however simultaneously a message is delivered, at most  *)
(* one execution is started or resumed with it, once, as long as no worker   *)
(* dies with it (WebhooksController.receive, storeIncomingMessage,           *)
(* IncomingMessageProcessor.handle).                                         *)
THEOREM MessagesHandledOnce == Spec => []HandledOnce
<1>1. Safe => HandledOnce
  BY DEF Safe, NoWorkerDies, Once, Typed, HandledOnce
<1>. QED
  BY <1>1, InitSafe, NextSafe, PTL DEF Spec

-----------------------------------------------------------------------------
(* What Meta is told is kept, where no call fails and the contacts are       *)
(* known: a request has stored what it has left behind of its payload, and a *)
(* request that gets to its end left nothing out.                            *)
Reliable == "error" \notin setting.faults /\ setting.known = Contacts

ToldTypes ==
  /\ hook \in [Hooks -> {None} \cup HookRecord]
  /\ post \in [Payloads -> {"unsent", "sent", "acked"}]

StoredOrToDo(rec, kept) ==
  /\ rec.at \notin {"createContact", "createConversation"}
  /\ rec.at = "enqueue" /\ rec.todo # << >> => Head(rec.todo) \in kept
  /\ \A i \in 1..Len(rec.payload) :
       rec.payload[i] \in kept \/ \E j \in 1..Len(rec.todo) : rec.todo[j] = rec.payload[i]

NothingLeftOut ==
  /\ Contacts \X Tables \subseteq rows
  /\ \A h \in Hooks : hook[h] # None => StoredOrToDo(hook[h], stored)
  /\ \A p \in Payloads : post[p] = "acked" => \A i \in 1..Len(p) : p[i] \in stored

Kept == ToldTypes /\ (Reliable => NothingLeftOut)

(* A request goes on to a record that leaves nothing out, and stores.        *)
LEMMA KeptByMove ==
  ASSUME Kept, NEW h \in Hooks, NEW rec \in {None} \cup HookRecord,
         hook' = [hook EXCEPT ![h] = rec], UNCHANGED <<setting, post>>,
         rows \subseteq rows', stored \subseteq stored',
         Reliable /\ rec # None => StoredOrToDo(rec, stored')
  PROVE  Kept'
<1>1. ToldTypes'
  BY DEF Kept, ToldTypes
<1>2. ASSUME Reliable
      PROVE  NothingLeftOut'
  <2>1. ASSUME NEW g \in Hooks, hook'[g] # None
        PROVE  StoredOrToDo(hook'[g], stored')
    <3>1. CASE g = h
      <4>1. hook'[g] = rec
        BY <3>1 DEF Kept, ToldTypes
      <4>. QED
        BY <1>2, <2>1, <4>1 DEF StoredOrToDo
    <3>2. CASE g # h
      <4>1. hook'[g] = hook[g]
        BY <3>2 DEF Kept, ToldTypes
      <4>2. StoredOrToDo(hook[g], stored)
        BY <1>2, <2>1, <4>1 DEF Kept, NothingLeftOut
      <4>. QED
        BY <4>1, <4>2 DEF StoredOrToDo
    <3>. QED
      BY <3>1, <3>2
  <2>2. Contacts \X Tables \subseteq rows'
    BY <1>2 DEF Kept, NothingLeftOut
  <2>3. \A p \in Payloads : post'[p] = "acked" => \A i \in 1..Len(p) : p[i] \in stored'
    BY <1>2 DEF Kept, NothingLeftOut
  <2>. QED
    BY <2>1, <2>2, <2>3 DEF NothingLeftOut
<1>. QED
  BY <1>1, <1>2 DEF Kept, Reliable

(* The head of what is to do has been stored: the rest is left.              *)
LEMMA KeptByNextMessage ==
  ASSUME Kept, NEW h \in Hooks, hook[h] # None, hook[h].todo # << >>, NextMessage(h),
         Message(h) \in stored, UNCHANGED <<setting, post>>,
         rows \subseteq rows', stored \subseteq stored'
  PROVE  Kept'
<1>. DEFINE old == hook[h]
            rec == [payload |-> old.payload, todo |-> Tail(old.todo), at |-> "check"]
<1>1. old \in HookRecord
  BY DEF Kept, ToldTypes
<1>2. /\ old.todo \in Seq(Messages) /\ old.todo # << >> /\ old.payload \in Payloads
      /\ Head(old.todo) \in stored
  BY <1>1 DEF HookRecord, Message
<1>3. /\ Tail(old.todo) \in Seq(Messages)
      /\ \A j \in 1..Len(old.todo) :
           \/ old.todo[j] = Head(old.todo)
           \/ \E k \in 1..Len(Tail(old.todo)) : Tail(old.todo)[k] = old.todo[j]
  <2>1. Len(Tail(old.todo)) = Len(old.todo) - 1 /\ Len(old.todo) \in Nat
    BY <1>2
  <2>2. ASSUME NEW j \in 1..Len(old.todo), j # 1
        PROVE  j - 1 \in 1..Len(Tail(old.todo)) /\ Tail(old.todo)[j - 1] = old.todo[j]
    BY <1>2, <2>1, <2>2
  <2>3. old.todo[1] = Head(old.todo)
    BY <1>2
  <2>4. ASSUME NEW j \in 1..Len(old.todo)
        PROVE  \/ old.todo[j] = Head(old.todo)
               \/ \E k \in 1..Len(Tail(old.todo)) : Tail(old.todo)[k] = old.todo[j]
    <3>1. CASE j = 1
      BY <2>3, <3>1
    <3>2. CASE j # 1
      BY <2>2, <3>2
    <3>. QED
      BY <3>1, <3>2
  <2>. QED
    BY <1>2, <2>4
<1>4. rec \in HookRecord
  BY <1>2, <1>3 DEF HookRecord
<1>5. hook' = [hook EXCEPT ![h] = rec]
  BY DEF NextMessage
<1>6. ASSUME Reliable
      PROVE  StoredOrToDo(rec, stored')
  <2>1. StoredOrToDo(old, stored)
    BY <1>6 DEF Kept, NothingLeftOut
  <2>2. rec.at = "check" /\ rec.payload = old.payload /\ rec.todo = Tail(old.todo)
    OBVIOUS
  <2>. HIDE DEF rec
  <2>3. ASSUME NEW i \in 1..Len(old.payload), old.payload[i] \notin stored
        PROVE  \E k \in 1..Len(Tail(old.todo)) : Tail(old.todo)[k] = old.payload[i]
    <3>1. PICK j \in 1..Len(old.todo) : old.todo[j] = old.payload[i]
      BY <2>1, <2>3 DEF StoredOrToDo
    <3>. QED
      BY <1>2, <1>3, <2>3, <3>1
  <2>. QED
    BY <2>2, <2>3 DEF StoredOrToDo
<1>. HIDE DEF rec
<1>. QED
  BY <1>4, <1>5, <1>6, KeptByMove

(* The same message, at another step.                                        *)
LEMMA KeptByGoing ==
  ASSUME Kept, NEW h \in Hooks, hook[h] # None, NEW at \in {"store", "enqueue"} \cup Tables
           \cup {"createContact", "createConversation"},
         GoTo(h, at), UNCHANGED <<setting, post>>,
         rows \subseteq rows', stored \subseteq stored',
         Reliable => at \notin {"createContact", "createConversation"},
         at = "enqueue" => Message(h) \in stored'
  PROVE  Kept'
<1>. DEFINE old == hook[h]
            rec == [old EXCEPT !.at = at]
<1>1. old \in HookRecord
  BY DEF Kept, ToldTypes
<1>2. /\ rec \in HookRecord /\ rec.at = at /\ rec.todo = old.todo /\ rec.payload = old.payload
  BY <1>1 DEF HookRecord
<1>3. hook' = [hook EXCEPT ![h] = rec]
  BY DEF GoTo
<1>4. ASSUME Reliable
      PROVE  StoredOrToDo(rec, stored')
  <2>1. StoredOrToDo(old, stored)
    BY <1>4 DEF Kept, NothingLeftOut
  <2>2. rec.at = "enqueue" => Head(rec.todo) \in stored'
    BY <1>2 DEF Message
  <2>. HIDE DEF rec
  <2>. QED
    BY <1>2, <1>4, <2>1, <2>2 DEF StoredOrToDo
<1>. HIDE DEF rec
<1>. QED
  BY <1>2, <1>3, <1>4, KeptByMove

LEMMA KeptByHook ==
  ASSUME Kept, NEW h \in Hooks, HandleHook(h)
  PROVE  Kept'
<1>1. CASE CheckDuplicate(h)
  <2>1. /\ hook[h] # None /\ hook[h].todo # << >> /\ UNCHANGED <<setting, post, rows, stored>>
        /\ \/ Message(h) \in stored /\ NextMessage(h)
           \/ Message(h) \notin stored /\ GoTo(h, "contact")
    BY <1>1 DEF CheckDuplicate, Working, provider, database
  <2>. QED
    BY <2>1, KeptByNextMessage, KeptByGoing DEF Tables
<1>2. ASSUME NEW t \in Tables, FindRow(h, t)
      PROVE  Kept'
  <2>. DEFINE row == <<From[Message(h)], t>>
              at == IF row \in rows THEN AfterTable(t) ELSE Creating(t)
  <2>1. hook[h] # None /\ hook[h].todo # << >> /\ GoTo(h, at) /\ UNCHANGED <<setting, post, rows, stored>>
    BY <1>2 DEF FindRow, Working, provider, database
  <2>2. at \in {"store"} \cup Tables \cup {"createContact", "createConversation"}
    BY DEF AfterTable, Creating, Tables
  <2>3. row \in Contacts \X Tables
    <3>1. hook[h] \in HookRecord
      BY <2>1 DEF Kept, ToldTypes
    <3>2. Message(h) \in Messages
      BY <2>1, <3>1 DEF HookRecord, Message
    <3>. QED
      BY <3>2
  <2>4. Reliable => at \in {"store", "conversation"}
    <3>1. Reliable => row \in rows
      BY <2>3 DEF Kept, NothingLeftOut
    <3>2. row \in rows => at = AfterTable(t)
      OBVIOUS
    <3>3. AfterTable(t) \in {"store", "conversation"}
      BY DEF AfterTable
    <3>. HIDE DEF at, row
    <3>. QED
      BY <3>1, <3>2, <3>3
  <2>. HIDE DEF at
  <2>5. at # "enqueue" /\ at \in {"store", "enqueue"} \cup Tables \cup {"createContact", "createConversation"}
    BY <2>2 DEF Tables
  <2>6. rows \subseteq rows' /\ stored \subseteq stored' /\ UNCHANGED <<setting, post>>
    BY <2>1
  <2>7. Reliable => at \notin {"createContact", "createConversation"}
    BY <2>4
  <2>. QED
    BY <2>1, <2>5, <2>6, <2>7, KeptByGoing
<1>3. ASSUME NEW t \in Tables, CreateRow(h, t)
      PROVE  Kept'
  <2>1. hook[h] # None /\ hook[h].at = Creating(t) /\ UNCHANGED <<setting, post, stored>>
    BY <1>3 DEF CreateRow, Working, provider
  <2>2. ~Reliable
    BY <2>1 DEF Kept, NothingLeftOut, StoredOrToDo, Creating
  <2>3. ToldTypes'
    <3>. DEFINE old == hook[h]
    <3>1. old \in HookRecord
      BY <2>1 DEF Kept, ToldTypes
    <3>2. /\ [old EXCEPT !.at = AfterTable(t)] \in HookRecord
          /\ [payload |-> old.payload, todo |-> << >>, at |-> "check"] \in HookRecord
      BY <3>1 DEF HookRecord, AfterTable, Tables
    <3>3. \/ hook' = [hook EXCEPT ![h] = [old EXCEPT !.at = AfterTable(t)]]
          \/ hook' = [hook EXCEPT ![h] = [payload |-> old.payload, todo |-> << >>, at |-> "check"]]
      BY <1>3 DEF CreateRow, GoTo, Abandon
    <3>. HIDE DEF old
    <3>. QED
      BY <2>1, <3>2, <3>3 DEF Kept, ToldTypes
  <2>. QED
    BY <2>1, <2>2, <2>3 DEF Kept, Reliable
<1>4. CASE StoreMessage(h)
  <2>1. /\ hook[h] # None /\ hook[h].todo # << >> /\ UNCHANGED <<setting, post, rows>>
        /\ stored \subseteq stored' /\ Message(h) \in stored'
        /\ \/ Message(h) \in stored /\ NextMessage(h)
           \/ Message(h) \notin stored /\ GoTo(h, "enqueue")
    BY <1>4 DEF StoreMessage, Working, provider
  <2>. QED
    BY <2>1, KeptByNextMessage, KeptByGoing
<1>5. CASE EnqueueMessage(h)
  <2>1. /\ hook[h] # None /\ hook[h].todo # << >> /\ hook[h].at = "enqueue" /\ NextMessage(h)
        /\ UNCHANGED <<setting, post, rows, stored>>
    BY <1>5 DEF EnqueueMessage, Working, provider, database
  <2>2. CASE Reliable
    <3>1. Message(h) \in stored
      BY <2>1, <2>2 DEF Kept, NothingLeftOut, StoredOrToDo, Message
    <3>. QED
      BY <2>1, <3>1, KeptByNextMessage
  <2>3. CASE ~Reliable
    <3>. DEFINE rec == [payload |-> hook[h].payload, todo |-> Tail(hook[h].todo), at |-> "check"]
    <3>1. hook[h] \in HookRecord
      BY <2>1 DEF Kept, ToldTypes
    <3>2. rec \in HookRecord
      BY <2>1, <3>1 DEF HookRecord
    <3>3. hook' = [hook EXCEPT ![h] = rec]
      BY <2>1 DEF NextMessage
    <3>. HIDE DEF rec
    <3>. QED
      BY <2>1, <2>3, <3>2, <3>3, KeptByMove
  <2>. QED
    BY <2>2, <2>3
<1>6. CASE Reply(h)
  <2>. DEFINE p == hook[h].payload
  <2>1. /\ hook[h] # None /\ hook[h].todo = << >> /\ hook' = [hook EXCEPT ![h] = None]
        /\ post' = [post EXCEPT ![p] = "acked"] /\ UNCHANGED <<setting, rows, stored>>
    BY <1>6 DEF Reply, database
  <2>2. hook[h] \in HookRecord /\ p \in Payloads
    BY <2>1 DEF Kept, ToldTypes, HookRecord
  <2>3. ToldTypes'
    BY <2>1, <2>2 DEF Kept, ToldTypes
  <2>4. ASSUME Reliable
        PROVE  NothingLeftOut'
    <3>1. \A i \in 1..Len(p) : p[i] \in stored
      BY <2>1, <2>4 DEF Kept, NothingLeftOut, StoredOrToDo
    <3>2. \A q \in Payloads : post'[q] = "acked" => \A i \in 1..Len(q) : q[i] \in stored'
      BY <2>1, <2>2, <2>4, <3>1 DEF Kept, ToldTypes, NothingLeftOut
    <3>3. \A g \in Hooks : hook'[g] # None => StoredOrToDo(hook'[g], stored')
      BY <2>1, <2>4 DEF Kept, ToldTypes, NothingLeftOut
    <3>. QED
      BY <2>1, <2>4, <3>2, <3>3 DEF Kept, NothingLeftOut
  <2>. QED
    BY <2>1, <2>3, <2>4 DEF Kept, Reliable
<1>. QED
  BY <1>1, <1>2, <1>3, <1>4, <1>5, <1>6 DEF HandleHook

LEMMA KeptByFault ==
  ASSUME Kept, NEW h \in Hooks, ErrorInHook(h) \/ CutHook(h)
  PROVE  Kept'
<1>1. CASE ErrorInHook(h)
  <2>1. /\ hook[h] # None /\ "error" \in setting.faults /\ Abandon(h)
        /\ UNCHANGED <<setting, post, rows, stored>>
    BY <1>1 DEF ErrorInHook, Fault, provider, database
  <2>. DEFINE rec == [payload |-> hook[h].payload, todo |-> << >>, at |-> "check"]
  <2>2. hook[h] \in HookRecord
    BY <2>1 DEF Kept, ToldTypes
  <2>3. rec \in HookRecord
    BY <2>2 DEF HookRecord
  <2>4. hook' = [hook EXCEPT ![h] = rec]
    BY <2>1 DEF Abandon
  <2>. HIDE DEF rec
  <2>. QED
    BY <2>1, <2>3, <2>4, KeptByMove DEF Reliable
<1>2. CASE CutHook(h)
  <2>1. hook' = [hook EXCEPT ![h] = None] /\ UNCHANGED <<setting, post, rows, stored>>
    BY <1>2 DEF CutHook, provider, database
  <2>. QED
    BY <2>1, KeptByMove
<1>. QED
  BY <1>1, <1>2

LEMMA KeptByDelivery ==
  ASSUME Kept, NEW h \in Hooks, NEW p \in Payloads, Deliver(h, p)
  PROVE  Kept'
<1>. DEFINE rec == [payload |-> p, todo |-> p, at |-> "check"]
<1>1. /\ hook' = [hook EXCEPT ![h] = rec] /\ UNCHANGED <<setting, rows, stored>>
      /\ post' = [post EXCEPT ![p] = IF @ = "unsent" THEN "sent" ELSE @]
  BY DEF Deliver, database
<1>2. rec \in HookRecord /\ StoredOrToDo(rec, stored')
  BY DEF HookRecord, StoredOrToDo
<1>. HIDE DEF rec
<1>3. ToldTypes' /\ \A q \in Payloads : post'[q] = "acked" => post[q] = "acked"
  BY <1>1, <1>2 DEF Kept, ToldTypes
<1>4. ASSUME Reliable
      PROVE  NothingLeftOut'
  <2>1. \A g \in Hooks : hook'[g] # None => StoredOrToDo(hook'[g], stored')
    BY <1>1, <1>2, <1>4 DEF Kept, ToldTypes, NothingLeftOut
  <2>. QED
    BY <1>1, <1>3, <1>4, <2>1 DEF Kept, NothingLeftOut
<1>. QED
  BY <1>1, <1>3, <1>4 DEF Kept, Reliable

LEMMA KeptBySettling ==
  ASSUME Kept, UNCHANGED <<setting, post, rows, stored, hook>>
  PROVE  Kept'
  BY DEF Kept, ToldTypes, Reliable, NothingLeftOut

LEMMA KeptInvariant == Spec => []Kept
<1>1. Init => Kept
  BY DEF Init, Kept, ToldTypes, Reliable, NothingLeftOut
<1>2. ASSUME Kept, [Next]_vars
      PROVE  Kept'
  <2>1. ASSUME NEW w \in Workers, TakeJob(w)
        PROVE  UNCHANGED <<setting, post, rows, stored, hook>>
    BY <2>1 DEF TakeJob, Take, provider, database
  <2>2. ASSUME NEW w \in Workers, HandleJob(w)
        PROVE  UNCHANGED <<setting, post, rows, stored, hook>>
    BY <2>2 DEF HandleJob, Dismiss, ReadWaiting, Remind, CancelStuck, Resume, Start, EnqueueRun,
                Finish, provider, database
  <2>3. ASSUME NEW w \in Workers, CutWorker(w)
        PROVE  UNCHANGED <<setting, post, rows, stored, hook>>
    BY <2>3 DEF CutWorker, provider, database
  <2>4. ASSUME NEW e \in Execs, WalkOn(e)
        PROVE  UNCHANGED <<setting, post, rows, stored, hook>>
    BY <2>4 DEF WalkOn, Walk, provider, database
  <2>5. CASE UNCHANGED vars
    BY <1>2, <2>5, KeptBySettling DEF vars, provider, database
  <2>6. ASSUME NEW h \in Hooks, \/ \E p \in Payloads : Deliver(h, p)
                                \/ HandleHook(h) \/ ErrorInHook(h) \/ CutHook(h)
        PROVE  Kept'
    BY <1>2, <2>6, KeptByDelivery, KeptByHook, KeptByFault
  <2>7. ASSUME NEW w \in Workers, TakeJob(w) \/ HandleJob(w) \/ CutWorker(w)
        PROVE  Kept'
    BY <1>2, <2>1, <2>2, <2>3, <2>7, KeptBySettling
  <2>8. ASSUME NEW e \in Execs, WalkOn(e)
        PROVE  Kept'
    BY <1>2, <2>4, <2>8, KeptBySettling
  <2>. QED
    BY <1>2, <2>5, <2>6, <2>7, <2>8 DEF Next
<1>. QED
  BY <1>1, <1>2, PTL DEF Spec

(* What Meta was answered 200 for has been stored, message by message, for   *)
(* any payloads and any number of deliveries and requests at a time, also    *)
(* when requests are cut off (WebhooksController.receive answers after its   *)
(* loop).                                                                    *)
THEOREM NothingAcknowledgedIsLost == Spec => []AcknowledgedIsKept
<1>1. Kept => AcknowledgedIsKept
  BY DEF Kept, Reliable, NothingLeftOut, AcknowledgedIsKept
<1>. QED
  BY <1>1, KeptInvariant, PTL
=============================================================================
