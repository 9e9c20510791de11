------------------------- MODULE WorkflowRunsProofs -------------------------
(***************************************************************************)
(* Proofs about WorkflowRuns, for every workflow, every number of contacts,*)
(* workers, executions and retries: the types; that `recent' holds exactly *)
(* the executions that wait; and, for the workflows that the flags of a    *)
(* context serve well, that a stored answer came after its question, that  *)
(* no node acts twice, and that the buttons a customer holds work.         *)
(***************************************************************************)
EXTENDS WorkflowRuns, TLAPS

Questions == {"ask", "photo", "pick"}

(* Nobody taps and no node schedules a walk of its own: customers answer in  *)
(* words and pictures.                                                       *)
AnsweredInWriting ==
  /\ setting.taps = 0
  /\ \A n \in Nodes : flow[n] \notin {"delay", "book"}

(* Nobody taps or books, and what is delayed is delayed before the first     *)
(* question (after one, the walk that the delay schedules goes back to it)   *)
(* and not at the end (from where it goes back to the trigger).              *)
DelaysComeFirst ==
  /\ setting.taps = 0
  /\ \A n \in Nodes : flow[n] # "book"
  /\ flow[Len(flow)] # "delay"
  /\ \A m, n \in Nodes : m < n /\ flow[m] \in Questions => flow[n] # "delay"

Counted == messages \in 0..MaxMessages /\ faults \in Nat

Distinct(seq) == \A i, j \in 1..Len(seq) : seq[i] = seq[j] => i = j

Elements(seq) == {seq[i] : i \in 1..Len(seq)}

(* The executions in `recent' are those whose row says "waiting", each once. *)
RecentIsWaiting ==
  /\ Distinct(recent)
  /\ Elements(recent) = {e \in Execs : exec[e].status = "waiting"}

Untouched == setting.taps = 0 => \A i \in 1..MaxTaps : tap[i] = None

(* What has begun: an execution has no job and no walk before its message,   *)
(* which is one of those that came.                                          *)
Begun ==
  /\ \A e \in Execs : exec[e].status = "none" =>
       /\ exec[e].ctx = NewContext(0)
       /\ \A t \in 0..MaxRetries : jobs[e][t] = 0
  /\ \A w \in Workers : run[w] # None => exec[run[w].exec].status # "none"
  /\ \A e \in Execs : exec[e].status # "none" => exec[e].ctx.message \in 1..messages
  /\ \A w \in Workers : run[w] # None => run[w].ctx.message \in 1..messages
  /\ \A e \in Execs : \A n \in Nodes : asked[e][n] <= messages
  /\ \A i \in 1..MaxTaps : Handling(i, "found") => exec[tap[i].exec].status # "none"

-----------------------------------------------------------------------------
(* The question of node n of workflow f has not been answered yet.           *)
Open(f, ctx, n) == /\ f[n] \in Questions
                   /\ f[n] = "ask" => ctx.answers[n] = 0
                   /\ f[n] = "photo" => ~ctx.attached

(* Questions were asked before their answers came (asks says when), and a    *)
(* context that is resumed carries a message newer than the open question it *)
(* paused at.                                                                *)
Answered(f, ctx, asks) ==
  /\ ~ctx.tapped
  /\ \A n \in 1..Len(f) : ctx.answers[n] # 0 => asks[n] # 0 /\ ctx.answers[n] > asks[n]
  /\ ctx.resuming => /\ ctx.paused # 0
                     /\ Open(f, ctx, ctx.paused)
                     /\ asks[ctx.paused] # 0 /\ ctx.message > asks[ctx.paused]

RowAnswered(f, row, asks) ==
  /\ Answered(f, row.ctx, asks)
  /\ row.status = "waiting" => /\ row.ctx.paused # 0
                               /\ Open(f, row.ctx, row.ctx.paused)
                               /\ asks[row.ctx.paused] # 0

WalkAnswered(f, walk, asks) ==
  /\ Answered(f, walk.ctx, asks)
  /\ walk.at = "walk" /\ walk.ctx.resuming => walk.node = walk.ctx.paused
  /\ walk.at = "pause" => Open(f, walk.ctx, walk.node) /\ asks[walk.node] # 0

AnswersInOrder ==
  /\ \A e \in Execs : RowAnswered(flow, exec[e], asked[e])
  /\ \A w \in Workers : run[w] # None => WalkAnswered(flow, run[w], asked[run[w].exec])

AnswersInv == AnsweredInWriting => AnswersInOrder

-----------------------------------------------------------------------------
Active(w) == run[w] # None /\ run[w].at # "done"

(* At most one of: a job, a walk, a row that waits.                          *)
OneWalk ==
  /\ \A e \in Execs : jobs[e][0] <= 1 /\ \A t \in 1..MaxRetries : jobs[e][t] = 0
  /\ \A e \in Execs : exec[e].status = "waiting" => jobs[e][0] = 0
  /\ \A w \in Workers : Active(w) => jobs[run[w].exec][0] = 0 /\ exec[run[w].exec].status # "waiting"
  /\ \A v, w \in Workers : Active(v) /\ Active(w) /\ run[v].exec = run[w].exec => v = w

(* A walk that is at node n, or will start there: nothing from n on has      *)
(* acted, and it has paused, if ever, at a question not after n.             *)
Fresh(f, ctx, acts, n) ==
  /\ ~ctx.tapped
  /\ ctx.paused # 0 => f[ctx.paused] \in Questions /\ (n = 0 \/ ctx.paused <= n)
  /\ n # 0 => \A m \in 1..Len(f) : n <= m => acts[m] = 0

RowFresh(f, row, acts, queued) ==
  /\ row.status = "none" => \A n \in 1..Len(f) : acts[n] = 0
  /\ row.status = "waiting" => row.ctx.paused # 0 /\ Fresh(f, row.ctx, acts, row.ctx.paused)
  /\ queued # 0 => Fresh(f, row.ctx, acts, Entry(row.ctx))

WalkFresh(f, walk, acts) ==
  /\ Fresh(f, walk.ctx, acts, walk.node)
  /\ walk.at = "pause" => f[walk.node] \in Questions

Unrepeated ==
  /\ \A e \in Execs : \A n \in Nodes : ran[e][n] <= 1
  /\ \A e \in Execs : RowFresh(flow, exec[e], ran[e], jobs[e][0])
  /\ \A w \in Workers : Active(w) => WalkFresh(flow, run[w], ran[run[w].exec])

Single == OneWalk /\ Unrepeated

ActsInv == DelaysComeFirst /\ setting.faults = 0 => Single

-----------------------------------------------------------------------------
(* Types.  The shape of a state, by the records it is made of.               *)
Statuses == {"none", "pending", "running", "waiting", "delayed", "completed",
             "cancelled", "failed"}

Row == [status : Statuses, contact : Contacts, ctx : Context]

Walk == [exec : Execs, tries : 0..MaxRetries, at : {"walk", "pause", "done"},
         node : 0..Len(flow), ctx : Context]

(* A walk pauses at a node.                                                  *)
WalkRecord == {r \in Walk : r.at = "pause" => r.node # 0}

TapRecord == [at : {"found", "resumed", "handled"}, contact : Contacts, exec : Execs,
              next : 0..Len(flow)]

Shape ==
  /\ setting \in Settings
  /\ exec \in [Execs -> Row]
  /\ recent \in Seq(Execs)
  /\ jobs \in [Execs -> [0..MaxRetries -> Nat]]
  /\ run \in [Workers -> {None} \cup WalkRecord]
  /\ tapState \in [Contacts -> 0..Len(flow)]
  /\ tap \in [1..MaxTaps -> {None} \cup TapRecord]
  /\ booked \subseteq Execs
  /\ ran \in [Execs -> [Nodes -> 0..2]]
  /\ asked \in [Execs -> [Nodes -> 0..MaxMessages]]
  /\ Counted

LEMMA ShapeMeansTypes == Shape => TypeOK /\ Counted
<1>. SUFFICES ASSUME Shape
              PROVE  TypeOK /\ Counted
  OBVIOUS
<1>1. run \in [Workers -> {None} \cup Walk]
  BY DEF Shape, WalkRecord
<1>. QED
  BY <1>1 DEF Shape, TypeOK, Row, Statuses, Walk, TapRecord

(* What the constants say of the workflow of a setting.                      *)
LEMMA SettingFacts ==
  ASSUME setting \in Settings
  PROVE  /\ MaxExecs \in Nat /\ MaxMessages \in Nat /\ MaxTaps \in Nat /\ MaxRetries \in Nat
         /\ 1 \in Execs /\ Contacts # {}
         /\ Len(flow) \in Nat /\ Len(flow) >= 1
         /\ \A n \in Nodes : n \in 1..Len(flow) /\ flow[n] \in Kinds /\ After(n) \in 0..Len(flow)
         /\ (\E n \in Nodes : flow[n] = "book") => \E n \in Nodes : flow[n] = "pick"
         /\ setting.messages \in 0..MaxMessages
         /\ setting.contacts \subseteq Contacts
         /\ setting.taps \in 0..MaxTaps /\ setting.faults \in Nat
<1>1. setting \in Setting
  BY ConstantsOK
<1>2. /\ setting.flow \in Seq(Kinds) /\ setting.flow # << >>
      /\ setting.messages \in 0..MaxMessages /\ setting.contacts \subseteq Contacts
      /\ setting.taps \in 0..MaxTaps /\ setting.faults \in Nat
  BY <1>1 DEF Setting
<1>3. Len(setting.flow) \in Nat /\ Len(setting.flow) >= 1
  BY <1>2
<1>4. \A n \in 1..Len(setting.flow) : setting.flow[n] \in Kinds
  BY <1>2
<1>5. (\E n \in Nodes : flow[n] = "book") => \E n \in Nodes : flow[n] = "pick"
  BY ConstantsOK DEF Nodes, flow
<1>. QED
  BY <1>2, <1>3, <1>4, <1>5, ConstantsOK DEF Nodes, flow, After, Execs

(* The workflow of a behaviour stays the same.                               *)
LEMMA SameWorkflow ==
  ASSUME setting' = setting
  PROVE  /\ flow' = flow /\ Nodes' = Nodes /\ Context' = Context /\ Row' = Row
         /\ WalkRecord' = WalkRecord /\ TapRecord' = TapRecord
BY DEF flow, Nodes, Context, Row, Walk, WalkRecord, TapRecord

LEMMA NewContextType ==
  ASSUME setting \in Settings, NEW m \in 0..MaxMessages
  PROVE  NewContext(m) \in Context
<1>1. [n \in Nodes |-> 0] \in [Nodes -> 0..MaxMessages]
  BY SettingFacts
<1>. QED
  BY <1>1, SettingFacts DEF NewContext, Context

LEMMA EntryType ==
  ASSUME setting \in Settings, NEW ctx \in Context
  PROVE  Entry(ctx) \in 0..Len(flow)
BY SettingFacts DEF Entry, Context

(* Taking an element out of a sequence in which it occurs once at most.      *)
LEMMA WithoutType ==
  ASSUME NEW S, NEW seq \in Seq(S), NEW e
  PROVE  Without(seq, e) \in Seq(S)
<1>1. CASE \E i \in 1..Len(seq) : seq[i] = e
  <2>. DEFINE i == CHOOSE k \in 1..Len(seq) : seq[k] = e
  <2>1. i \in 1..Len(seq)
    BY <1>1
  <2>2. Len(seq) - 1 \in Nat
    BY <2>1
  <2>3. Without(seq, e) = [j \in 1..(Len(seq) - 1) |-> IF j < i THEN seq[j] ELSE seq[j + 1]]
    BY <1>1 DEF Without
  <2>. HIDE DEF i
  <2>4. \A j \in 1..(Len(seq) - 1) : (IF j < i THEN seq[j] ELSE seq[j + 1]) \in S
    BY <2>1
  <2>. QED
    BY <2>2, <2>3, <2>4
<1>2. CASE ~\E i \in 1..Len(seq) : seq[i] = e
  BY <1>2 DEF Without
<1>. QED
  BY <1>1, <1>2

LEMMA WithoutElements ==
  ASSUME NEW S, NEW seq \in Seq(S), NEW e, Distinct(seq)
  PROVE  /\ Distinct(Without(seq, e))
         /\ Elements(Without(seq, e)) = Elements(seq) \ {e}
<1>1. CASE \E i \in 1..Len(seq) : seq[i] = e
  <2>. DEFINE i == CHOOSE k \in 1..Len(seq) : seq[k] = e
              rest == Without(seq, e)
  <2>1. i \in 1..Len(seq) /\ seq[i] = e
    BY <1>1
  <2>2. Len(seq) \in Nat /\ Len(seq) - 1 \in Nat
    BY <2>1
  <2>3. rest = [j \in 1..(Len(seq) - 1) |-> IF j < i THEN seq[j] ELSE seq[j + 1]]
    BY <1>1 DEF Without
  <2>. HIDE DEF i, rest
  <2>4. Len(rest) = Len(seq) - 1
    BY <2>2, <2>3
  <2>5. \A j \in 1..Len(rest) : rest[j] = IF j < i THEN seq[j] ELSE seq[j + 1]
    BY <2>3, <2>4
  <2>6. Distinct(rest)
    BY <2>1, <2>2, <2>4, <2>5 DEF Distinct
  <2>7. ASSUME NEW j \in 1..Len(rest)
        PROVE  rest[j] \in Elements(seq) /\ rest[j] # e
    <3>1. CASE j < i
      BY <2>1, <2>2, <2>4, <2>5, <3>1 DEF Distinct, Elements
    <3>2. CASE ~(j < i)
      BY <2>1, <2>2, <2>4, <2>5, <3>2 DEF Distinct, Elements
    <3>. QED
      BY <3>1, <3>2
  <2>8. ASSUME NEW k \in 1..Len(seq), seq[k] # e
        PROVE  seq[k] \in Elements(rest)
    <3>1. CASE k < i
      <4>1. k \in 1..Len(rest) /\ rest[k] = seq[k]
        BY <2>1, <2>2, <2>4, <2>5, <3>1
      <4>. QED
        BY <4>1 DEF Elements
    <3>2. CASE i < k
      <4>1. k - 1 \in 1..Len(rest) /\ rest[k - 1] = seq[k]
        BY <2>1, <2>2, <2>4, <2>5, <3>2
      <4>. QED
        BY <4>1 DEF Elements
    <3>. QED
      BY <2>1, <2>8, <3>1, <3>2
  <2>. QED
    BY <2>6, <2>7, <2>8 DEF Elements, rest
<1>2. CASE ~\E i \in 1..Len(seq) : seq[i] = e
  BY <1>2 DEF Without, Elements
<1>. QED
  BY <1>1, <1>2

LEMMA PutFirst ==
  ASSUME NEW S, NEW seq \in Seq(S), NEW e \in S, Distinct(seq)
  PROVE  LET put == <<e>> \o Without(seq, e)
         IN put \in Seq(S) /\ Distinct(put) /\ Elements(put) = Elements(seq) \cup {e}
<1>. DEFINE rest == Without(seq, e)
            put == <<e>> \o rest
<1>1. rest \in Seq(S) /\ Distinct(rest) /\ Elements(rest) = Elements(seq) \ {e}
  BY WithoutType, WithoutElements
<1>. HIDE DEF rest
<1>2. /\ put \in Seq(S) /\ Len(put) = Len(rest) + 1 /\ Len(rest) \in Nat
      /\ put[1] = e /\ \A j \in 2..Len(put) : put[j] = rest[j - 1]
  BY <1>1
<1>. HIDE DEF put
<1>3. \A j \in 1..Len(rest) : rest[j] # e
  BY <1>1 DEF Elements
<1>4. ASSUME NEW i \in 1..Len(put), NEW j \in 1..Len(put), put[i] = put[j]
      PROVE  i = j
  <2>1. ASSUME NEW k \in 1..Len(put), k # 1
        PROVE  k - 1 \in 1..Len(rest) /\ put[k] = rest[k - 1] /\ put[k] # e
    BY <1>2, <1>3, <2>1
  <2>2. CASE i = 1 \/ j = 1
    BY <1>2, <1>4, <2>1, <2>2
  <2>3. CASE i # 1 /\ j # 1
    <3>1. i - 1 = j - 1
      BY <1>1, <1>4, <2>1, <2>3 DEF Distinct
    <3>. QED
      BY <3>1
  <2>. QED
    BY <2>2, <2>3
<1>5. \A j \in 1..Len(rest) : j + 1 \in 1..Len(put) /\ put[j + 1] = rest[j]
  BY <1>2
<1>6. Elements(put) = Elements(rest) \cup {e}
  <2>1. \A x \in Elements(put) : x \in Elements(rest) \cup {e}
    <3>1. \A j \in 1..Len(put) : j = 1 \/ (j - 1 \in 1..Len(rest) /\ put[j] = rest[j - 1])
      BY <1>2
    <3>. QED
      BY <1>2, <3>1 DEF Elements
  <2>2. \A x \in Elements(rest) : x \in Elements(put)
    BY <1>5 DEF Elements
  <2>3. e \in Elements(put)
    BY <1>2 DEF Elements
  <2>. QED
    BY <2>1, <2>2, <2>3
<1>. QED
  BY <1>1, <1>2, <1>4, <1>6 DEF put, rest, Distinct

-----------------------------------------------------------------------------
(* The first invariant, of every workflow: the shape of a state, the waiting *)
(* executions, and what has begun.                                           *)
Sane == Shape /\ RecentIsWaiting /\ Untouched /\ Begun

(* A row is written, and `recent' follows its status.                        *)
LEMMA RowWritten ==
  ASSUME setting \in Settings, setting' = setting, exec \in [Execs -> Row],
         recent \in Seq(Execs), RecentIsWaiting,
         NEW e \in Execs, NEW r \in Row, exec' = [exec EXCEPT ![e] = r],
         \/ r.status # "waiting" /\ recent' = Without(recent, e)
         \/ r.status = "waiting" /\ recent' = <<e>> \o Without(recent, e)
         \/ r.status # "waiting" /\ exec[e].status # "waiting" /\ recent' = recent
  PROVE  exec' \in [Execs -> Row]' /\ recent' \in Seq(Execs) /\ RecentIsWaiting'
<1>1. exec' \in [Execs -> Row]'
  BY SameWorkflow
<1>2. /\ Distinct(recent)
      /\ Without(recent, e) \in Seq(Execs) /\ Distinct(Without(recent, e))
      /\ Elements(Without(recent, e)) = Elements(recent) \ {e}
  BY WithoutType, WithoutElements DEF RecentIsWaiting
<1>3. /\ <<e>> \o Without(recent, e) \in Seq(Execs)
      /\ Distinct(<<e>> \o Without(recent, e))
      /\ Elements(<<e>> \o Without(recent, e)) = Elements(recent) \cup {e}
  BY <1>2, PutFirst
<1>4. \A d \in Execs : exec'[d] = IF d = e THEN r ELSE exec[d]
  OBVIOUS
<1>5. /\ recent' \in Seq(Execs) /\ Distinct(recent')
      /\ Elements(recent') = {d \in Execs : exec'[d].status = "waiting"}
  <2>1. Elements(recent) = {d \in Execs : exec[d].status = "waiting"}
    BY DEF RecentIsWaiting
  <2>2. CASE r.status # "waiting" /\ recent' = Without(recent, e)
    BY <1>2, <1>4, <2>1, <2>2
  <2>3. CASE r.status = "waiting" /\ recent' = <<e>> \o Without(recent, e)
    BY <1>3, <1>4, <2>1, <2>3
  <2>4. CASE r.status # "waiting" /\ exec[e].status # "waiting" /\ recent' = recent
    BY <1>2, <1>4, <2>1, <2>4
  <2>. QED
    BY <2>2, <2>3, <2>4
<1>6. Elements(recent)' = Elements(recent') /\ (Distinct(recent)' <=> Distinct(recent'))
  BY DEF Elements, Distinct
<1>. QED
  BY <1>1, <1>5, <1>6 DEF RecentIsWaiting

(* A walk goes on in memory.                                                 *)
LEMMA WalkGoesOn ==
  ASSUME Sane, NEW w \in Workers, run[w] # None, NEW r \in WalkRecord,
         r.exec = run[w].exec, r.ctx.message = run[w].ctx.message,
         run' = [run EXCEPT ![w] = r],
         UNCHANGED <<setting, exec, recent, jobs, tap, bounds>>,
         tapState' \in [Contacts -> 0..Len(flow)], booked' \subseteq Execs,
         ran' \in [Execs -> [Nodes -> 0..2]], asked' \in [Execs -> [Nodes -> 0..MaxMessages]],
         \A e \in Execs : \A n \in Nodes : asked'[e][n] <= messages
  PROVE  Sane'
<1>1. /\ flow' = flow /\ Nodes' = Nodes /\ Context' = Context /\ Row' = Row
      /\ WalkRecord' = WalkRecord /\ TapRecord' = TapRecord
  BY SameWorkflow
<1>2. messages' = messages /\ faults' = faults /\ NewContext(0)' = NewContext(0)
  BY <1>1 DEF bounds, NewContext
<1>3. Shape'
  <2>1. run' \in [Workers -> {None} \cup WalkRecord]
    BY DEF Sane, Shape
  <2>2. Counted'
    BY <1>2 DEF Sane, Shape, Counted
  <2>. QED
    BY <1>1, <2>1, <2>2 DEF Sane, Shape
<1>4. RecentIsWaiting' /\ Untouched'
  BY DEF Sane, RecentIsWaiting, Untouched, Distinct, Elements
<1>5. \A v \in Workers : run'[v] = IF v = w THEN r ELSE run[v]
  BY DEF Sane, Shape
<1>6. Begun'
  <2>1. \A v \in Workers : run'[v] # None =>
          /\ run[v] # None /\ run'[v].exec = run[v].exec
          /\ run'[v].ctx.message = run[v].ctx.message
    BY <1>5
  <2>2. \A v \in Workers : run'[v] # None =>
          exec[run'[v].exec].status # "none" /\ run'[v].ctx.message \in 1..messages
    BY <2>1 DEF Sane, Begun
  <2>3. \A i \in 1..MaxTaps : Handling(i, "found")' <=> Handling(i, "found")
    BY DEF Handling
  <2>. QED
    BY <1>1, <1>2, <2>2, <2>3 DEF Sane, Begun
<1>. QED
  BY <1>3, <1>4, <1>6 DEF Sane

(* A row is written, with what goes with it: a job, a walk that begins or    *)
(* ends, a message, a tap.                                                   *)
LEMMA RowGoesOn ==
  ASSUME Sane, NEW e \in Execs, NEW r \in Row, exec' = [exec EXCEPT ![e] = r],
         r.status # "none", r.ctx.message \in 1..messages',
         \/ r.status # "waiting" /\ recent' = Without(recent, e)
         \/ r.status = "waiting" /\ recent' = <<e>> \o Without(recent, e)
         \/ r.status # "waiting" /\ exec[e].status # "waiting" /\ recent' = recent,
         UNCHANGED <<setting, ran, asked>>,
         messages' \in messages..MaxMessages, faults' \in Nat,
         jobs' \in [Execs -> [0..MaxRetries -> Nat]],
         \A d \in Execs : d # e => jobs'[d] = jobs[d],
         run' \in [Workers -> {None} \cup WalkRecord],
         \A v \in Workers : run'[v] # None =>
           \/ run[v] # None /\ run'[v].exec = run[v].exec /\ run'[v].ctx.message = run[v].ctx.message
           \/ run'[v].exec = e /\ run'[v].ctx.message = r.ctx.message,
         tapState' \in [Contacts -> 0..Len(flow)], booked' \subseteq Execs,
         tap' \in [1..MaxTaps -> {None} \cup TapRecord], Untouched',
         \A i \in 1..MaxTaps : Handling(i, "found")' =>
           Handling(i, "found") /\ tap'[i].exec = tap[i].exec
  PROVE  Sane'
<1>1. /\ flow' = flow /\ Nodes' = Nodes /\ Context' = Context /\ Row' = Row
      /\ WalkRecord' = WalkRecord /\ TapRecord' = TapRecord /\ NewContext(0)' = NewContext(0)
  <2>1. /\ flow' = flow /\ Nodes' = Nodes /\ Context' = Context /\ Row' = Row
        /\ WalkRecord' = WalkRecord /\ TapRecord' = TapRecord
    BY SameWorkflow
  <2>. QED
    BY <2>1 DEF NewContext
<1>2. messages \in Nat /\ messages' \in Nat /\ messages <= messages' /\ messages' \in 0..MaxMessages
  BY SettingFacts DEF Sane, Shape, Counted
<1>3. exec' \in [Execs -> Row]' /\ recent' \in Seq(Execs) /\ RecentIsWaiting'
  BY RowWritten DEF Sane, Shape
<1>4. Shape'
  BY <1>1, <1>2, <1>3 DEF Sane, Shape, Counted
<1>5. \A d \in Execs : exec'[d] = IF d = e THEN r ELSE exec[d]
  BY DEF Sane, Shape
<1>6. Begun'
  <2>1. ASSUME NEW d \in Execs, exec'[d].status = "none"
        PROVE  exec'[d].ctx = NewContext(0) /\ \A t \in 0..MaxRetries : jobs'[d][t] = 0
    <3>1. d # e /\ exec'[d] = exec[d] /\ jobs'[d] = jobs[d]
      BY <1>5, <2>1
    <3>2. exec[d].ctx = NewContext(0) /\ \A t \in 0..MaxRetries : jobs[d][t] = 0
      BY <2>1, <3>1 DEF Sane, Begun
    <3>. QED
      BY <3>1, <3>2
  <2>2. ASSUME NEW v \in Workers, run'[v] # None
        PROVE  exec'[run'[v].exec].status # "none" /\ run'[v].ctx.message \in 1..messages'
    <3>1. run'[v] \in WalkRecord
      BY <2>2
    <3>2. run'[v].exec \in Execs
      BY <3>1 DEF Walk, WalkRecord
    <3>. QED
      BY <1>2, <1>5, <2>2, <3>2 DEF Sane, Begun
  <2>3. ASSUME NEW d \in Execs, exec'[d].status # "none"
        PROVE  exec'[d].ctx.message \in 1..messages'
    BY <1>2, <1>5, <2>3 DEF Sane, Begun
  <2>4. \A d \in Execs : \A n \in Nodes : asked'[d][n] <= messages'
    <3>1. \A d \in Execs : \A n \in Nodes : asked[d][n] \in Nat /\ asked[d][n] <= messages
      BY SettingFacts DEF Sane, Shape, Begun
    <3>. QED
      BY <1>2, <3>1
  <2>5. ASSUME NEW i \in 1..MaxTaps, Handling(i, "found")'
        PROVE  exec'[tap'[i].exec].status # "none"
    <3>1. tap'[i] \in TapRecord /\ tap'[i].exec = tap[i].exec /\ Handling(i, "found")
      BY <2>5 DEF Handling
    <3>2. tap'[i].exec \in Execs
      BY <3>1 DEF TapRecord
    <3>. QED
      BY <1>5, <3>1, <3>2 DEF Sane, Begun
  <2>. QED
    BY <1>1, <2>1, <2>2, <2>3, <2>4, <2>5 DEF Begun
<1>. QED
  BY <1>3, <1>4, <1>6 DEF Sane

LEMMA JobQueued ==
  ASSUME jobs \in [Execs -> [0..MaxRetries -> Nat]], MaxRetries \in Nat, NEW e \in Execs, Enqueue(e)
  PROVE  /\ jobs' \in [Execs -> [0..MaxRetries -> Nat]]
         /\ \A d \in Execs : d # e => jobs'[d] = jobs[d]
         /\ jobs'[e] = [jobs[e] EXCEPT ![0] = @ + 1]
<1>1. jobs' = [jobs EXCEPT ![e] = [jobs[e] EXCEPT ![0] = @ + 1]]
  BY DEF Enqueue
<1>2. jobs[e] \in [0..MaxRetries -> Nat] /\ 0 \in 0..MaxRetries
  OBVIOUS
<1>3. [jobs[e] EXCEPT ![0] = @ + 1] \in [0..MaxRetries -> Nat]
  BY <1>2
<1>. QED
  BY <1>1, <1>3

(* A customer writes.                                                        *)
LEMMA ArriveFacts ==
  ASSUME Sane, Arrive
  PROVE  /\ messages' = messages + 1 /\ messages \in Nat
         /\ messages' \in messages..MaxMessages /\ messages' \in 1..messages'
         /\ messages' \in 0..MaxMessages
BY SettingFacts DEF Arrive, Sane, Shape, Counted

(* A new row for the message that came.                                      *)
LEMMA NewRow ==
  ASSUME Sane, Arrive, NEW c \in Contacts
  PROVE  LET r == [status |-> "pending", contact |-> c, ctx |-> NewContext(messages + 1)]
         IN r \in Row /\ r.ctx.message = messages'
<1>1. NewContext(messages + 1) \in Context
  BY ArriveFacts, NewContextType DEF Sane, Shape
<1>2. NewContext(messages + 1).message = messages'
  BY ArriveFacts DEF NewContext
<1>. QED
  BY <1>1, <1>2 DEF Row, Statuses

LEMMA SaneMessageStarts ==
  ASSUME Sane, NEW c \in Contacts, NEW e \in Execs, MessageStarts(c, e)
  PROVE  Sane'
<1>. DEFINE r == [status |-> "pending", contact |-> c, ctx |-> NewContext(messages + 1)]
<1>1. /\ Arrive /\ exec' = [exec EXCEPT ![e] = r] /\ Enqueue(e) /\ exec[e].status = "none"
      /\ UNCHANGED <<setting, recent, run, tapState, booked, tap, ran, asked, faults>>
  BY DEF MessageStarts, StartExecution, history
<1>2. r \in Row /\ r.ctx.message = messages' /\ r.status = "pending"
  BY <1>1, NewRow
<1>3. /\ jobs' \in [Execs -> [0..MaxRetries -> Nat]]
      /\ \A d \in Execs : d # e => jobs'[d] = jobs[d]
  BY <1>1, JobQueued, SettingFacts DEF Sane, Shape
<1>. HIDE DEF r
<1>. QED
  BY <1>1, <1>2, <1>3, ArriveFacts, RowGoesOn DEF Sane, Shape, Counted, Untouched, Handling

LEMMA LatestIsWaiting ==
  ASSUME Sane, NEW c, NEW e, LatestWaiting(c, e)
  PROVE  e \in Execs /\ exec[e].status = "waiting" /\ exec[e].contact = c
<1>1. PICK i \in Waiting(c) : e = recent[i]
  BY DEF LatestWaiting
<1>2. i \in 1..Len(recent) /\ exec[recent[i]].contact = c
  BY DEF Waiting
<1>3. e \in Elements(recent)
  BY <1>1, <1>2 DEF Elements
<1>. QED
  BY <1>1, <1>2, <1>3 DEF Sane, RecentIsWaiting

LEMMA SaneMessageRestarts ==
  ASSUME Sane, NEW c \in Contacts, NEW old \in Execs, NEW e \in Execs,
         MessageRestarts(c, old, e)
  PROVE  Sane'
<1>. DEFINE r == [status |-> "pending", contact |-> c, ctx |-> NewContext(messages + 1)]
            gone == [exec[old] EXCEPT !.status = "cancelled"]
<1>1. /\ Arrive /\ LatestWaiting(c, old) /\ exec[e].status = "none" /\ Enqueue(e)
      /\ exec' = [exec EXCEPT ![old].status = "cancelled", ![e] = r]
      /\ recent' = Without(recent, old)
      /\ tapState' = [tapState EXCEPT ![c] = 0]
      /\ UNCHANGED <<setting, run, booked, tap, ran, asked, faults>>
  BY DEF MessageRestarts, StartExecution, history
<1>2. r \in Row /\ r.ctx.message = messages' /\ r.status = "pending"
  BY <1>1, NewRow
<1>3. /\ jobs' \in [Execs -> [0..MaxRetries -> Nat]]
      /\ \A d \in Execs : d # e => jobs'[d] = jobs[d]
  BY <1>1, JobQueued, SettingFacts DEF Sane, Shape
<1>4. exec[old].status = "waiting" /\ old # e
  BY <1>1, LatestIsWaiting
<1>5. exec[old] \in Row
  BY DEF Sane, Shape
<1>6. gone \in Row /\ gone.status = "cancelled" /\ gone.ctx = exec[old].ctx
  BY <1>5 DEF Row, Statuses
<1>7. exec' = [exec EXCEPT ![old] = gone, ![e] = r]
  BY <1>1
<1>. HIDE DEF r, gone
<1>8. /\ exec' \in [Execs -> Row]
      /\ \A d \in Execs : exec'[d] = IF d = e THEN r ELSE IF d = old THEN gone ELSE exec[d]
  BY <1>2, <1>4, <1>6, <1>7 DEF Sane, Shape
<1>9. /\ flow' = flow /\ Nodes' = Nodes /\ Context' = Context /\ Row' = Row
      /\ WalkRecord' = WalkRecord /\ TapRecord' = TapRecord /\ NewContext(0)' = NewContext(0)
  <2>1. /\ flow' = flow /\ Nodes' = Nodes /\ Context' = Context /\ Row' = Row
        /\ WalkRecord' = WalkRecord /\ TapRecord' = TapRecord
    BY <1>1, SameWorkflow
  <2>. QED
    BY <2>1 DEF NewContext
<1>10. RecentIsWaiting' /\ recent' \in Seq(Execs)
  <2>1. /\ recent' \in Seq(Execs) /\ Distinct(recent') /\ Elements(recent') = Elements(recent) \ {old}
    BY <1>1, WithoutType, WithoutElements DEF Sane, Shape, RecentIsWaiting
  <2>2. Elements(recent) = {d \in Execs : exec[d].status = "waiting"}
    BY DEF Sane, RecentIsWaiting
  <2>3. Elements(recent') = {d \in Execs : exec'[d].status = "waiting"}
    BY <1>1, <1>2, <1>6, <1>8, <2>1, <2>2
  <2>4. Elements(recent)' = Elements(recent') /\ (Distinct(recent)' <=> Distinct(recent'))
    BY DEF Elements, Distinct
  <2>. QED
    BY <2>1, <2>3, <2>4 DEF RecentIsWaiting
<1>11. Shape'
  <2>1. tapState' \in [Contacts -> 0..Len(flow)]
    BY <1>1, SettingFacts DEF Sane, Shape
  <2>. QED
    BY <1>1, <1>3, <1>8, <1>9, <1>10, <2>1, ArriveFacts DEF Sane, Shape, Counted
<1>12. Begun'
  <2>1. ASSUME NEW d \in Execs, exec'[d].status = "none"
        PROVE  exec'[d].ctx = NewContext(0) /\ \A t \in 0..MaxRetries : jobs'[d][t] = 0
    <3>1. d # e /\ exec'[d] = exec[d] /\ jobs'[d] = jobs[d]
      BY <1>2, <1>3, <1>6, <1>8, <2>1
    <3>. QED
      BY <2>1, <3>1 DEF Sane, Begun
  <2>2. messages \in Nat /\ messages' \in Nat /\ messages <= messages'
    BY <1>1, ArriveFacts
  <2>3. ASSUME NEW v \in Workers, run'[v] # None
        PROVE  exec'[run'[v].exec].status # "none" /\ run'[v].ctx.message \in 1..messages'
    <3>1. run[v] \in WalkRecord /\ run'[v] = run[v] /\ run[v] # None
      BY <1>1, <2>3 DEF Sane, Shape
    <3>2. run[v].exec \in Execs
      BY <3>1 DEF Walk, WalkRecord
    <3>. QED
      BY <1>2, <1>6, <1>8, <2>2, <3>1, <3>2 DEF Sane, Begun
  <2>4. ASSUME NEW d \in Execs, exec'[d].status # "none"
        PROVE  exec'[d].ctx.message \in 1..messages'
    BY <1>1, <1>2, <1>4, <1>6, <1>8, <2>2, <2>4, ArriveFacts DEF Sane, Begun
  <2>5. \A d \in Execs : \A n \in Nodes : asked'[d][n] <= messages'
    <3>1. \A d \in Execs : \A n \in Nodes : asked[d][n] \in Nat /\ asked[d][n] <= messages
      BY SettingFacts DEF Sane, Shape, Begun
    <3>. QED
      BY <1>1, <2>2, <3>1
  <2>6. ASSUME NEW i \in 1..MaxTaps, Handling(i, "found")'
        PROVE  exec'[tap'[i].exec].status # "none"
    <3>1. tap[i] \in TapRecord /\ tap'[i] = tap[i] /\ Handling(i, "found")
      BY <1>1, <2>6 DEF Sane, Shape, Handling
    <3>2. tap[i].exec \in Execs
      BY <3>1 DEF TapRecord
    <3>. QED
      BY <1>2, <1>6, <1>8, <3>1, <3>2 DEF Sane, Begun
  <2>. QED
    BY <1>9, <2>1, <2>3, <2>4, <2>5, <2>6 DEF Begun
<1>13. Untouched'
  BY <1>1 DEF Sane, Untouched
<1>. QED
  BY <1>10, <1>11, <1>12, <1>13 DEF Sane

LEMMA SaneMessageResumes ==
  ASSUME Sane, NEW c \in Contacts, NEW e \in Execs, NEW isImage \in BOOLEAN,
         MessageResumes(c, e, isImage)
  PROVE  Sane'
<1>. DEFINE ctx == [exec[e].ctx EXCEPT !.message = messages + 1, !.image = isImage,
                                       !.resuming = TRUE]
            r == [exec[e] EXCEPT !.status = "pending", !.ctx = ctx]
<1>1. /\ Arrive /\ exec' = [exec EXCEPT ![e] = r] /\ Enqueue(e) /\ recent' = Without(recent, e)
      /\ UNCHANGED <<setting, run, tapState, booked, tap, ran, asked, faults>>
  <2>1. exec' = [exec EXCEPT ![e] = r]
    BY DEF MessageResumes
  <2>. QED
    BY <2>1 DEF MessageResumes, history
<1>2. exec[e] \in Row
  BY DEF Sane, Shape
<1>3. ctx \in Context /\ ctx.message = messages'
  BY <1>1, <1>2, ArriveFacts DEF Row, Context
<1>. HIDE DEF ctx
<1>4. r \in Row /\ r.ctx = ctx /\ r.status = "pending"
  BY <1>2, <1>3 DEF Row, Statuses
<1>5. /\ jobs' \in [Execs -> [0..MaxRetries -> Nat]]
      /\ \A d \in Execs : d # e => jobs'[d] = jobs[d]
  BY <1>1, JobQueued, SettingFacts DEF Sane, Shape
<1>. HIDE DEF r
<1>. QED
  BY <1>1, <1>3, <1>4, <1>5, ArriveFacts, RowGoesOn DEF Sane, Shape, Counted, Untouched, Handling

(* A tap changes the contact's buttons and its own handler; rows only when   *)
(* it resumes.                                                               *)
LEMMA SaneTapAlone ==
  ASSUME Sane, UNCHANGED <<setting, exec, recent, jobs, run, booked, history, bounds>>,
         tapState' \in [Contacts -> 0..Len(flow)],
         tap' \in [1..MaxTaps -> {None} \cup TapRecord], Untouched',
         \A i \in 1..MaxTaps : Handling(i, "found")' => exec[tap'[i].exec].status # "none"
  PROVE  Sane'
<1>1. /\ flow' = flow /\ Nodes' = Nodes /\ Context' = Context /\ Row' = Row
      /\ WalkRecord' = WalkRecord /\ TapRecord' = TapRecord /\ NewContext(0)' = NewContext(0)
  <2>1. /\ flow' = flow /\ Nodes' = Nodes /\ Context' = Context /\ Row' = Row
        /\ WalkRecord' = WalkRecord /\ TapRecord' = TapRecord
    BY SameWorkflow
  <2>. QED
    BY <2>1 DEF NewContext
<1>2. Shape'
  BY <1>1 DEF Sane, Shape, Counted, history, bounds
<1>3. RecentIsWaiting'
  BY DEF Sane, RecentIsWaiting, Distinct, Elements
<1>4. Begun'
  BY <1>1 DEF Sane, Begun, history, bounds
<1>. QED
  BY <1>2, <1>3, <1>4 DEF Sane

LEMMA SaneTapEnds ==
  ASSUME Sane, NEW i \in 1..MaxTaps, NEW c \in Contacts, TapEnds(i, c)
  PROVE  Sane'
<1>. DEFINE r == [at |-> "handled", contact |-> c, exec |-> 1, next |-> 0]
<1>1. /\ i <= setting.taps /\ tap' = [tap EXCEPT ![i] = r]
      /\ tapState' = [tapState EXCEPT ![c] = 0]
      /\ UNCHANGED <<setting, exec, recent, jobs, run, booked, history, bounds>>
  BY DEF TapEnds, TapArrives
<1>2. setting.taps > 0 /\ Untouched'
  BY <1>1, SettingFacts DEF Sane, Shape, Untouched
<1>3. r \in TapRecord /\ r.at = "handled"
  BY SettingFacts DEF Sane, Shape, TapRecord
<1>. HIDE DEF r
<1>4. tapState' \in [Contacts -> 0..Len(flow)] /\ tap' \in [1..MaxTaps -> {None} \cup TapRecord]
  BY <1>1, <1>3, SettingFacts DEF Sane, Shape
<1>5. \A j \in 1..MaxTaps : Handling(j, "found")' => Handling(j, "found") /\ tap'[j] = tap[j]
  BY <1>1, <1>3 DEF Sane, Shape, Handling
<1>. QED
  BY <1>1, <1>2, <1>4, <1>5, SaneTapAlone DEF Sane, Begun

LEMMA SaneTapFinds ==
  ASSUME Sane, NEW i \in 1..MaxTaps, NEW c \in Contacts, TapFinds(i, c)
  PROVE  Sane'
<1>1. PICK e \in Execs, n \in Options(tapState[c]) \ {0} :
        /\ NewestWaiting(e)
        /\ tap' = [tap EXCEPT ![i] = [at |-> "found", contact |-> c, exec |-> e, next |-> n]]
  BY DEF TapFinds
<1>. DEFINE r == [at |-> "found", contact |-> c, exec |-> e, next |-> n]
<1>2. /\ i <= setting.taps /\ tapState[c] # 0
      /\ UNCHANGED <<setting, exec, recent, jobs, run, tapState, booked, history, bounds>>
  BY DEF TapFinds, TapArrives
<1>3. setting.taps > 0 /\ Untouched'
  BY <1>2, SettingFacts DEF Sane, Shape, Untouched
<1>4. n \in 0..Len(flow)
  <2>1. tapState[c] \in 0..Len(flow) /\ Len(flow) \in Nat
    BY SettingFacts DEF Sane, Shape
  <2>2. tapState[c] \in 1..Len(flow)
    BY <1>2, <2>1
  <2>3. After(tapState[c]) \in 0..Len(flow)
    BY <2>2, SettingFacts DEF Nodes, Sane, Shape
  <2>4. n = After(tapState[c]) \/ n \in 1..(tapState[c] - 1)
    BY DEF Options
  <2>. QED
    BY <2>1, <2>2, <2>3, <2>4
<1>5. r \in TapRecord /\ r.exec = e
  BY <1>4 DEF TapRecord
<1>6. exec[e].status # "none"
  BY <1>1 DEF NewestWaiting, WaitingIds, Elements, Sane, RecentIsWaiting
<1>. HIDE DEF r
<1>7. tap' = [tap EXCEPT ![i] = r] /\ tap' \in [1..MaxTaps -> {None} \cup TapRecord]
  BY <1>1, <1>5 DEF Sane, Shape, r
<1>8. \A j \in 1..MaxTaps : Handling(j, "found")' => exec[tap'[j].exec].status # "none"
  BY <1>5, <1>6, <1>7 DEF Sane, Shape, Begun, Handling
<1>. QED
  BY <1>2, <1>3, <1>7, <1>8, SaneTapAlone DEF Sane, Shape

LEMMA SaneTapClears ==
  ASSUME Sane, NEW i \in 1..MaxTaps, TapClears(i)
  PROVE  Sane'
<1>. DEFINE r == [tap[i] EXCEPT !.at = "handled"]
<1>1. /\ tap[i] # None
      /\ tapState' = [tapState EXCEPT ![tap[i].contact] = 0]
      /\ tap' = [tap EXCEPT ![i] = r]
      /\ UNCHANGED <<setting, exec, recent, jobs, run, booked, history, bounds>>
  BY DEF TapClears, Handling
<1>2. tap[i] \in TapRecord
  BY <1>1 DEF Sane, Shape
<1>3. r \in TapRecord /\ r.at = "handled"
  BY <1>2 DEF TapRecord
<1>4. Untouched'
  BY <1>1 DEF Sane, Untouched
<1>. HIDE DEF r
<1>5. tapState' \in [Contacts -> 0..Len(flow)] /\ tap' \in [1..MaxTaps -> {None} \cup TapRecord]
  <2>1. 0 \in 0..Len(flow)
    BY SettingFacts DEF Sane, Shape
  <2>2. tapState' \in [Contacts -> 0..Len(flow)]
    BY <1>1, <2>1 DEF Sane, Shape
  <2>3. tap' \in [1..MaxTaps -> {None} \cup TapRecord]
    BY <1>1, <1>3 DEF Sane, Shape
  <2>. QED
    BY <2>2, <2>3
<1>6. \A j \in 1..MaxTaps : Handling(j, "found")' => Handling(j, "found") /\ tap'[j] = tap[j]
  BY <1>1, <1>3 DEF Sane, Shape, Handling
<1>. QED
  BY <1>1, <1>4, <1>5, <1>6, SaneTapAlone DEF Sane, Begun

LEMMA SaneTapResumes ==
  ASSUME Sane, NEW i \in 1..MaxTaps, NEW slotTaken \in BOOLEAN, TapResumes(i, slotTaken)
  PROVE  Sane'
<1>. DEFINE e == tap[i].exec
            ctx == [exec[e].ctx EXCEPT
                      !.tapped = TRUE, !.resuming = TRUE, !.paused = 0,
                      !.resumeAt = tap[i].next, !.taken = slotTaken]
            r == [exec[e] EXCEPT !.status = "running", !.ctx = ctx]
            s == [tap[i] EXCEPT !.at = "resumed"]
<1>1. exec' = [exec EXCEPT ![e] = r]
  BY DEF TapResumes
<1>2. /\ Handling(i, "found") /\ Enqueue(e) /\ recent' = Without(recent, e)
      /\ tap' = [tap EXCEPT ![i] = s]
      /\ booked' = booked \ {e}
      /\ UNCHANGED <<setting, run, tapState, ran, asked, messages, faults>>
  BY DEF TapResumes, history, bounds
<1>3. tap[i] \in TapRecord
  BY <1>2 DEF Sane, Shape, Handling
<1>4. e \in Execs /\ tap[i].next \in 0..Len(flow) /\ s \in TapRecord /\ s.at = "resumed"
  BY <1>3 DEF TapRecord
<1>5. exec[e] \in Row /\ exec[e].ctx.message \in 1..messages
  <2>1. exec[e].status # "none"
    BY <1>2 DEF Sane, Begun
  <2>. HIDE DEF e
  <2>. QED
    BY <1>4, <2>1 DEF Sane, Shape, Begun
<1>. HIDE DEF e
<1>6. ctx \in Context /\ ctx.message = exec[e].ctx.message
  <2>1. exec[e].ctx \in Context
    BY <1>5 DEF Row
  <2>2. 0 \in 0..Len(flow) /\ tap[i].next \in 0..Len(flow)
    BY <1>4, SettingFacts DEF Sane, Shape
  <2>. QED
    BY <2>1, <2>2 DEF Context
<1>. HIDE DEF ctx
<1>7. r \in Row /\ r.ctx = ctx /\ r.status = "running"
  <2>1. exec[e] \in Row /\ ctx \in Context
    BY <1>5, <1>6
  <2>. QED
    BY <2>1 DEF Row, Statuses
<1>8. /\ jobs' \in [Execs -> [0..MaxRetries -> Nat]]
      /\ \A d \in Execs : d # e => jobs'[d] = jobs[d]
  BY <1>2, <1>4, JobQueued, SettingFacts DEF Sane, Shape
<1>. HIDE DEF r, s
<1>9. Untouched' /\ tap' \in [1..MaxTaps -> {None} \cup TapRecord]
  BY <1>2, <1>4 DEF Sane, Shape, Untouched, Handling
<1>10. \A j \in 1..MaxTaps : Handling(j, "found")' =>
          Handling(j, "found") /\ tap'[j].exec = tap[j].exec
  BY <1>2, <1>4 DEF Sane, Shape, Handling
<1>11. messages' \in messages..MaxMessages /\ faults' \in Nat
  BY <1>2, SettingFacts DEF Sane, Shape, Counted
<1>. QED
  BY <1>1, <1>2, <1>4, <1>5, <1>6, <1>7, <1>8, <1>9, <1>10, <1>11, RowGoesOn DEF Sane, Shape

(* The walk of a worker.                                                     *)
LEMMA WalkFacts ==
  ASSUME Sane, NEW w \in Workers, run[w] # None
  PROVE  /\ run[w] \in WalkRecord
         /\ run[w].exec \in Execs /\ run[w].tries \in 0..MaxRetries
         /\ run[w].node \in 0..Len(flow) /\ (run[w].node # 0 => run[w].node \in Nodes)
         /\ run[w].at \in {"walk", "pause", "done"} /\ (run[w].at = "pause" => run[w].node # 0)
         /\ run[w].ctx \in Context /\ run[w].ctx.message \in 1..messages
         /\ exec[run[w].exec] \in Row /\ exec[run[w].exec].status # "none"
         /\ exec[run[w].exec].ctx \in Context /\ exec[run[w].exec].ctx.message \in 1..messages
<1>1. run[w] \in WalkRecord
  BY DEF Sane, Shape
<1>2. /\ run[w].exec \in Execs /\ run[w].tries \in 0..MaxRetries
      /\ run[w].node \in 0..Len(flow) /\ run[w].ctx \in Context
      /\ run[w].at \in {"walk", "pause", "done"} /\ (run[w].at = "pause" => run[w].node # 0)
  BY <1>1 DEF Walk, WalkRecord
<1>3. run[w].node # 0 => run[w].node \in Nodes
  BY <1>2, SettingFacts DEF Sane, Shape, Nodes
<1>4. /\ run[w].ctx.message \in 1..messages /\ exec[run[w].exec].status # "none"
      /\ exec[run[w].exec].ctx.message \in 1..messages
  BY <1>2 DEF Sane, Begun
<1>5. exec[run[w].exec] \in Row
  BY <1>2 DEF Sane, Shape
<1>6. exec[run[w].exec].ctx \in Context
  BY <1>5 DEF Row
<1>. QED
  BY <1>1, <1>2, <1>3, <1>4, <1>5, <1>6

(* A node acts, or asks, or is passed.                                       *)
LEMMA ActType ==
  ASSUME Sane, NEW w \in Workers, run[w] # None, run[w].node # 0, Act(w)
  PROVE  ran' \in [Execs -> [Nodes -> 0..2]]
<1>. DEFINE e == run[w].exec
            n == run[w].node
            k == IF ran[e][n] < 2 THEN ran[e][n] + 1 ELSE 2
<1>1. e \in Execs /\ n \in Nodes
  BY WalkFacts
<1>2. ran[e] \in [Nodes -> 0..2] /\ ran[e][n] \in 0..2
  BY <1>1 DEF Sane, Shape
<1>3. k \in 0..2
  BY <1>2
<1>4. ran' = [ran EXCEPT ![e] = [ran[e] EXCEPT ![n] = k]]
  BY DEF Act
<1>. HIDE DEF e, n, k
<1>5. [ran[e] EXCEPT ![n] = k] \in [Nodes -> 0..2]
  BY <1>2, <1>3
<1>. QED
  BY <1>4, <1>5 DEF Sane, Shape

LEMMA SaneProceed ==
  ASSUME Sane, NEW w \in Workers, run[w] # None, run[w].at = "walk", run[w].node # 0, NEW ctx \in Context,
         ctx.message = run[w].ctx.message, Proceed(w, ctx),
         UNCHANGED <<setting, exec, recent, jobs, tapState, tap, asked, bounds>>,
         booked' \subseteq Execs, Act(w) \/ UNCHANGED ran
  PROVE  Sane'
<1>. DEFINE old == run[w]
            r == [old EXCEPT !.node = After(old.node), !.ctx = ctx]
<1>1. run' = [run EXCEPT ![w] = r]
  BY DEF Proceed
<1>2. old \in WalkRecord /\ old.at = "walk" /\ After(old.node) \in 0..Len(flow)
  BY WalkFacts, SettingFacts DEF Sane, Shape
<1>. HIDE DEF old
<1>3. r \in WalkRecord /\ r.exec = old.exec /\ r.ctx = ctx
  BY <1>2 DEF Walk, WalkRecord
<1>4. ran' \in [Execs -> [Nodes -> 0..2]]
  BY ActType DEF Sane, Shape
<1>5. /\ tapState' \in [Contacts -> 0..Len(flow)]
      /\ asked' \in [Execs -> [Nodes -> 0..MaxMessages]]
      /\ \A e \in Execs : \A n \in Nodes : asked'[e][n] <= messages
  BY DEF Sane, Shape, Begun
<1>. HIDE DEF r
<1>. QED
  BY <1>1, <1>3, <1>4, <1>5, WalkGoesOn DEF old

LEMMA SaneAsk ==
  ASSUME Sane, NEW w \in Workers, run[w] # None, run[w].node # 0, NEW ctx \in Context,
         ctx.message = run[w].ctx.message, Ask(w, ctx),
         UNCHANGED <<setting, exec, recent, jobs, tap, booked, ran, bounds>>,
         tapState' \in [Contacts -> 0..Len(flow)]
  PROVE  Sane'
<1>. DEFINE old == run[w]
            e == old.exec
            n == old.node
            k == IF asked[e][n] = 0 THEN messages ELSE asked[e][n]
            r == [old EXCEPT !.at = "pause", !.ctx = ctx]
<1>1. run' = [run EXCEPT ![w] = r] /\ asked' = [asked EXCEPT ![e] = [asked[e] EXCEPT ![n] = k]]
  BY DEF Ask
<1>2. old \in WalkRecord /\ e \in Execs /\ n \in Nodes /\ old.node # 0
  BY WalkFacts
<1>3. asked[e] \in [Nodes -> 0..MaxMessages] /\ messages \in 0..MaxMessages
  BY <1>2 DEF Sane, Shape, Counted
<1>. HIDE DEF old
<1>4. r \in WalkRecord /\ r.exec = old.exec /\ r.ctx = ctx
  BY <1>2 DEF Walk, WalkRecord
<1>. HIDE DEF e, n, r
<1>5. k \in 0..MaxMessages /\ k <= messages
  BY <1>2, <1>3, SettingFacts DEF Sane, Shape, Begun
<1>. HIDE DEF k
<1>6. [asked[e] EXCEPT ![n] = k] \in [Nodes -> 0..MaxMessages]
  BY <1>3, <1>5
<1>7. asked' \in [Execs -> [Nodes -> 0..MaxMessages]]
  BY <1>1, <1>6 DEF Sane, Shape
<1>8. \A d \in Execs : \A m \in Nodes : asked'[d][m] <= messages
  <2>1. ASSUME NEW d \in Execs, NEW m \in Nodes
        PROVE  asked'[d][m] = k \/ asked'[d][m] = asked[d][m]
    BY <1>1, <1>2, <1>3 DEF Sane, Shape
  <2>. QED
    BY <1>5, <2>1 DEF Sane, Begun
<1>. QED
  BY <1>1, <1>4, <1>7, <1>8, WalkGoesOn DEF old, Sane, Shape

(* The contexts a walk goes on with.                                         *)
LEMMA ContextChanges ==
  ASSUME setting \in Settings, NEW ctx \in Context, NEW n \in Nodes
  PROVE  /\ [ctx EXCEPT !.answers[n] = ctx.message, !.resuming = FALSE] \in Context
         /\ [ctx EXCEPT !.attached = TRUE, !.image = FALSE, !.resuming = FALSE] \in Context
         /\ [ctx EXCEPT !.image = FALSE] \in Context
         /\ [ctx EXCEPT !.resuming = FALSE] \in Context
         /\ [ctx EXCEPT !.paused = n, !.resuming = FALSE] \in Context
         /\ [ctx EXCEPT !.resumeAt = After(n), !.resuming = TRUE] \in Context
<1>1. /\ ctx.answers \in [Nodes -> 0..MaxMessages] /\ ctx.message \in 0..MaxMessages
      /\ n \in 0..Len(flow) /\ After(n) \in 0..Len(flow)
  BY SettingFacts DEF Context
<1>2. [ctx.answers EXCEPT ![n] = ctx.message] \in [Nodes -> 0..MaxMessages]
  BY <1>1
<1>3. [ctx EXCEPT !.answers[n] = ctx.message, !.resuming = FALSE]
        = [ctx EXCEPT !.answers = [ctx.answers EXCEPT ![n] = ctx.message], !.resuming = FALSE]
  BY DEF Context
<1>4. /\ [ctx EXCEPT !.answers = [ctx.answers EXCEPT ![n] = ctx.message], !.resuming = FALSE] \in Context
      /\ [ctx EXCEPT !.attached = TRUE, !.image = FALSE, !.resuming = FALSE] \in Context
      /\ [ctx EXCEPT !.image = FALSE] \in Context
      /\ [ctx EXCEPT !.resuming = FALSE] \in Context
  BY <1>2 DEF Context
<1>5. /\ [ctx EXCEPT !.paused = n, !.resuming = FALSE] \in Context
      /\ [ctx EXCEPT !.resumeAt = After(n), !.resuming = TRUE] \in Context
  BY <1>1 DEF Context
<1>. QED
  BY <1>3, <1>4, <1>5

LEMMA SanePassing ==
  ASSUME Sane, NEW w \in Workers, PassTrigger(w) \/ Send(w) \/ BookSlot(w)
  PROVE  Sane'
<1>1. /\ run[w] # None /\ run[w].at = "walk" /\ run[w].node # 0 /\ Proceed(w, run[w].ctx)
      /\ UNCHANGED <<setting, exec, recent, jobs, tapState, tap, asked, bounds>>
      /\ Act(w) \/ UNCHANGED ran
      /\ booked' = booked \/ booked' = booked \cup {run[w].exec}
  BY DEF PassTrigger, Send, BookSlot, Walking, history
<1>2. run[w].ctx \in Context /\ run[w].exec \in Execs
  BY <1>1, WalkFacts
<1>3. booked' \subseteq Execs
  BY <1>1, <1>2 DEF Sane, Shape
<1>. QED
  BY <1>1, <1>2, <1>3, SaneProceed

LEMMA SaneCollectInput ==
  ASSUME Sane, NEW w \in Workers, CollectInput(w)
  PROVE  Sane'
<1>. DEFINE ctx == run[w].ctx
            next == [ctx EXCEPT !.answers[run[w].node] = ctx.message, !.resuming = FALSE]
<1>1. /\ run[w] # None /\ run[w].at = "walk" /\ run[w].node # 0
      /\ UNCHANGED <<setting, exec, recent, jobs, tapState, tap, booked, ran, bounds>>
      /\ \/ Proceed(w, ctx) /\ UNCHANGED asked
         \/ Proceed(w, next) /\ UNCHANGED asked
         \/ Ask(w, ctx)
  BY DEF CollectInput, Walking
<1>2. ctx \in Context /\ run[w].node \in Nodes
  BY <1>1, WalkFacts
<1>3. next \in Context
  BY <1>2, ContextChanges DEF Sane, Shape
<1>4. next.message = ctx.message
  BY <1>2 DEF Context
<1>5. /\ tapState' \in [Contacts -> 0..Len(flow)] /\ booked' \subseteq Execs
  BY <1>1 DEF Sane, Shape
<1>. HIDE DEF next
<1>6. CASE Proceed(w, ctx) /\ UNCHANGED asked
  BY <1>1, <1>2, <1>5, <1>6, SaneProceed
<1>7. CASE Proceed(w, next) /\ UNCHANGED asked
  BY <1>1, <1>3, <1>4, <1>5, <1>7, SaneProceed
<1>8. CASE Ask(w, ctx)
  BY <1>1, <1>2, <1>5, <1>8, SaneAsk
<1>. QED
  BY <1>1, <1>6, <1>7, <1>8

LEMMA SaneCollectScreenshot ==
  ASSUME Sane, NEW w \in Workers, CollectScreenshot(w)
  PROVE  Sane'
<1>. DEFINE ctx == run[w].ctx
            next == [ctx EXCEPT !.attached = TRUE, !.image = FALSE, !.resuming = FALSE]
            again == [ctx EXCEPT !.image = FALSE]
<1>1. /\ run[w] # None /\ run[w].at = "walk" /\ run[w].node # 0
      /\ UNCHANGED <<setting, exec, recent, jobs, tapState, tap, booked, bounds>>
      /\ \/ Proceed(w, ctx) /\ UNCHANGED history
         \/ Proceed(w, next) /\ Act(w) /\ UNCHANGED asked
         \/ Ask(w, again) /\ UNCHANGED ran
  BY DEF CollectScreenshot, Walking
<1>2. ctx \in Context /\ run[w].node \in Nodes
  BY <1>1, WalkFacts
<1>3. next \in Context /\ again \in Context
  BY <1>2, ContextChanges DEF Sane, Shape
<1>4. next.message = ctx.message /\ again.message = ctx.message
  BY <1>2 DEF Context
<1>5. /\ tapState' \in [Contacts -> 0..Len(flow)] /\ booked' \subseteq Execs
  BY <1>1 DEF Sane, Shape
<1>. HIDE DEF next, again
<1>6. CASE Proceed(w, ctx) /\ UNCHANGED history
  BY <1>1, <1>2, <1>5, <1>6, SaneProceed DEF history
<1>7. CASE Proceed(w, next) /\ Act(w) /\ UNCHANGED asked
  BY <1>1, <1>3, <1>4, <1>5, <1>7, SaneProceed
<1>8. CASE Ask(w, again) /\ UNCHANGED ran
  BY <1>1, <1>3, <1>4, <1>5, <1>8, SaneAsk
<1>. QED
  BY <1>1, <1>6, <1>7, <1>8

LEMMA SaneSendButtons ==
  ASSUME Sane, NEW w \in Workers, SendButtons(w)
  PROVE  Sane'
<1>1. /\ run[w] # None /\ run[w].node # 0 /\ Ask(w, run[w].ctx)
      /\ tapState' = [tapState EXCEPT ![exec[run[w].exec].contact] = run[w].node]
      /\ UNCHANGED <<setting, exec, recent, jobs, tap, booked, ran, bounds>>
  BY DEF SendButtons, Walking
<1>2. run[w].ctx \in Context /\ run[w].node \in 0..Len(flow)
  BY <1>1, WalkFacts
<1>3. tapState' \in [Contacts -> 0..Len(flow)]
  BY <1>1, <1>2 DEF Sane, Shape
<1>. QED
  BY <1>1, <1>2, <1>3, SaneAsk

(* A walk leaves its execution in the database.                              *)
LEMMA SaneLeave ==
  ASSUME Sane, NEW w \in Workers, run[w] # None, NEW status \in Statuses \ {"none"},
         NEW ctx \in Context, ctx.message \in 1..messages, Leave(w, status, ctx),
         jobs' = jobs \/ Enqueue(run[w].exec), faults' \in Nat,
         UNCHANGED <<setting, tapState, tap, booked, ran, asked, messages>>
  PROVE  Sane'
<1>. DEFINE old == run[w]
            e == old.exec
            r == [exec[e] EXCEPT !.status = status, !.ctx = ctx]
            left == [old EXCEPT !.at = "done"]
<1>1. /\ exec' = [exec EXCEPT ![e] = r] /\ run' = [run EXCEPT ![w] = left]
      /\ recent' = (IF status = "waiting" THEN <<e>> ELSE << >>) \o Without(recent, e)
  BY DEF Leave
<1>2. e \in Execs /\ exec[e] \in Row /\ old \in WalkRecord
  BY WalkFacts
<1>3. /\ jobs' \in [Execs -> [0..MaxRetries -> Nat]]
      /\ \A d \in Execs : d # e => jobs'[d] = jobs[d]
  BY <1>2, JobQueued, SettingFacts DEF Sane, Shape
<1>. HIDE DEF old
<1>4. left \in WalkRecord /\ left.exec = old.exec /\ left.ctx = old.ctx
  BY <1>2 DEF Walk, WalkRecord
<1>. HIDE DEF e
<1>5. r \in Row /\ r.status = status /\ r.ctx = ctx
  BY <1>2 DEF Row
<1>. HIDE DEF r, left
<1>6. Without(recent, e) \in Seq(Execs)
  BY WithoutType DEF Sane, Shape
<1>7. \/ status # "waiting" /\ recent' = Without(recent, e)
      \/ status = "waiting" /\ recent' = <<e>> \o Without(recent, e)
  BY <1>1, <1>6
<1>8. /\ run' \in [Workers -> {None} \cup WalkRecord]
      /\ \A v \in Workers : run'[v] # None =>
           run[v] # None /\ run'[v].exec = run[v].exec /\ run'[v].ctx.message = run[v].ctx.message
  BY <1>1, <1>4 DEF Sane, Shape, old
<1>9. messages' \in messages..MaxMessages
  BY SettingFacts DEF Sane, Shape, Counted
<1>. QED
  BY <1>1, <1>2, <1>3, <1>5, <1>7, <1>8, <1>9, RowGoesOn DEF Sane, Shape, Untouched, Handling

LEMMA SanePause ==
  ASSUME Sane, NEW w \in Workers, Pause(w)
  PROVE  Sane'
<1>. DEFINE ctx == [run[w].ctx EXCEPT !.paused = run[w].node, !.resuming = FALSE]
<1>1. /\ run[w] # None /\ run[w].at = "pause" /\ Leave(w, "waiting", ctx)
      /\ UNCHANGED <<setting, jobs, tapState, tap, booked, ran, asked, messages, faults>>
  BY DEF Pause, history, bounds
<1>2. run[w].ctx \in Context /\ run[w].node \in Nodes /\ run[w].ctx.message \in 1..messages
  BY <1>1, WalkFacts
<1>3. ctx \in Context
  BY <1>2, ContextChanges DEF Sane, Shape
<1>4. ctx.message = run[w].ctx.message
  BY <1>2 DEF Context
<1>. HIDE DEF ctx
<1>. QED
  BY <1>1, <1>2, <1>3, <1>4, SaneLeave DEF Statuses, Sane, Shape, Counted

LEMMA SaneEnding ==
  ASSUME Sane, NEW w \in Workers, Complete(w) \/ FailNode(w)
  PROVE  Sane'
<1>. DEFINE ctx == [run[w].ctx EXCEPT !.resuming = FALSE]
<1>1. /\ run[w] # None
      /\ UNCHANGED <<setting, jobs, tapState, tap, booked, ran, asked, messages>>
      /\ \/ Leave(w, "completed", ctx) /\ faults' = faults
         \/ Leave(w, "failed", exec[run[w].exec].ctx) /\ faults' = faults + 1
  BY DEF Complete, FailNode, history, bounds
<1>2. /\ run[w].ctx \in Context /\ run[w].ctx.message \in 1..messages
      /\ exec[run[w].exec].ctx \in Context /\ exec[run[w].exec].ctx.message \in 1..messages
  BY <1>1, WalkFacts
<1>3. ctx \in Context /\ ctx.message = run[w].ctx.message
  BY <1>2 DEF Context
<1>4. faults' \in Nat
  BY <1>1 DEF Sane, Shape, Counted
<1>. HIDE DEF ctx
<1>5. CASE Leave(w, "completed", ctx)
  BY <1>1, <1>2, <1>3, <1>4, <1>5, SaneLeave DEF Statuses
<1>6. CASE Leave(w, "failed", exec[run[w].exec].ctx)
  BY <1>1, <1>2, <1>4, <1>6, SaneLeave DEF Statuses
<1>. QED
  BY <1>1, <1>5, <1>6

LEMMA SaneDelay ==
  ASSUME Sane, NEW w \in Workers, Delay(w)
  PROVE  Sane'
<1>. DEFINE ctx == [run[w].ctx EXCEPT !.resumeAt = After(run[w].node), !.resuming = TRUE]
<1>1. /\ run[w] # None /\ run[w].node # 0 /\ Leave(w, "delayed", ctx) /\ Enqueue(run[w].exec)
      /\ UNCHANGED <<setting, tapState, tap, booked, ran, asked, messages, faults>>
  BY DEF Delay, Walking, history, bounds
<1>2. run[w].ctx \in Context /\ run[w].node \in Nodes /\ run[w].ctx.message \in 1..messages
  BY <1>1, WalkFacts
<1>3. ctx \in Context
  BY <1>2, ContextChanges DEF Sane, Shape
<1>4. ctx.message = run[w].ctx.message
  BY <1>2 DEF Context
<1>. HIDE DEF ctx
<1>. QED
  BY <1>1, <1>2, <1>3, <1>4, SaneLeave DEF Statuses, Sane, Shape, Counted

LEMMA SaneSlotConflict ==
  ASSUME Sane, NEW w \in Workers, SlotConflict(w)
  PROVE  Sane'
<1>. DEFINE old == run[w]
            e == old.exec
            ctx == [exec[e].ctx EXCEPT !.resumeAt = SlotList, !.resuming = TRUE,
                                       !.taken = FALSE, !.paused = 0]
            r == [exec[e] EXCEPT !.status = "running", !.ctx = ctx]
            at == [old EXCEPT !.at = "pause"]
<1>1. exec' = [exec EXCEPT ![e] = r]
  BY DEF SlotConflict
<1>2. /\ Walking(w, "book") /\ recent' = Without(recent, e) /\ Enqueue(e)
      /\ run' = [run EXCEPT ![w] = at]
      /\ UNCHANGED <<setting, tapState, tap, booked, ran, asked, messages, faults>>
  BY DEF SlotConflict, history, bounds
<1>3. run[w] # None /\ run[w].node # 0
  BY <1>2 DEF Walking
<1>4. /\ e \in Execs /\ exec[e] \in Row /\ exec[e].ctx \in Context /\ old \in WalkRecord
      /\ exec[e].ctx.message \in 1..messages /\ old.node \in Nodes /\ old.node # 0
  BY <1>3, WalkFacts
<1>5. SlotList \in 0..Len(flow) /\ 0 \in 0..Len(flow)
  <2>1. \E n \in Nodes : flow[n] = "pick"
    BY <1>2, <1>4, SettingFacts DEF Sane, Shape, Walking
  <2>2. SlotList \in Nodes
    BY <2>1 DEF SlotList
  <2>. QED
    BY <2>2, SettingFacts DEF Sane, Shape
<1>6. /\ jobs' \in [Execs -> [0..MaxRetries -> Nat]]
      /\ \A d \in Execs : d # e => jobs'[d] = jobs[d]
  BY <1>2, <1>4, JobQueued, SettingFacts DEF Sane, Shape
<1>. HIDE DEF old
<1>7. at \in WalkRecord /\ at.exec = old.exec /\ at.ctx = old.ctx
  BY <1>4 DEF Walk, WalkRecord
<1>. HIDE DEF e, at
<1>8. ctx \in Context /\ ctx.message = exec[e].ctx.message
  <2>1. exec[e].ctx \in Context
    BY <1>4
  <2>. QED
    BY <1>5, <2>1 DEF Context
<1>. HIDE DEF ctx
<1>9. r \in Row /\ r.status = "running" /\ r.ctx = ctx
  <2>1. exec[e] \in Row /\ ctx \in Context
    BY <1>4, <1>8
  <2>. QED
    BY <2>1 DEF Row, Statuses
<1>. HIDE DEF r
<1>10. /\ run' \in [Workers -> {None} \cup WalkRecord]
       /\ \A v \in Workers : run'[v] # None =>
            run[v] # None /\ run'[v].exec = run[v].exec /\ run'[v].ctx.message = run[v].ctx.message
  BY <1>2, <1>3, <1>7 DEF Sane, Shape, old
<1>11. messages' \in messages..MaxMessages /\ faults' \in Nat
  BY <1>2, SettingFacts DEF Sane, Shape, Counted
<1>. QED
  BY <1>1, <1>2, <1>4, <1>6, <1>8, <1>9, <1>10, <1>11, RowGoesOn
     DEF Sane, Shape, Untouched, Handling

LEMMA SaneBeginRun ==
  ASSUME Sane, NEW w \in Workers, NEW e \in Execs, NEW t \in 0..MaxRetries, BeginRun(w, e, t)
  PROVE  Sane'
<1>. DEFINE r == [exec[e] EXCEPT !.status = "running"]
            begun == [exec |-> e, tries |-> t, at |-> "walk", node |-> Entry(exec[e].ctx),
                      ctx |-> exec[e].ctx]
<1>1. /\ exec' = [exec EXCEPT ![e] = r] /\ recent' = Without(recent, e) /\ jobs[e][t] > 0
      /\ jobs' = [jobs EXCEPT ![e] = [jobs[e] EXCEPT ![t] = @ - 1]]
      /\ run' = [run EXCEPT ![w] = begun]
      /\ UNCHANGED <<setting, tapState, tap, booked, ran, asked, messages, faults>>
  BY DEF BeginRun, history, bounds
<1>2. exec[e] \in Row /\ jobs[e] \in [0..MaxRetries -> Nat]
  BY DEF Sane, Shape
<1>3. exec[e].status # "none"
  BY <1>1 DEF Sane, Begun
<1>4. exec[e].ctx.message \in 1..messages
  BY <1>3 DEF Sane, Begun
<1>5. exec[e].ctx \in Context
  BY <1>2 DEF Row
<1>6. r \in Row /\ r.status = "running" /\ r.ctx = exec[e].ctx
  BY <1>2 DEF Row, Statuses
<1>7. begun \in WalkRecord /\ begun.exec = e /\ begun.ctx = exec[e].ctx
  BY <1>5, EntryType DEF Walk, WalkRecord, Sane, Shape
<1>8. [jobs[e] EXCEPT ![t] = @ - 1] \in [0..MaxRetries -> Nat]
  <2>0. jobs[e][t] \in Nat /\ jobs[e][t] > 0
    BY <1>1, <1>2
  <2>1. jobs[e][t] - 1 \in Nat
    BY <2>0
  <2>. QED
    BY <1>2, <2>1
<1>9. /\ jobs' \in [Execs -> [0..MaxRetries -> Nat]]
      /\ \A d \in Execs : d # e => jobs'[d] = jobs[d]
  BY <1>1, <1>8 DEF Sane, Shape
<1>. HIDE DEF r, begun
<1>10. /\ run' \in [Workers -> {None} \cup WalkRecord]
       /\ \A v \in Workers : run'[v] # None => run'[v] = run[v] \/ run'[v] = begun
  BY <1>1, <1>7 DEF Sane, Shape
<1>11. messages' \in messages..MaxMessages /\ faults' \in Nat
  BY <1>1, SettingFacts DEF Sane, Shape, Counted
<1>12. \A v \in Workers : run'[v] # None =>
         \/ run[v] # None /\ run'[v].exec = run[v].exec /\ run'[v].ctx.message = run[v].ctx.message
         \/ run'[v].exec = e /\ run'[v].ctx.message = r.ctx.message
  BY <1>6, <1>7, <1>10
<1>13. run' \in [Workers -> {None} \cup WalkRecord]
  BY <1>10
<1>14. /\ r.status # "none" /\ r.ctx.message \in 1..messages'
       /\ r.status # "waiting" /\ recent' = Without(recent, e)
  BY <1>1, <1>4, <1>6
<1>15. /\ tapState' \in [Contacts -> 0..Len(flow)] /\ booked' \subseteq Execs
       /\ tap' \in [1..MaxTaps -> {None} \cup TapRecord] /\ Untouched'
       /\ \A i \in 1..MaxTaps : Handling(i, "found")' =>
            Handling(i, "found") /\ tap'[i].exec = tap[i].exec
  BY <1>1 DEF Sane, Shape, Untouched, Handling
<1>16. exec' = [exec EXCEPT ![e] = r] /\ UNCHANGED <<setting, ran, asked>>
  BY <1>1
<1>. QED
  BY <1>6, <1>9, <1>11, <1>12, <1>13, <1>14, <1>15, <1>16, RowGoesOn

(* The worker is done with its job, or gone.                                 *)
LEMMA SaneWorkerFree ==
  ASSUME Sane, NEW w \in Workers, Acknowledge(w) \/ Crash(w)
  PROVE  Sane'
<1>1. /\ run[w] # None /\ run' = [run EXCEPT ![w] = None]
      /\ UNCHANGED <<setting, exec, recent, tapState, tap, booked, ran, asked, messages>>
      /\ faults' = faults \/ faults' = faults + 1
      /\ \/ jobs' = jobs
         \/ /\ run[w].tries # MaxRetries
            /\ jobs' = [jobs EXCEPT ![run[w].exec][run[w].tries + 1] = @ + 1]
  BY DEF Acknowledge, Crash, history, bounds
<1>2. /\ flow' = flow /\ Nodes' = Nodes /\ Context' = Context /\ Row' = Row
      /\ WalkRecord' = WalkRecord /\ TapRecord' = TapRecord /\ NewContext(0)' = NewContext(0)
  <2>1. /\ flow' = flow /\ Nodes' = Nodes /\ Context' = Context /\ Row' = Row
        /\ WalkRecord' = WalkRecord /\ TapRecord' = TapRecord
    BY <1>1, SameWorkflow
  <2>. QED
    BY <2>1 DEF NewContext
<1>. DEFINE e == run[w].exec
            t == run[w].tries
<1>3. e \in Execs /\ t \in 0..MaxRetries /\ exec[e].status # "none"
  BY <1>1, WalkFacts
<1>4. /\ jobs' \in [Execs -> [0..MaxRetries -> Nat]]
      /\ \A d \in Execs : d # e => jobs'[d] = jobs[d]
  <2>1. CASE jobs' = jobs
    BY <2>1 DEF Sane, Shape
  <2>2. CASE t # MaxRetries /\ jobs' = [jobs EXCEPT ![e] = [jobs[e] EXCEPT ![t + 1] = @ + 1]]
    <3>. HIDE DEF e, t
    <3>0. MaxRetries \in Nat /\ t \in 0..MaxRetries /\ t # MaxRetries
      BY <1>3, <2>2, SettingFacts DEF Sane, Shape
    <3>1. t + 1 \in 0..MaxRetries /\ jobs[e] \in [0..MaxRetries -> Nat]
      BY <1>3, <3>0 DEF Sane, Shape
    <3>2. [jobs[e] EXCEPT ![t + 1] = @ + 1] \in [0..MaxRetries -> Nat]
      <4>1. jobs[e][t + 1] \in Nat
        BY <3>1
      <4>2. jobs[e][t + 1] + 1 \in Nat
        BY <4>1
      <4>. QED
        BY <3>1, <4>2
    <3>. QED
      BY <2>2, <3>2 DEF Sane, Shape
  <2>. QED
    BY <1>1, <2>1, <2>2
<1>5. /\ run' \in [Workers -> {None} \cup WalkRecord]
      /\ \A v \in Workers : run'[v] # None => run'[v] = run[v]
  BY <1>1 DEF Sane, Shape
<1>6. Shape'
  BY <1>1, <1>2, <1>4, <1>5 DEF Sane, Shape, Counted
<1>7. RecentIsWaiting' /\ Untouched'
  BY <1>1 DEF Sane, RecentIsWaiting, Untouched, Distinct, Elements
<1>8. Begun'
  <2>1. ASSUME NEW d \in Execs, exec[d].status = "none"
        PROVE  \A u \in 0..MaxRetries : jobs'[d][u] = 0
    <3>1. d # e
      BY <1>3, <2>1
    <3>. QED
      BY <1>4, <2>1, <3>1 DEF Sane, Begun
  <2>. QED
    BY <1>1, <1>2, <1>5, <2>1 DEF Sane, Begun, Handling
<1>. QED
  BY <1>6, <1>7, <1>8 DEF Sane

LEMMA SaneInit == Init => Sane
<1>. SUFFICES ASSUME Init
              PROVE  Sane
  OBVIOUS
<1>1. setting \in Settings
  BY DEF Init
<1>2. NewContext(0) \in Context /\ 0 \in 0..MaxMessages
  BY <1>1, NewContextType, SettingFacts
<1>3. NoExec \in Row /\ NoExec.status = "none" /\ NoExec.ctx = NewContext(0)
  BY <1>1, <1>2, SettingFacts DEF NoExec, Row, Statuses
<1>4. exec = [e \in Execs |-> NoExec]
  BY DEF Init
<1>. HIDE DEF NoExec
<1>5. Shape
  <2>1. exec \in [Execs -> Row] /\ recent \in Seq(Execs) /\ booked \subseteq Execs
    BY <1>3, <1>4 DEF Init
  <2>2. /\ jobs \in [Execs -> [0..MaxRetries -> Nat]]
        /\ run \in [Workers -> {None} \cup WalkRecord]
        /\ tap \in [1..MaxTaps -> {None} \cup TapRecord]
    BY DEF Init
  <2>3. tapState \in [Contacts -> 0..Len(flow)]
    BY <1>1, SettingFacts DEF Init
  <2>4. /\ ran \in [Execs -> [Nodes -> 0..2]]
        /\ asked \in [Execs -> [Nodes -> 0..MaxMessages]]
    BY <1>2 DEF Init
  <2>5. Counted
    BY <1>2 DEF Init, Counted
  <2>. QED
    BY <1>1, <2>1, <2>2, <2>3, <2>4, <2>5 DEF Shape
<1>6. RecentIsWaiting
  <2>1. recent = << >>
    BY DEF Init
  <2>2. \A e \in Execs : exec[e].status # "waiting"
    BY <1>3, <1>4
  <2>. QED
    BY <2>1, <2>2 DEF RecentIsWaiting, Distinct, Elements
<1>7. Untouched
  BY DEF Init, Untouched
<1>8. Begun
  <2>1. \A e \in Execs : exec[e].status = "none" /\ exec[e].ctx = NewContext(0)
    BY <1>3, <1>4
  <2>. QED
    BY <2>1 DEF Begun, Handling, Init
<1>. QED
  BY <1>5, <1>6, <1>7, <1>8 DEF Sane

LEMMA SaneStep == Sane /\ [Next]_vars => Sane'
<1>. SUFFICES ASSUME Sane, [Next]_vars
              PROVE  Sane'
  OBVIOUS
<1>0. setting.contacts \subseteq Contacts
  BY SettingFacts DEF Sane, Shape
<1>1. CASE Customer
  <2>1. PICK c \in setting.contacts :
          \/ \E e \in Execs : \/ MessageStarts(c, e)
                             \/ \E old \in Execs : MessageRestarts(c, old, e)
                             \/ \E isImage \in BOOLEAN : MessageResumes(c, e, isImage)
          \/ \E i \in 1..MaxTaps : TapEnds(i, c) \/ TapFinds(i, c)
    BY <1>1 DEF Customer
  <2>. QED
    BY <1>0, <2>1, SaneMessageStarts, SaneMessageRestarts, SaneMessageResumes, SaneTapEnds,
       SaneTapFinds
<1>2. ASSUME NEW i \in 1..MaxTaps, Webhook(i)
      PROVE  Sane'
  BY <1>2, SaneTapResumes, SaneTapClears DEF Webhook
<1>3. ASSUME NEW w \in Workers, Begin(w) \/ Continue(w) \/ FailNode(w) \/ Crash(w)
      PROVE  Sane'
  BY <1>3, SaneBeginRun, SanePassing, SaneCollectInput, SaneCollectScreenshot, SaneSendButtons,
     SanePause, SaneEnding, SaneDelay, SaneSlotConflict, SaneWorkerFree DEF Begin, Continue
<1>4. CASE UNCHANGED vars
  <2>1. UNCHANGED <<setting, exec, recent, jobs, run, tapState, tap, booked, history, bounds>>
    BY <1>4 DEF vars
  <2>2. Untouched' /\ \A i \in 1..MaxTaps : Handling(i, "found")' => exec[tap'[i].exec].status # "none"
    BY <2>1 DEF Sane, Untouched, Begun, Handling
  <2>. QED
    BY <2>1, <2>2, SaneTapAlone DEF Sane, Shape
<1>. QED
  BY <1>1, <1>2, <1>3, <1>4 DEF Next

LEMMA AlwaysSane == Spec => []Sane
BY SaneInit, SaneStep, PTL DEF Spec

(* Every workflow: the state has its types.                                  *)
THEOREM TypeCorrect == Spec => []TypeOK
BY AlwaysSane, ShapeMeansTypes, PTL DEF Sane

(* Every workflow: what a message or a tap finds waiting does wait.  Each    *)
(* walk that leaves, fails, begins or is resumed changes the status and the  *)
(* order of last updates together, with any number of walks of one execution.*)
THEOREM WhatIsFoundWaits == Spec => []RecentIsWaiting
BY AlwaysSane, PTL DEF Sane

-----------------------------------------------------------------------------
(* Answers come after their questions.                                       *)
LEMMA NobodyTaps ==
  ASSUME Sane, setting.taps = 0, NEW i \in 1..MaxTaps, NEW c
  PROVE  /\ ~TapEnds(i, c) /\ ~TapFinds(i, c) /\ ~TapClears(i)
         /\ \A slotTaken : ~TapResumes(i, slotTaken)
<1>1. tap[i] = None /\ ~(i <= setting.taps)
  BY SettingFacts DEF Sane, Untouched
<1>. QED
  BY <1>1 DEF TapEnds, TapFinds, TapClears, TapResumes, TapArrives, Handling

(* A question asked later does not disturb what was in order.                *)
LEMMA AskedLater ==
  ASSUME setting \in Settings,
         NEW asks \in [Nodes -> Nat], NEW later \in [Nodes -> Nat],
         \A n \in Nodes : asks[n] # 0 => later[n] = asks[n]
  PROVE  /\ \A row \in Row : RowAnswered(flow, row, asks) => RowAnswered(flow, row, later)
         /\ \A walk \in WalkRecord : WalkAnswered(flow, walk, asks) => WalkAnswered(flow, walk, later)
<1>1. ASSUME NEW ctx \in Context, Answered(flow, ctx, asks)
      PROVE  Answered(flow, ctx, later)
  <2>1. ctx.paused \in 0..Len(flow)
    BY DEF Context
  <2>2. ctx.paused # 0 => ctx.paused \in Nodes
    BY <2>1, SettingFacts DEF Nodes
  <2>. QED
    BY <1>1, <2>2 DEF Answered, Nodes
<1>2. ASSUME NEW row \in Row, RowAnswered(flow, row, asks)
      PROVE  RowAnswered(flow, row, later)
  <2>1. row.ctx \in Context
    BY DEF Row
  <2>2. row.ctx.paused # 0 => row.ctx.paused \in Nodes
    BY <2>1, SettingFacts DEF Nodes, Context
  <2>. QED
    BY <1>1, <1>2, <2>1, <2>2 DEF RowAnswered
<1>3. ASSUME NEW walk \in WalkRecord, WalkAnswered(flow, walk, asks)
      PROVE  WalkAnswered(flow, walk, later)
  <2>1. walk.ctx \in Context
    BY DEF Walk, WalkRecord
  <2>2. walk.at = "pause" => walk.node \in Nodes
    BY SettingFacts DEF Walk, WalkRecord, Nodes
  <2>. QED
    BY <1>1, <1>3, <2>1, <2>2 DEF WalkAnswered
<1>. QED
  BY <1>2, <1>3

(* A row is written; walks stay, end, or begin with what the row holds.      *)
LEMMA RowsInOrder ==
  ASSUME Sane, AnswersInOrder, NEW e \in Execs, NEW r, exec' = [exec EXCEPT ![e] = r],
         RowAnswered(flow, r, asked[e]), UNCHANGED <<setting, asked>>,
         \A v \in Workers : run'[v] # None =>
           \/ run[v] # None /\ run'[v] = run[v]
           \/ WalkAnswered(flow, run'[v], asked[run'[v].exec])
  PROVE  AnswersInOrder'
<1>1. flow' = flow
  BY SameWorkflow
<1>2. ASSUME NEW d \in Execs
      PROVE  RowAnswered(flow, exec'[d], asked[d])
  BY DEF Sane, Shape, AnswersInOrder
<1>3. ASSUME NEW v \in Workers, run'[v] # None
      PROVE  WalkAnswered(flow, run'[v], asked[run'[v].exec])
  BY <1>3 DEF AnswersInOrder
<1>. QED
  BY <1>1, <1>2, <1>3 DEF AnswersInOrder

(* A walk goes on, having asked perhaps.                                     *)
LEMMA WalksInOrder ==
  ASSUME Sane, Sane', AnswersInOrder, NEW w \in Workers, run[w] # None, NEW r,
         run' = [run EXCEPT ![w] = r], r.exec = run[w].exec, UNCHANGED <<setting, exec>>,
         \A e \in Execs : \A n \in Nodes : asked[e][n] # 0 => asked'[e][n] = asked[e][n],
         WalkAnswered(flow, r, asked'[r.exec])
  PROVE  AnswersInOrder'
<1>1. /\ flow' = flow /\ Nodes' = Nodes /\ WalkRecord' = WalkRecord
  BY SameWorkflow
<1>2. ASSUME NEW e \in Execs
      PROVE  asked[e] \in [Nodes -> Nat] /\ asked'[e] \in [Nodes -> Nat]
  <2>1. asked[e] \in [Nodes -> 0..MaxMessages] /\ asked'[e] \in [Nodes -> 0..MaxMessages]
    BY <1>1 DEF Sane, Shape
  <2>2. 0..MaxMessages \subseteq Nat
    BY SettingFacts DEF Sane, Shape
  <2>. QED
    BY <2>1, <2>2
<1>3. ASSUME NEW e \in Execs
      PROVE  RowAnswered(flow, exec'[e], asked'[e])
  BY <1>2, AskedLater DEF Sane, Shape, AnswersInOrder
<1>4. ASSUME NEW v \in Workers, run'[v] # None
      PROVE  WalkAnswered(flow, run'[v], asked'[run'[v].exec])
  <2>1. CASE v = w
    BY <2>1 DEF Sane, Shape
  <2>2. CASE v # w
    <3>1. run'[v] = run[v] /\ run[v] # None
      BY <1>4, <2>2 DEF Sane, Shape
    <3>2. run[v] \in WalkRecord /\ run[v].exec \in Execs
      BY <3>1, WalkFacts
    <3>3. WalkAnswered(flow, run[v], asked[run[v].exec])
      BY <3>1 DEF AnswersInOrder
    <3>4. /\ asked[run[v].exec] \in [Nodes -> Nat] /\ asked'[run[v].exec] \in [Nodes -> Nat]
          /\ \A n \in Nodes : asked[run[v].exec][n] # 0 => asked'[run[v].exec][n] = asked[run[v].exec][n]
      BY <1>2, <3>2
    <3>5. setting \in Settings
      BY DEF Sane, Shape
    <3>6. WalkAnswered(flow, run[v], asked'[run[v].exec])
      BY <3>2, <3>3, <3>4, <3>5, AskedLater
    <3>. QED
      BY <3>1, <3>6
  <2>. QED
    BY <2>1, <2>2
<1>. QED
  BY <1>1, <1>3, <1>4 DEF AnswersInOrder

LEMMA OrderAtStart ==
  ASSUME Sane, AnswersInOrder, NEW c \in Contacts, NEW e \in Execs, MessageStarts(c, e)
  PROVE  AnswersInOrder'
<1>. DEFINE r == [status |-> "pending", contact |-> c, ctx |-> NewContext(messages + 1)]
<1>1. /\ exec' = [exec EXCEPT ![e] = r] /\ UNCHANGED <<setting, run, asked>>
  BY DEF MessageStarts, history
<1>2. RowAnswered(flow, r, asked[e])
  BY DEF RowAnswered, Answered, NewContext, Nodes
<1>. HIDE DEF r
<1>. QED
  BY <1>1, <1>2, RowsInOrder

LEMMA OrderAtRestart ==
  ASSUME Sane, AnswersInOrder, NEW c \in Contacts, NEW old \in Execs, NEW e \in Execs,
         MessageRestarts(c, old, e)
  PROVE  AnswersInOrder'
<1>. DEFINE r == [status |-> "pending", contact |-> c, ctx |-> NewContext(messages + 1)]
            gone == [exec[old] EXCEPT !.status = "cancelled"]
<1>1. /\ exec' = [exec EXCEPT ![old] = gone, ![e] = r] /\ UNCHANGED <<setting, run, asked>>
  BY DEF MessageRestarts, history
<1>2. RowAnswered(flow, r, asked[e])
  BY DEF RowAnswered, Answered, NewContext, Nodes
<1>3. gone.status = "cancelled" /\ gone.ctx = exec[old].ctx
  BY DEF Sane, Shape, Row
<1>. HIDE DEF r, gone
<1>4. RowAnswered(flow, gone, asked[old])
  BY <1>3 DEF RowAnswered, AnswersInOrder
<1>5. ASSUME NEW d \in Execs
      PROVE  RowAnswered(flow, exec'[d], asked[d])
  BY <1>1, <1>2, <1>4 DEF Sane, Shape, AnswersInOrder
<1>6. flow' = flow
  BY <1>1, SameWorkflow
<1>. QED
  BY <1>1, <1>5, <1>6 DEF AnswersInOrder

LEMMA OrderAtAnswer ==
  ASSUME Sane, AnswersInOrder, NEW c \in Contacts, NEW e \in Execs, NEW isImage \in BOOLEAN,
         MessageResumes(c, e, isImage)
  PROVE  AnswersInOrder'
<1>. DEFINE old == exec[e].ctx
            ctx == [old EXCEPT !.message = messages + 1, !.image = isImage, !.resuming = TRUE]
            r == [exec[e] EXCEPT !.status = "pending", !.ctx = ctx]
<1>1. exec' = [exec EXCEPT ![e] = r]
  BY DEF MessageResumes
<1>2. UNCHANGED <<setting, run, asked>> /\ LatestWaiting(c, e) /\ Arrive
  BY DEF MessageResumes, history
<1>3. exec[e].status = "waiting" /\ exec[e] \in Row
  BY <1>2, LatestIsWaiting DEF Sane, Shape
<1>4. old \in Context
  BY <1>3 DEF Row
<1>5. /\ Answered(flow, old, asked[e])
      /\ old.paused # 0 /\ Open(flow, old, old.paused) /\ asked[e][old.paused] # 0
  BY <1>3 DEF AnswersInOrder, RowAnswered
<1>. HIDE DEF old
<1>6. asked[e][old.paused] < messages + 1
  <2>1. old.paused \in Nodes
    BY <1>4, <1>5, SettingFacts DEF Context, Nodes, Sane, Shape
  <2>2. asked[e][old.paused] <= messages /\ asked[e][old.paused] \in 0..MaxMessages
    BY <2>1 DEF Sane, Begun, Shape
  <2>. QED
    BY <1>2, <2>2, ArriveFacts
<1>7. /\ ctx.tapped = old.tapped /\ ctx.paused = old.paused /\ ctx.answers = old.answers
      /\ ctx.attached = old.attached /\ ctx.message = messages + 1
  BY <1>4 DEF Context
<1>. HIDE DEF ctx
<1>8. Answered(flow, ctx, asked[e])
  BY <1>5, <1>6, <1>7 DEF Answered, Open
<1>9. r.status = "pending" /\ r.ctx = ctx
  BY <1>3 DEF Row
<1>. HIDE DEF r
<1>10. RowAnswered(flow, r, asked[e])
  BY <1>8, <1>9 DEF RowAnswered
<1>. QED
  BY <1>1, <1>2, <1>10, RowsInOrder

LEMMA OrderAtBegin ==
  ASSUME Sane, AnswersInOrder, NEW w \in Workers, NEW e \in Execs, NEW t \in 0..MaxRetries,
         BeginRun(w, e, t)
  PROVE  AnswersInOrder'
<1>. DEFINE r == [exec[e] EXCEPT !.status = "running"]
            begun == [exec |-> e, tries |-> t, at |-> "walk", node |-> Entry(exec[e].ctx),
                      ctx |-> exec[e].ctx]
<1>1. /\ exec' = [exec EXCEPT ![e] = r] /\ run' = [run EXCEPT ![w] = begun]
      /\ UNCHANGED <<setting, asked>>
  BY DEF BeginRun, history
<1>2. exec[e] \in Row /\ RowAnswered(flow, exec[e], asked[e])
  BY DEF Sane, Shape, AnswersInOrder
<1>3. r.status = "running" /\ r.ctx = exec[e].ctx
  BY <1>2 DEF Row
<1>4. RowAnswered(flow, r, asked[e])
  BY <1>2, <1>3 DEF RowAnswered
<1>5. exec[e].ctx.resuming => Entry(exec[e].ctx) = exec[e].ctx.paused
  BY <1>2 DEF RowAnswered, Answered, Entry
<1>6. WalkAnswered(flow, begun, asked[e]) /\ begun.exec = e
  BY <1>2, <1>5 DEF RowAnswered, WalkAnswered
<1>. HIDE DEF r, begun
<1>7. \A v \in Workers : run'[v] # None =>
        (run[v] # None /\ run'[v] = run[v]) \/ WalkAnswered(flow, run'[v], asked[run'[v].exec])
  BY <1>1, <1>6 DEF Sane, Shape
<1>. QED
  BY <1>1, <1>4, <1>7, RowsInOrder

(* A walk passes a node with no answer left to store.                        *)
LEMMA OrderAtProceed ==
  ASSUME Sane, Sane', AnswersInOrder, NEW w \in Workers, run[w] # None, run[w].at = "walk",
         NEW ctx, Proceed(w, ctx), UNCHANGED <<setting, exec, asked>>,
         Answered(flow, ctx, asked[run[w].exec]), ~ctx.resuming
  PROVE  AnswersInOrder'
<1>. DEFINE old == run[w]
            r == [old EXCEPT !.node = After(old.node), !.ctx = ctx]
<1>1. run' = [run EXCEPT ![w] = r]
  BY DEF Proceed
<1>2. old \in WalkRecord
  BY WalkFacts
<1>3. r.exec = old.exec /\ r.at = old.at /\ r.ctx = ctx
  BY <1>2 DEF Walk, WalkRecord
<1>. HIDE DEF r
<1>4. WalkAnswered(flow, r, asked'[r.exec])
  BY <1>3 DEF WalkAnswered
<1>. HIDE DEF old
<1>. QED
  BY <1>1, <1>3, <1>4, WalksInOrder DEF old

(* A walk has asked and is about to pause.                                   *)
LEMMA OrderAtAsk ==
  ASSUME Sane, Sane', AnswersInOrder, NEW w \in Workers, run[w] # None, run[w].node # 0,
         NEW ctx \in Context, Ask(w, ctx), UNCHANGED <<setting, exec>>,
         Answered(flow, ctx, asked[run[w].exec]), Open(flow, ctx, run[w].node)
  PROVE  AnswersInOrder'
<1>. DEFINE old == run[w]
            e == old.exec
            n == old.node
            k == IF asked[e][n] = 0 THEN messages ELSE asked[e][n]
            r == [old EXCEPT !.at = "pause", !.ctx = ctx]
<1>1. run' = [run EXCEPT ![w] = r] /\ asked' = [asked EXCEPT ![e] = [asked[e] EXCEPT ![n] = k]]
  BY DEF Ask
<1>2. old \in WalkRecord /\ e \in Execs /\ n \in Nodes /\ old.ctx.message \in 1..messages
  BY WalkFacts
<1>3. asked[e] \in [Nodes -> 0..MaxMessages] /\ messages \in 0..MaxMessages /\ messages # 0
  <2>1. messages \in 0..MaxMessages /\ MaxMessages \in Nat
    BY SettingFacts DEF Sane, Shape, Counted
  <2>2. messages # 0
    BY <1>2, <2>1
  <2>3. asked[e] \in [Nodes -> 0..MaxMessages]
    BY <1>2 DEF Sane, Shape
  <2>. QED
    BY <2>1, <2>2, <2>3
<1>. HIDE DEF old
<1>4. r.exec = old.exec /\ r.ctx = ctx /\ r.at = "pause" /\ r.node = old.node
  BY <1>2 DEF Walk, WalkRecord
<1>. HIDE DEF e, n, r
<1>5. k # 0 /\ (asked[e][n] # 0 => k = asked[e][n])
  BY <1>3
<1>. HIDE DEF k
<1>6. asked'[e] = [asked[e] EXCEPT ![n] = k]
  BY <1>1, <1>2 DEF Sane, Shape
<1>7. asked'[e][n] # 0 /\ \A m \in Nodes : asked[e][m] # 0 => asked'[e][m] = asked[e][m]
  BY <1>2, <1>3, <1>5, <1>6
<1>8. \A d \in Execs : \A m \in Nodes : asked[d][m] # 0 => asked'[d][m] = asked[d][m]
  BY <1>1, <1>7 DEF Sane, Shape
<1>9. Answered(flow, ctx, asked'[e])
  <2>1. ctx.paused # 0 => ctx.paused \in Nodes
    BY SettingFacts DEF Context, Nodes, Sane, Shape
  <2>2. Answered(flow, ctx, asked[e]) /\ Nodes = 1..Len(flow)
    BY DEF e, old, Nodes
  <2>. QED
    BY <1>7, <2>1, <2>2 DEF Answered
<1>10. WalkAnswered(flow, r, asked'[r.exec])
  BY <1>4, <1>7, <1>9 DEF WalkAnswered, e, n, old
<1>. QED
  BY <1>1, <1>4, <1>8, <1>10, WalksInOrder DEF old

(* A walk at node n, which nobody resumed at another one.                    *)
LEMMA WalkIsAnswered ==
  ASSUME Sane, AnswersInOrder, NEW w \in Workers, run[w] # None, run[w].at = "walk",
         run[w].node # 0
  PROVE  /\ run[w].ctx \in Context /\ run[w].node \in Nodes
         /\ Answered(flow, run[w].ctx, asked[run[w].exec])
         /\ run[w].ctx.resuming =>
              /\ run[w].ctx.paused = run[w].node /\ Open(flow, run[w].ctx, run[w].node)
              /\ run[w].ctx.message > asked[run[w].exec][run[w].node]
              /\ asked[run[w].exec][run[w].node] # 0
<1>1. WalkAnswered(flow, run[w], asked[run[w].exec])
  BY DEF AnswersInOrder
<1>. QED
  BY <1>1, WalkFacts DEF WalkAnswered, Answered

LEMMA OrderAtPassing ==
  ASSUME Sane, Sane', AnswersInOrder, NEW w \in Workers, PassTrigger(w) \/ Send(w)
  PROVE  AnswersInOrder'
<1>1. /\ run[w] # None /\ run[w].at = "walk" /\ run[w].node # 0 /\ Proceed(w, run[w].ctx)
      /\ UNCHANGED <<setting, exec, asked>>
      /\ flow[run[w].node] \in {"trigger", "send"}
  BY DEF PassTrigger, Send, Walking, history
<1>2. ~run[w].ctx.resuming
  BY <1>1, WalkIsAnswered DEF Open, Questions
<1>. QED
  BY <1>1, <1>2, WalkIsAnswered, OrderAtProceed

LEMMA OrderAtInput ==
  ASSUME Sane, Sane', AnswersInOrder, NEW w \in Workers, CollectInput(w)
  PROVE  AnswersInOrder'
<1>. DEFINE ctx == run[w].ctx
            n == run[w].node
            asks == asked[run[w].exec]
            next == [ctx EXCEPT !.answers[n] = ctx.message, !.resuming = FALSE]
<1>1. /\ run[w] # None /\ run[w].at = "walk" /\ n # 0 /\ flow[n] = "ask"
      /\ UNCHANGED <<setting, exec>>
      /\ \/ ctx.answers[n] # 0 /\ Proceed(w, ctx) /\ UNCHANGED asked
         \/ ctx.answers[n] = 0 /\ ctx.resuming /\ Proceed(w, next) /\ UNCHANGED asked
         \/ ctx.answers[n] = 0 /\ ~ctx.resuming /\ Ask(w, ctx)
  BY DEF CollectInput, Walking
<1>2. /\ ctx \in Context /\ n \in Nodes /\ Answered(flow, ctx, asks)
      /\ ctx.resuming => Open(flow, ctx, n) /\ asks[n] # 0 /\ ctx.message > asks[n]
  BY <1>1, WalkIsAnswered
<1>3. CASE ctx.answers[n] # 0 /\ Proceed(w, ctx) /\ UNCHANGED asked
  <2>1. ~ctx.resuming
    BY <1>1, <1>2, <1>3 DEF Open
  <2>. QED
    BY <1>1, <1>2, <1>3, <2>1, OrderAtProceed
<1>4. CASE ctx.answers[n] = 0 /\ ctx.resuming /\ Proceed(w, next) /\ UNCHANGED asked
  <2>. HIDE DEF ctx, n, asks
  <2>1. /\ next.tapped = ctx.tapped /\ ~next.resuming
        /\ \A m \in Nodes : next.answers[m] = IF m = n THEN ctx.message ELSE ctx.answers[m]
    BY <1>2 DEF Context
  <2>. HIDE DEF next
  <2>2. Answered(flow, next, asks)
    BY <1>2, <1>4, <2>1 DEF Answered, Nodes
  <2>. QED
    BY <1>1, <1>4, <2>1, <2>2, OrderAtProceed DEF asks
<1>5. CASE ctx.answers[n] = 0 /\ ~ctx.resuming /\ Ask(w, ctx)
  <2>1. Open(flow, ctx, n)
    BY <1>1, <1>5 DEF Open, Questions
  <2>. QED
    BY <1>1, <1>2, <1>5, <2>1, OrderAtAsk
<1>. QED
  BY <1>1, <1>3, <1>4, <1>5

LEMMA OrderAtScreenshot ==
  ASSUME Sane, Sane', AnswersInOrder, NEW w \in Workers, CollectScreenshot(w)
  PROVE  AnswersInOrder'
<1>. DEFINE ctx == run[w].ctx
            n == run[w].node
            asks == asked[run[w].exec]
            next == [ctx EXCEPT !.attached = TRUE, !.image = FALSE, !.resuming = FALSE]
            again == [ctx EXCEPT !.image = FALSE]
<1>1. /\ run[w] # None /\ run[w].at = "walk" /\ n # 0 /\ flow[n] = "photo"
      /\ UNCHANGED <<setting, exec>>
      /\ \/ ctx.attached /\ Proceed(w, ctx) /\ UNCHANGED asked
         \/ ~ctx.attached /\ Proceed(w, next) /\ UNCHANGED asked
         \/ ~ctx.attached /\ Ask(w, again)
  BY DEF CollectScreenshot, Walking, history
<1>2. /\ ctx \in Context /\ n \in Nodes /\ Answered(flow, ctx, asks)
      /\ ctx.resuming => Open(flow, ctx, n) /\ ctx.paused = n
  BY <1>1, WalkIsAnswered
<1>3. CASE ctx.attached /\ Proceed(w, ctx) /\ UNCHANGED asked
  <2>1. ~ctx.resuming
    BY <1>1, <1>2, <1>3 DEF Open
  <2>. QED
    BY <1>1, <1>2, <1>3, <2>1, OrderAtProceed
<1>4. CASE ~ctx.attached /\ Proceed(w, next) /\ UNCHANGED asked
  <2>. HIDE DEF ctx, n, asks
  <2>1. next.tapped = ctx.tapped /\ ~next.resuming /\ next.answers = ctx.answers
    BY <1>2 DEF Context
  <2>. HIDE DEF next
  <2>2. Answered(flow, next, asks)
    BY <1>2, <1>4, <2>1 DEF Answered
  <2>. QED
    BY <1>1, <1>4, <2>1, <2>2, OrderAtProceed DEF asks
<1>5. CASE ~ctx.attached /\ Ask(w, again)
  <2>0. again \in Context
    BY <1>2, ContextChanges DEF Sane, Shape
  <2>. HIDE DEF ctx, n, asks
  <2>1. /\ again.tapped = ctx.tapped /\ again.resuming = ctx.resuming
        /\ again.answers = ctx.answers /\ again.attached = ctx.attached
        /\ again.paused = ctx.paused /\ again.message = ctx.message
    BY <1>2 DEF Context
  <2>. HIDE DEF again
  <2>2. Answered(flow, again, asks)
    BY <1>2, <2>1 DEF Answered, Open
  <2>3. Open(flow, again, n)
    BY <1>1, <1>5, <2>1 DEF Open, Questions
  <2>. QED
    BY <1>1, <1>5, <2>0, <2>2, <2>3, OrderAtAsk DEF asks, n
<1>. QED
  BY <1>1, <1>3, <1>4, <1>5

LEMMA OrderAtButtons ==
  ASSUME Sane, Sane', AnswersInOrder, NEW w \in Workers, SendButtons(w)
  PROVE  AnswersInOrder'
<1>1. /\ run[w] # None /\ run[w].at = "walk" /\ run[w].node # 0 /\ flow[run[w].node] = "pick"
      /\ UNCHANGED <<setting, exec>> /\ Ask(w, run[w].ctx)
  BY DEF SendButtons, Walking
<1>2. Open(flow, run[w].ctx, run[w].node)
  BY <1>1 DEF Open, Questions
<1>. QED
  BY <1>1, <1>2, WalkIsAnswered, OrderAtAsk

(* A walk leaves its execution.                                              *)
LEMMA OrderAtLeave ==
  ASSUME Sane, AnswersInOrder, NEW w \in Workers, run[w] # None, NEW status, NEW ctx,
         Leave(w, status, ctx), UNCHANGED <<setting, asked>>,
         Answered(flow, ctx, asked[run[w].exec]),
         status = "waiting" => /\ ctx.paused # 0 /\ Open(flow, ctx, ctx.paused)
                               /\ asked[run[w].exec][ctx.paused] # 0
  PROVE  AnswersInOrder'
<1>. DEFINE old == run[w]
            e == old.exec
            r == [exec[e] EXCEPT !.status = status, !.ctx = ctx]
            left == [old EXCEPT !.at = "done"]
<1>1. exec' = [exec EXCEPT ![e] = r] /\ run' = [run EXCEPT ![w] = left]
  BY DEF Leave
<1>2. e \in Execs /\ exec[e] \in Row /\ old \in WalkRecord
  BY WalkFacts
<1>3. WalkAnswered(flow, old, asked[e])
  BY DEF AnswersInOrder
<1>. HIDE DEF old
<1>4. left.exec = old.exec /\ left.ctx = old.ctx /\ left.at = "done"
  BY <1>2 DEF Walk, WalkRecord
<1>5. WalkAnswered(flow, left, asked[left.exec])
  BY <1>3, <1>4 DEF WalkAnswered
<1>6. r.status = status /\ r.ctx = ctx
  BY <1>2 DEF Row
<1>. HIDE DEF r, left
<1>7. RowAnswered(flow, r, asked[e])
  BY <1>6 DEF RowAnswered, old
<1>8. \A v \in Workers : run'[v] # None =>
        (run[v] # None /\ run'[v] = run[v]) \/ WalkAnswered(flow, run'[v], asked[run'[v].exec])
  BY <1>1, <1>5 DEF Sane, Shape
<1>. HIDE DEF e
<1>. QED
  BY <1>1, <1>2, <1>7, <1>8, RowsInOrder

LEMMA OrderAtPause ==
  ASSUME Sane, AnswersInOrder, NEW w \in Workers, Pause(w)
  PROVE  AnswersInOrder'
<1>. DEFINE old == run[w].ctx
            n == run[w].node
            ctx == [old EXCEPT !.paused = n, !.resuming = FALSE]
<1>1. /\ run[w] # None /\ run[w].at = "pause" /\ Leave(w, "waiting", ctx)
      /\ UNCHANGED <<setting, asked>>
  BY DEF Pause, history
<1>2. old \in Context /\ n # 0
  BY <1>1, WalkFacts
<1>3. Answered(flow, old, asked[run[w].exec]) /\ Open(flow, old, n) /\ asked[run[w].exec][n] # 0
  BY <1>1 DEF AnswersInOrder, WalkAnswered
<1>. HIDE DEF old, n
<1>4. /\ ctx.tapped = old.tapped /\ ~ctx.resuming /\ ctx.answers = old.answers
      /\ ctx.attached = old.attached /\ ctx.paused = n
  BY <1>2 DEF Context
<1>. HIDE DEF ctx
<1>5. Answered(flow, ctx, asked[run[w].exec]) /\ Open(flow, ctx, n)
  BY <1>3, <1>4 DEF Answered, Open
<1>. QED
  BY <1>1, <1>2, <1>3, <1>4, <1>5, OrderAtLeave

LEMMA OrderAtEnding ==
  ASSUME Sane, AnswersInOrder, NEW w \in Workers, Complete(w) \/ FailNode(w)
  PROVE  AnswersInOrder'
<1>. DEFINE old == run[w].ctx
            ctx == [old EXCEPT !.resuming = FALSE]
<1>1. /\ run[w] # None /\ UNCHANGED <<setting, asked>>
      /\ Leave(w, "completed", ctx) \/ Leave(w, "failed", exec[run[w].exec].ctx)
  BY DEF Complete, FailNode, history
<1>2. old \in Context /\ run[w].exec \in Execs
  BY <1>1, WalkFacts
<1>3. /\ Answered(flow, old, asked[run[w].exec])
      /\ Answered(flow, exec[run[w].exec].ctx, asked[run[w].exec])
  BY <1>1, <1>2 DEF AnswersInOrder, WalkAnswered, RowAnswered
<1>. HIDE DEF old
<1>4. ctx.tapped = old.tapped /\ ~ctx.resuming /\ ctx.answers = old.answers
  BY <1>2 DEF Context
<1>. HIDE DEF ctx
<1>5. Answered(flow, ctx, asked[run[w].exec])
  BY <1>3, <1>4 DEF Answered
<1>. QED
  BY <1>1, <1>3, <1>5, OrderAtLeave

LEMMA OrderAtFree ==
  ASSUME Sane, AnswersInOrder, NEW w \in Workers, Acknowledge(w) \/ Crash(w)
  PROVE  AnswersInOrder'
<1>1. run' = [run EXCEPT ![w] = None] /\ UNCHANGED <<setting, exec, asked>>
  BY DEF Acknowledge, Crash, history
<1>2. flow' = flow
  BY <1>1, SameWorkflow
<1>. QED
  BY <1>1, <1>2 DEF AnswersInOrder, Sane, Shape

LEMMA SettingKept == Next => setting' = setting
<1>. SUFFICES ASSUME Next
              PROVE  setting' = setting
  OBVIOUS
<1>1. CASE Customer
  <2>1. PICK c \in setting.contacts :
          \/ \E e \in Execs : \/ MessageStarts(c, e)
                             \/ \E old \in Execs : MessageRestarts(c, old, e)
                             \/ \E isImage \in BOOLEAN : MessageResumes(c, e, isImage)
          \/ \E i \in 1..MaxTaps : TapEnds(i, c) \/ TapFinds(i, c)
    BY <1>1 DEF Customer
  <2>. QED
    BY <2>1 DEF MessageStarts, MessageRestarts, MessageResumes, TapEnds, TapFinds
<1>2. ASSUME NEW i \in 1..MaxTaps, Webhook(i)
      PROVE  setting' = setting
  BY <1>2 DEF Webhook, TapResumes, TapClears
<1>3. ASSUME NEW w \in Workers, Begin(w) \/ Continue(w) \/ FailNode(w) \/ Crash(w)
      PROVE  setting' = setting
  <2>1. CASE Begin(w) \/ FailNode(w) \/ Crash(w)
    BY <2>1 DEF Begin, BeginRun, FailNode, Crash
  <2>2. CASE Continue(w)
    BY <2>2 DEF Continue, PassTrigger, Send, CollectInput, CollectScreenshot, SendButtons, Delay,
       BookSlot, SlotConflict, Pause, Complete, Acknowledge
  <2>. QED
    BY <1>3, <2>1, <2>2
<1>. QED
  BY <1>1, <1>2, <1>3 DEF Next

LEMMA AnswersStep == Sane /\ Sane' /\ AnswersInv /\ [Next]_vars => AnswersInv'
<1>. SUFFICES ASSUME Sane, Sane', AnswersInv, [Next]_vars
              PROVE  AnswersInv'
  OBVIOUS
<1>1. setting.contacts \subseteq Contacts
  BY SettingFacts DEF Sane, Shape
<1>2. CASE UNCHANGED vars
  BY <1>2 DEF vars, AnswersInv, AnsweredInWriting, AnswersInOrder, flow, Nodes, history
<1>3. CASE Next
  <2>1. setting' = setting
    BY <1>3, SettingKept
  <2>2. AnsweredInWriting' <=> AnsweredInWriting
    BY <2>1, SameWorkflow DEF AnsweredInWriting
  <2>3. ASSUME AnsweredInWriting
        PROVE  AnswersInOrder'
    <3>1. AnswersInOrder /\ setting.taps = 0
      BY <2>3 DEF AnswersInv, AnsweredInWriting
    <3>2. CASE Customer
      <4>1. PICK c \in setting.contacts :
              \/ \E e \in Execs : \/ MessageStarts(c, e)
                                 \/ \E old \in Execs : MessageRestarts(c, old, e)
                                 \/ \E isImage \in BOOLEAN : MessageResumes(c, e, isImage)
              \/ \E i \in 1..MaxTaps : TapEnds(i, c) \/ TapFinds(i, c)
        BY <3>2 DEF Customer
      <4>2. ~\E i \in 1..MaxTaps : TapEnds(i, c) \/ TapFinds(i, c)
        BY <3>1, NobodyTaps
      <4>. QED
        BY <1>1, <3>1, <4>1, <4>2, OrderAtStart, OrderAtRestart, OrderAtAnswer
    <3>3. ~\E i \in 1..MaxTaps : Webhook(i)
      BY <3>1, NobodyTaps DEF Webhook
    <3>4. ASSUME NEW w \in Workers, Begin(w) \/ Continue(w) \/ FailNode(w) \/ Crash(w)
          PROVE  AnswersInOrder'
      <4>1. ~Delay(w) /\ ~BookSlot(w) /\ ~SlotConflict(w)
        <5>1. ~Walking(w, "delay") /\ ~Walking(w, "book")
          BY <2>3, WalkFacts DEF Walking, AnsweredInWriting
        <5>. QED
          BY <5>1 DEF Delay, BookSlot, SlotConflict
      <4>. QED
        BY <3>1, <3>4, <4>1, OrderAtBegin, OrderAtPassing, OrderAtInput, OrderAtScreenshot,
           OrderAtButtons, OrderAtPause, OrderAtEnding, OrderAtFree DEF Begin, Continue
    <3>. QED
      BY <1>3, <3>2, <3>3, <3>4 DEF Next
  <2>. QED
    BY <2>2, <2>3 DEF AnswersInv
<1>. QED
  BY <1>2, <1>3

LEMMA AnswersInit == Init => AnswersInv
<1>. SUFFICES ASSUME Init
              PROVE  AnswersInOrder
  BY DEF AnswersInv
<1>1. NoExec.status = "none" /\ NoExec.ctx = NewContext(0)
  BY DEF NoExec
<1>2. exec = [e \in Execs |-> NoExec]
  BY DEF Init
<1>. HIDE DEF NoExec
<1>. QED
  BY <1>1, <1>2 DEF Init, AnswersInOrder, RowAnswered, Answered, NewContext, Nodes

(* Every workflow of messages and questions that customers answer in words   *)
(* and pictures, with any number of customers, workers, crashes and retries: *)
(* a stored answer is a message that came after its question went out.  (A   *)
(* delay breaks this: the walk it schedules says "resuming", and the next    *)
(* question takes the message before it for its answer.)                     *)
THEOREM AnswersAfterQuestions == Spec => [](AnsweredInWriting => AnswersFollowQuestions)
<1>1. AnswersInv => (AnsweredInWriting => AnswersFollowQuestions)
  BY DEF AnswersInv, AnswersInOrder, AnswersFollowQuestions, RowAnswered, Answered, Nodes
<1>. QED
  BY <1>1, AlwaysSane, AnswersInit, AnswersStep, PTL DEF Spec

-----------------------------------------------------------------------------
(* No node acts twice.                                                       *)
LEMMA NobodyFails ==
  ASSUME Sane, setting.faults = 0, NEW w \in Workers
  PROVE  ~FailNode(w) /\ ~Crash(w)
BY DEF Sane, Shape, Counted, FailNode, Crash

(* A row whose execution has no walk gets a job; another one may stop        *)
(* waiting for good.                                                         *)
LEMMA SingleRow ==
  ASSUME Sane, Single, NEW e \in Execs, UNCHANGED <<setting, run, ran>>,
         exec'[e].status \notin {"none", "waiting"}, Enqueue(e), jobs[e][0] = 0,
         \A w \in Workers : Active(w) => run[w].exec # e,
         Fresh(flow, exec'[e].ctx, ran[e], Entry(exec'[e].ctx)),
         \A d \in Execs : d # e =>
           \/ exec'[d] = exec[d]
           \/ exec[d].status = "waiting" /\ exec'[d].status = "cancelled"
  PROVE  Single'
<1>1. flow' = flow /\ Nodes' = Nodes
  BY SameWorkflow
<1>2. /\ MaxRetries \in Nat /\ 0 \in 0..MaxRetries
      /\ jobs \in [Execs -> [0..MaxRetries -> Nat]] /\ jobs[e] \in [0..MaxRetries -> Nat]
  BY SettingFacts DEF Sane, Shape
<1>3. /\ jobs'[e] = [jobs[e] EXCEPT ![0] = @ + 1]
      /\ \A d \in Execs : d # e => jobs'[d] = jobs[d]
  BY <1>2, JobQueued
<1>4. jobs'[e][0] = 1 /\ \A t \in 1..MaxRetries : jobs'[e][t] = jobs[e][t]
  BY <1>2, <1>3
<1>5. \A w \in Workers : (Active(w)' <=> Active(w)) /\ run'[w] = run[w]
  BY DEF Active
<1>6. \A w \in Workers : Active(w) => run[w].exec \in Execs /\ run[w].exec # e
  BY WalkFacts DEF Active
<1>7. OneWalk'
  <2>1. ASSUME NEW d \in Execs
        PROVE  jobs'[d][0] <= 1 /\ \A t \in 1..MaxRetries : jobs'[d][t] = 0
    <3>1. jobs[d][0] <= 1 /\ \A t \in 1..MaxRetries : jobs[d][t] = 0
      BY DEF Single, OneWalk
    <3>2. CASE d = e
      BY <1>4, <3>1, <3>2
    <3>3. CASE d # e
      BY <1>3, <3>1, <3>3
    <3>. QED
      BY <3>2, <3>3
  <2>2. \A d \in Execs : exec'[d].status = "waiting" => jobs'[d][0] = 0
    BY <1>3 DEF Single, OneWalk
  <2>3. \A w \in Workers : Active(w) =>
          jobs'[run[w].exec][0] = 0 /\ exec'[run[w].exec].status # "waiting"
    BY <1>3, <1>6 DEF Single, OneWalk
  <2>4. \A v, w \in Workers : Active(v) /\ Active(w) /\ run[v].exec = run[w].exec => v = w
    BY DEF Single, OneWalk
  <2>. QED
    BY <1>5, <2>1, <2>2, <2>3, <2>4 DEF OneWalk
<1>8. ASSUME NEW d \in Execs
      PROVE  RowFresh(flow, exec'[d], ran[d], jobs'[d][0])
  <2>1. CASE d = e
    BY <2>1 DEF RowFresh
  <2>2. CASE d # e /\ exec'[d] = exec[d]
    BY <1>3, <2>2 DEF Single, Unrepeated
  <2>3. CASE d # e /\ exec[d].status = "waiting" /\ exec'[d].status = "cancelled"
    <3>1. jobs'[d][0] = 0
      BY <1>3, <2>3 DEF Single, OneWalk
    <3>. QED
      BY <2>3, <3>1 DEF RowFresh
  <2>. QED
    BY <2>1, <2>2, <2>3
<1>9. Unrepeated'
  BY <1>1, <1>5, <1>8 DEF Single, Unrepeated
<1>. QED
  BY <1>7, <1>9 DEF Single

(* A walk goes on.                                                           *)
LEMMA SingleWalk ==
  ASSUME Sane, Single, NEW w \in Workers, Active(w), NEW r, run' = [run EXCEPT ![w] = r],
         UNCHANGED <<setting, exec, jobs>>, r.exec = run[w].exec,
         NEW acts \in [Nodes -> 0..2], ran' = [ran EXCEPT ![run[w].exec] = acts],
         \A n \in Nodes : acts[n] <= 1, WalkFresh(flow, r, acts)
  PROVE  Single'
<1>. DEFINE e == run[w].exec
<1>1. flow' = flow /\ Nodes' = Nodes
  BY SameWorkflow
<1>2. e \in Execs /\ run[w] # None /\ exec[e].status # "none"
  BY WalkFacts DEF Active
<1>3. /\ \A v \in Workers : run'[v] = IF v = w THEN r ELSE run[v]
      /\ \A d \in Execs : ran'[d] = IF d = e THEN acts ELSE ran[d]
  BY <1>2 DEF Sane, Shape
<1>4. \A v \in Workers : (Active(v)' => Active(v)) /\ (Active(v) => run'[v].exec = run[v].exec)
  BY <1>3 DEF Active
<1>5. OneWalk'
  BY <1>4 DEF Single, OneWalk
<1>6. ASSUME NEW d \in Execs
      PROVE  RowFresh(flow, exec[d], ran'[d], jobs[d][0])
  <2>1. CASE d = e
    <3>1. exec[d].status # "none" /\ exec[d].status # "waiting" /\ jobs[d][0] = 0
      BY <1>2, <2>1 DEF Single, OneWalk
    <3>. QED
      BY <3>1 DEF RowFresh
  <2>2. CASE d # e
    BY <1>3, <2>2 DEF Single, Unrepeated
  <2>. QED
    BY <2>1, <2>2
<1>7. ASSUME NEW v \in Workers, Active(v)
      PROVE  WalkFresh(flow, run'[v], ran'[run'[v].exec])
  <2>1. CASE v = w
    BY <1>2, <1>3, <2>1
  <2>2. CASE v # w
    <3>1. run[v].exec # e /\ run[v].exec \in Execs
      BY <1>7, <2>2, WalkFacts DEF Single, OneWalk, Active
    <3>. QED
      BY <1>3, <1>7, <2>2, <3>1 DEF Single, Unrepeated
  <2>. QED
    BY <2>1, <2>2
<1>8. \A d \in Execs : \A n \in Nodes : ran'[d][n] <= 1
  BY <1>3 DEF Single, Unrepeated
<1>9. Unrepeated'
  BY <1>1, <1>4, <1>6, <1>7, <1>8 DEF Single, Unrepeated
<1>. QED
  BY <1>5, <1>9 DEF Single

(* A walk leaves its execution: waiting, over, or with a job to go on.       *)
LEMMA SingleLeave ==
  ASSUME Sane, Single, NEW w \in Workers, Active(w), NEW status, NEW ctx, Leave(w, status, ctx),
         UNCHANGED <<setting, ran>>, status # "none",
         \/ /\ UNCHANGED jobs
            /\ status = "waiting" => ctx.paused # 0 /\ Fresh(flow, ctx, ran[run[w].exec], ctx.paused)
         \/ /\ Enqueue(run[w].exec) /\ status # "waiting"
            /\ Fresh(flow, ctx, ran[run[w].exec], Entry(ctx))
  PROVE  Single'
<1>. DEFINE old == run[w]
            e == old.exec
            r == [exec[e] EXCEPT !.status = status, !.ctx = ctx]
            left == [old EXCEPT !.at = "done"]
<1>1. exec' = [exec EXCEPT ![e] = r] /\ run' = [run EXCEPT ![w] = left]
  BY DEF Leave
<1>2. /\ e \in Execs /\ exec[e] \in Row /\ old \in WalkRecord /\ old # None
      /\ jobs[e][0] = 0 /\ old.at # "done"
  BY WalkFacts DEF Active, Single, OneWalk
<1>3. \A v \in Workers : Active(v) /\ v # w => run[v].exec # e /\ run[v].exec \in Execs
  BY WalkFacts DEF Active, Single, OneWalk
<1>4. flow' = flow /\ Nodes' = Nodes
  BY SameWorkflow
<1>. HIDE DEF old
<1>5. left.at = "done"
  BY <1>2 DEF Walk, WalkRecord
<1>6. r.status = status /\ r.ctx = ctx
  BY <1>2 DEF Row
<1>. HIDE DEF r, left
<1>7. /\ \A v \in Workers : run'[v] = IF v = w THEN left ELSE run[v]
      /\ \A d \in Execs : exec'[d] = IF d = e THEN r ELSE exec[d]
  BY <1>1, <1>2 DEF Sane, Shape
<1>8. \A v \in Workers : Active(v)' => v # w /\ Active(v) /\ run'[v] = run[v]
  BY <1>5, <1>7 DEF Active
<1>9. /\ \A d \in Execs : d # e => jobs'[d] = jobs[d]
      /\ \A t \in 1..MaxRetries : jobs'[e][t] = jobs[e][t]
      /\ \/ /\ jobs'[e][0] = 0
            /\ status = "waiting" => ctx.paused # 0 /\ Fresh(flow, ctx, ran[e], ctx.paused)
         \/ jobs'[e][0] = 1 /\ status # "waiting" /\ Fresh(flow, ctx, ran[e], Entry(ctx))
  <2>1. CASE /\ UNCHANGED jobs
             /\ status = "waiting" => ctx.paused # 0 /\ Fresh(flow, ctx, ran[e], ctx.paused)
    BY <1>2, <2>1
  <2>2. CASE Enqueue(e) /\ status # "waiting" /\ Fresh(flow, ctx, ran[e], Entry(ctx))
    <3>1. /\ MaxRetries \in Nat /\ 0 \in 0..MaxRetries
          /\ jobs \in [Execs -> [0..MaxRetries -> Nat]] /\ jobs[e] \in [0..MaxRetries -> Nat]
      BY <1>2, SettingFacts DEF Sane, Shape
    <3>2. /\ jobs'[e] = [jobs[e] EXCEPT ![0] = @ + 1]
          /\ \A d \in Execs : d # e => jobs'[d] = jobs[d]
      BY <1>2, <2>2, <3>1, JobQueued
    <3>3. jobs'[e][0] = 1 /\ \A t \in 1..MaxRetries : jobs'[e][t] = jobs[e][t]
      BY <1>2, <3>1, <3>2
    <3>. QED
      BY <2>2, <3>2, <3>3
  <2>. QED
    BY <2>1, <2>2 DEF old
<1>. HIDE DEF e
<1>10. OneWalk'
  <2>1. ASSUME NEW d \in Execs
        PROVE  jobs'[d][0] <= 1 /\ \A t \in 1..MaxRetries : jobs'[d][t] = 0
    <3>1. jobs[d][0] <= 1 /\ \A t \in 1..MaxRetries : jobs[d][t] = 0
      BY DEF Single, OneWalk
    <3>2. CASE d = e
      BY <1>9, <3>1, <3>2
    <3>3. CASE d # e
      BY <1>9, <3>1, <3>3
    <3>. QED
      BY <3>2, <3>3
  <2>2. ASSUME NEW d \in Execs, exec'[d].status = "waiting"
        PROVE  jobs'[d][0] = 0
    <3>1. CASE d = e
      <4>1. status = "waiting"
        BY <1>6, <1>7, <2>2, <3>1
      <4>. QED
        BY <1>9, <3>1, <4>1
    <3>2. CASE d # e
      BY <1>7, <1>9, <2>2, <3>2 DEF Single, OneWalk
    <3>. QED
      BY <3>1, <3>2
  <2>3. \A v \in Workers : Active(v) /\ v # w =>
          jobs'[run[v].exec][0] = 0 /\ exec'[run[v].exec].status # "waiting"
    BY <1>3, <1>7, <1>9 DEF Single, OneWalk
  <2>4. \A u, v \in Workers : Active(u) /\ Active(v) /\ run[u].exec = run[v].exec => u = v
    BY DEF Single, OneWalk
  <2>. QED
    BY <1>8, <2>1, <2>2, <2>3, <2>4 DEF OneWalk
<1>11. ASSUME NEW d \in Execs
       PROVE  RowFresh(flow, exec'[d], ran[d], jobs'[d][0])
  <2>1. CASE d = e
    <3>1. exec'[d].status = status /\ exec'[d].ctx = ctx
      BY <1>6, <1>7, <2>1
    <3>2. status = "waiting" => ctx.paused # 0 /\ Fresh(flow, ctx, ran[e], ctx.paused)
      BY <1>9
    <3>3. jobs'[e][0] # 0 => Fresh(flow, ctx, ran[e], Entry(ctx))
      BY <1>9
    <3>. QED
      BY <2>1, <3>1, <3>2, <3>3 DEF RowFresh
  <2>2. CASE d # e
    BY <1>7, <1>9, <2>2 DEF Single, Unrepeated
  <2>. QED
    BY <2>1, <2>2
<1>12. Unrepeated'
  BY <1>4, <1>8, <1>11 DEF Single, Unrepeated
<1>. QED
  BY <1>10, <1>12 DEF Single

(* An execution that nothing runs: it has no message yet, or it waits.       *)
LEMMA NothingRuns ==
  ASSUME Sane, Single, NEW e \in Execs, exec[e].status \in {"none", "waiting"}
  PROVE  jobs[e][0] = 0 /\ \A w \in Workers : Active(w) => run[w].exec # e
<1>1. MaxRetries \in Nat /\ 0 \in 0..MaxRetries
  BY SettingFacts DEF Sane, Shape
<1>2. jobs[e][0] = 0
  BY <1>1 DEF Sane, Begun, Single, OneWalk
<1>3. \A w \in Workers : Active(w) => run[w].exec # e
  BY DEF Sane, Begun, Single, OneWalk, Active
<1>. QED
  BY <1>2, <1>3

(* A new execution starts at the first node.                                 *)
LEMMA NewIsFresh ==
  ASSUME Sane, Single, NEW e \in Execs, exec[e].status = "none", NEW m
  PROVE  Fresh(flow, NewContext(m), ran[e], Entry(NewContext(m)))
<1>1. \A n \in 1..Len(flow) : ran[e][n] = 0
  BY DEF Single, Unrepeated, RowFresh
<1>2. ~NewContext(m).tapped /\ NewContext(m).paused = 0
  BY DEF NewContext
<1>. QED
  BY <1>1, <1>2 DEF Fresh

LEMMA SingleStart ==
  ASSUME Sane, Single, NEW c \in Contacts, NEW e \in Execs, MessageStarts(c, e)
  PROVE  Single'
<1>. DEFINE r == [status |-> "pending", contact |-> c, ctx |-> NewContext(messages + 1)]
<1>1. /\ exec' = [exec EXCEPT ![e] = r] /\ exec[e].status = "none" /\ Enqueue(e)
      /\ UNCHANGED <<setting, run, ran>>
  BY DEF MessageStarts, StartExecution, history
<1>2. r.status = "pending" /\ r.ctx = NewContext(messages + 1)
  OBVIOUS
<1>. HIDE DEF r
<1>3. exec'[e] = r /\ \A d \in Execs : d # e => exec'[d] = exec[d]
  BY <1>1 DEF Sane, Shape
<1>4. Fresh(flow, r.ctx, ran[e], Entry(r.ctx))
  BY <1>1, <1>2, NewIsFresh
<1>5. jobs[e][0] = 0 /\ \A w \in Workers : Active(w) => run[w].exec # e
  BY <1>1, NothingRuns
<1>. QED
  BY <1>1, <1>2, <1>3, <1>4, <1>5, SingleRow

LEMMA SingleRestart ==
  ASSUME Sane, Single, NEW c \in Contacts, NEW old \in Execs, NEW e \in Execs,
         MessageRestarts(c, old, e)
  PROVE  Single'
<1>. DEFINE r == [status |-> "pending", contact |-> c, ctx |-> NewContext(messages + 1)]
            gone == [exec[old] EXCEPT !.status = "cancelled"]
<1>1. /\ exec' = [exec EXCEPT ![old] = gone, ![e] = r] /\ exec[e].status = "none" /\ Enqueue(e)
      /\ UNCHANGED <<setting, run, ran>> /\ LatestWaiting(c, old)
  BY DEF MessageRestarts, StartExecution, history
<1>2. r.status = "pending" /\ r.ctx = NewContext(messages + 1)
  OBVIOUS
<1>3. gone.status = "cancelled" /\ exec[old].status = "waiting"
  BY <1>1, LatestIsWaiting DEF Sane, Shape, Row
<1>. HIDE DEF r, gone
<1>4. /\ exec'[e] = r
      /\ \A d \in Execs : d # e => exec'[d] = IF d = old THEN gone ELSE exec[d]
  BY <1>1 DEF Sane, Shape
<1>5. \A d \in Execs : d # e =>
        \/ exec'[d] = exec[d]
        \/ exec[d].status = "waiting" /\ exec'[d].status = "cancelled"
  BY <1>3, <1>4
<1>6. Fresh(flow, r.ctx, ran[e], Entry(r.ctx))
  BY <1>1, <1>2, NewIsFresh
<1>7. jobs[e][0] = 0 /\ \A w \in Workers : Active(w) => run[w].exec # e
  BY <1>1, NothingRuns
<1>. QED
  BY <1>1, <1>2, <1>4, <1>5, <1>6, <1>7, SingleRow

(* An answered execution goes on where it paused.                            *)
LEMMA SingleAnswer ==
  ASSUME Sane, Single, NEW c \in Contacts, NEW e \in Execs, NEW isImage \in BOOLEAN,
         MessageResumes(c, e, isImage)
  PROVE  Single'
<1>. DEFINE old == exec[e].ctx
            ctx == [old EXCEPT !.message = messages + 1, !.image = isImage, !.resuming = TRUE]
            r == [exec[e] EXCEPT !.status = "pending", !.ctx = ctx]
<1>1. exec' = [exec EXCEPT ![e] = r]
  BY DEF MessageResumes
<1>2. UNCHANGED <<setting, run, ran>> /\ LatestWaiting(c, e) /\ Enqueue(e)
  BY DEF MessageResumes, history
<1>3. exec[e].status = "waiting" /\ exec[e] \in Row
  BY <1>2, LatestIsWaiting DEF Sane, Shape
<1>4. old \in Context
  BY <1>3 DEF Row
<1>5. old.paused # 0 /\ Fresh(flow, old, ran[e], old.paused)
  BY <1>3 DEF Single, Unrepeated, RowFresh
<1>6. r.status = "pending" /\ r.ctx = ctx
  BY <1>3 DEF Row
<1>7. exec'[e] = r /\ \A d \in Execs : d # e => exec'[d] = exec[d]
  BY <1>1 DEF Sane, Shape
<1>. HIDE DEF old, r
<1>8. ctx.tapped = old.tapped /\ ctx.paused = old.paused /\ ctx.resuming
  BY <1>4 DEF Context
<1>. HIDE DEF ctx
<1>9. Entry(ctx) = old.paused
  BY <1>5, <1>8 DEF Entry, Fresh
<1>10. Fresh(flow, ctx, ran[e], Entry(ctx))
  BY <1>5, <1>8, <1>9 DEF Fresh
<1>11. jobs[e][0] = 0 /\ \A w \in Workers : Active(w) => run[w].exec # e
  BY <1>3, NothingRuns
<1>. QED
  BY <1>2, <1>6, <1>7, <1>10, <1>11, SingleRow

(* A worker takes the only job of an execution, and walks from where nothing *)
(* has acted.                                                                *)
LEMMA SingleBegin ==
  ASSUME Sane, Single, NEW w \in Workers, NEW e \in Execs, NEW t \in 0..MaxRetries,
         BeginRun(w, e, t)
  PROVE  Single'
<1>. DEFINE ctx == exec[e].ctx
            r == [exec[e] EXCEPT !.status = "running"]
            begun == [exec |-> e, tries |-> t, at |-> "walk", node |-> Entry(ctx), ctx |-> ctx]
<1>1. /\ run[w] = None /\ jobs[e][t] > 0
      /\ exec' = [exec EXCEPT ![e] = r] /\ run' = [run EXCEPT ![w] = begun]
      /\ jobs' = [jobs EXCEPT ![e][t] = @ - 1]
      /\ UNCHANGED <<setting, ran>>
  BY DEF BeginRun, history
<1>2. /\ MaxRetries \in Nat /\ 0 \in 0..MaxRetries
      /\ jobs \in [Execs -> [0..MaxRetries -> Nat]] /\ jobs[e] \in [0..MaxRetries -> Nat]
  BY SettingFacts DEF Sane, Shape
<1>3. t = 0 /\ jobs[e][0] = 1
  <2>1. jobs[e][0] <= 1 /\ \A s \in 1..MaxRetries : jobs[e][s] = 0
    BY DEF Single, OneWalk
  <2>. QED
    BY <1>1, <1>2, <2>1
<1>4. /\ jobs'[e][0] = 0 /\ \A s \in 1..MaxRetries : jobs'[e][s] = jobs[e][s]
      /\ \A d \in Execs : d # e => jobs'[d] = jobs[d]
  <2>1. jobs' = [jobs EXCEPT ![e] = [jobs[e] EXCEPT ![0] = jobs[e][0] - 1]]
    BY <1>1, <1>3
  <2>2. jobs'[e] = [jobs[e] EXCEPT ![0] = 0]
    BY <1>2, <1>3, <2>1
  <2>. QED
    BY <1>2, <2>1, <2>2
<1>5. r.status = "running"
  BY DEF Sane, Shape, Row
<1>6. begun.exec = e /\ begun.at = "walk" /\ begun.node = Entry(ctx) /\ begun.ctx = ctx
  OBVIOUS
<1>8. Fresh(flow, ctx, ran[e], Entry(ctx))
  BY <1>3 DEF Single, Unrepeated, RowFresh
<1>9. flow' = flow /\ Nodes' = Nodes
  BY <1>1, SameWorkflow
<1>. HIDE DEF ctx, r, begun
<1>10. /\ \A v \in Workers : run'[v] = IF v = w THEN begun ELSE run[v]
       /\ \A d \in Execs : exec'[d] = IF d = e THEN r ELSE exec[d]
  BY <1>1 DEF Sane, Shape
<1>11. \A v \in Workers : Active(v)' => v = w \/ (v # w /\ Active(v) /\ run'[v] = run[v])
  BY <1>10 DEF Active
<1>12. \A v \in Workers : Active(v) => run[v].exec # e /\ run[v].exec \in Execs
  BY <1>3, WalkFacts DEF Active, Single, OneWalk
<1>13. OneWalk'
  <2>1. \A d \in Execs : jobs'[d][0] <= 1 /\ \A s \in 1..MaxRetries : jobs'[d][s] = 0
    BY <1>4 DEF Single, OneWalk
  <2>2. \A d \in Execs : exec'[d].status = "waiting" => jobs'[d][0] = 0
    BY <1>4, <1>5, <1>10 DEF Single, OneWalk
  <2>3. \A v \in Workers : Active(v)' =>
          jobs'[run'[v].exec][0] = 0 /\ exec'[run'[v].exec].status # "waiting"
    BY <1>4, <1>5, <1>6, <1>10, <1>11, <1>12 DEF Single, OneWalk
  <2>4. \A u, v \in Workers : Active(u)' /\ Active(v)' /\ run'[u].exec = run'[v].exec => u = v
    BY <1>6, <1>10, <1>11, <1>12 DEF Single, OneWalk
  <2>. QED
    BY <2>1, <2>2, <2>3, <2>4 DEF OneWalk
<1>14. ASSUME NEW d \in Execs
       PROVE  RowFresh(flow, exec'[d], ran[d], jobs'[d][0])
  <2>1. CASE d = e
    BY <1>4, <1>5, <1>10, <2>1 DEF RowFresh
  <2>2. CASE d # e
    BY <1>4, <1>10, <2>2 DEF Single, Unrepeated
  <2>. QED
    BY <2>1, <2>2
<1>15. ASSUME NEW v \in Workers, Active(v)'
       PROVE  WalkFresh(flow, run'[v], ran[run'[v].exec])
  <2>1. CASE v = w
    BY <1>6, <1>8, <1>10, <2>1 DEF WalkFresh
  <2>2. CASE v # w
    BY <1>11, <1>15, <2>2 DEF Single, Unrepeated
  <2>. QED
    BY <2>1, <2>2
<1>16. Unrepeated'
  BY <1>1, <1>9, <1>14, <1>15 DEF Single, Unrepeated
<1>. QED
  BY <1>13, <1>16 DEF Single

(* A walk at a node is the only one of its execution, and from the node on   *)
(* nothing has acted.                                                        *)
LEMMA WalkIsFresh ==
  ASSUME Sane, Single, NEW w \in Workers, run[w] # None, run[w].at # "done"
  PROVE  /\ Active(w) /\ WalkFresh(flow, run[w], ran[run[w].exec])
         /\ Fresh(flow, run[w].ctx, ran[run[w].exec], run[w].node)
BY DEF Active, Single, Unrepeated, WalkFresh

(* A walk goes to the next node; the one it leaves may have acted.           *)
LEMMA SingleProceed ==
  ASSUME Sane, Single, NEW w \in Workers, run[w] # None, run[w].at = "walk", run[w].node # 0,
         NEW ctx, Proceed(w, ctx), UNCHANGED <<setting, exec, jobs>>,
         ctx.tapped = run[w].ctx.tapped, ctx.paused = run[w].ctx.paused,
         Act(w) \/ UNCHANGED ran
  PROVE  Single'
<1>. DEFINE old == run[w]
            e == old.exec
            n == old.node
            r == [old EXCEPT !.node = After(n), !.ctx = ctx]
<1>1. run' = [run EXCEPT ![w] = r]
  BY DEF Proceed
<1>2. old \in WalkRecord /\ e \in Execs /\ n \in Nodes /\ old.at = "walk" /\ old.ctx \in Context
  BY WalkFacts
<1>3. ran \in [Execs -> [Nodes -> 0..2]] /\ ran[e] \in [Nodes -> 0..2]
  BY <1>2 DEF Sane, Shape
<1>4. Fresh(flow, old.ctx, ran[e], n)
  BY WalkIsFresh
<1>5. n \in 1..Len(flow) /\ Len(flow) \in Nat /\ Nodes = 1..Len(flow)
  BY <1>2, SettingFacts DEF Nodes, Sane, Shape
<1>6. ran[e][n] = 0
  BY <1>4, <1>5 DEF Fresh
<1>7. r.exec = e /\ r.at = "walk" /\ r.node = After(n) /\ r.ctx = ctx
  BY <1>2 DEF Walk, WalkRecord
<1>9. PICK acts \in [Nodes -> 0..2] :
        /\ ran' = [ran EXCEPT ![e] = acts]
        /\ \A m \in Nodes : m # n => acts[m] = ran[e][m]
        /\ acts[n] <= 1
  <2>1. CASE Act(w)
    <3>. DEFINE k == IF ran[e][n] < 2 THEN ran[e][n] + 1 ELSE 2
                next == [ran[e] EXCEPT ![n] = k]
    <3>1. ran' = [ran EXCEPT ![e] = next]
      BY <2>1 DEF Act
    <3>2. k = 1
      BY <1>6
    <3>. HIDE DEF k
    <3>3. next \in [Nodes -> 0..2] /\ next[n] = 1 /\ \A m \in Nodes : m # n => next[m] = ran[e][m]
      BY <1>2, <1>3, <3>2
    <3>. HIDE DEF next
    <3>4. next[n] <= 1
      BY <3>3
    <3>5. next \in [Nodes -> 0..2]
      BY <3>3
    <3>. USE <3>5
    <3>. WITNESS next \in [Nodes -> 0..2]
    <3>. QED
      BY <3>1, <3>3, <3>4
  <2>2. CASE UNCHANGED ran
    <3>1. ran' = [ran EXCEPT ![e] = ran[e]]
      BY <1>2, <1>3, <2>2
    <3>2. ran[e][n] <= 1
      BY <1>6
    <3>. QED
      BY <1>3, <3>1, <3>2
  <2>. QED
    BY <2>1, <2>2
<1>. HIDE DEF r
<1>10. \A m \in Nodes : acts[m] <= 1
  BY <1>2, <1>9 DEF Single, Unrepeated
<1>11. Fresh(flow, ctx, acts, After(n))
  <2>1. After(n) = 0 \/ After(n) = n + 1
    BY DEF After
  <2>2. ~ctx.tapped /\ (ctx.paused # 0 => flow[ctx.paused] \in Questions /\ ctx.paused <= n)
    BY <1>4, <1>5 DEF Fresh
  <2>3. ctx.paused \in 0..Len(flow)
    BY <1>2 DEF Context
  <2>4. \A m \in 1..Len(flow) : n + 1 <= m => acts[m] = 0
    BY <1>4, <1>5, <1>9 DEF Fresh
  <2>. QED
    BY <1>5, <2>1, <2>2, <2>3, <2>4 DEF Fresh
<1>12. WalkFresh(flow, r, acts)
  BY <1>7, <1>11 DEF WalkFresh
<1>. QED
  BY <1>1, <1>7, <1>9, <1>10, <1>12, SingleWalk, WalkIsFresh

(* A walk asks, before which its node does not act.                          *)
LEMMA SingleAsk ==
  ASSUME Sane, Single, NEW w \in Workers, run[w] # None, run[w].at = "walk",
         NEW ctx, Ask(w, ctx), UNCHANGED <<setting, exec, jobs, ran>>,
         ctx.tapped = run[w].ctx.tapped, ctx.paused = run[w].ctx.paused,
         flow[run[w].node] \in Questions
  PROVE  Single'
<1>. DEFINE old == run[w]
            e == old.exec
            r == [old EXCEPT !.at = "pause", !.ctx = ctx]
<1>1. run' = [run EXCEPT ![w] = r]
  BY DEF Ask
<1>2. old \in WalkRecord /\ e \in Execs /\ ran[e] \in [Nodes -> 0..2]
  BY WalkFacts DEF Sane, Shape
<1>3. Fresh(flow, old.ctx, ran[e], old.node)
  BY WalkIsFresh
<1>4. r.exec = e /\ r.at = "pause" /\ r.node = old.node /\ r.ctx = ctx
  BY <1>2 DEF Walk, WalkRecord
<1>5. ran' = [ran EXCEPT ![e] = ran[e]]
  BY <1>2 DEF Sane, Shape
<1>6. \A m \in Nodes : ran[e][m] <= 1
  BY <1>2 DEF Single, Unrepeated
<1>. HIDE DEF r
<1>7. WalkFresh(flow, r, ran[e])
  BY <1>3, <1>4 DEF Fresh, WalkFresh
<1>. QED
  BY <1>1, <1>2, <1>4, <1>5, <1>6, <1>7, SingleWalk, WalkIsFresh

LEMMA SinglePassing ==
  ASSUME Sane, Single, NEW w \in Workers, PassTrigger(w) \/ Send(w)
  PROVE  Single'
<1>1. /\ run[w] # None /\ run[w].at = "walk" /\ run[w].node # 0 /\ Proceed(w, run[w].ctx)
      /\ UNCHANGED <<setting, exec, jobs>> /\ (Act(w) \/ UNCHANGED ran)
  BY DEF PassTrigger, Send, Walking, history
<1>. QED
  BY <1>1, SingleProceed

LEMMA SingleInput ==
  ASSUME Sane, Single, NEW w \in Workers, CollectInput(w)
  PROVE  Single'
<1>. DEFINE ctx == run[w].ctx
            n == run[w].node
            next == [ctx EXCEPT !.answers[n] = ctx.message, !.resuming = FALSE]
<1>1. /\ run[w] # None /\ run[w].at = "walk" /\ n # 0 /\ flow[n] = "ask"
      /\ UNCHANGED <<setting, exec, jobs, ran>>
      /\ Proceed(w, ctx) \/ Proceed(w, next) \/ Ask(w, ctx)
  BY DEF CollectInput, Walking
<1>2. ctx \in Context
  BY <1>1, WalkFacts
<1>3. next.tapped = ctx.tapped /\ next.paused = ctx.paused
  BY <1>2 DEF Context
<1>4. CASE Proceed(w, ctx)
  BY <1>1, <1>4, SingleProceed
<1>5. CASE Proceed(w, next)
  <2>. HIDE DEF next
  <2>. QED
    BY <1>1, <1>3, <1>5, SingleProceed
<1>6. CASE Ask(w, ctx)
  BY <1>1, <1>6, SingleAsk DEF Questions
<1>. QED
  BY <1>1, <1>4, <1>5, <1>6

LEMMA SingleScreenshot ==
  ASSUME Sane, Single, NEW w \in Workers, CollectScreenshot(w)
  PROVE  Single'
<1>. DEFINE ctx == run[w].ctx
            n == run[w].node
            next == [ctx EXCEPT !.attached = TRUE, !.image = FALSE, !.resuming = FALSE]
            again == [ctx EXCEPT !.image = FALSE]
<1>1. /\ run[w] # None /\ run[w].at = "walk" /\ n # 0 /\ flow[n] = "photo"
      /\ UNCHANGED <<setting, exec, jobs>>
      /\ \/ Proceed(w, ctx) /\ UNCHANGED ran
         \/ Proceed(w, next) /\ Act(w)
         \/ Ask(w, again) /\ UNCHANGED ran
  BY DEF CollectScreenshot, Walking, history
<1>2. ctx \in Context
  BY <1>1, WalkFacts
<1>3. /\ next.tapped = ctx.tapped /\ next.paused = ctx.paused
      /\ again.tapped = ctx.tapped /\ again.paused = ctx.paused
  BY <1>2 DEF Context
<1>4. CASE Proceed(w, ctx) /\ UNCHANGED ran
  BY <1>1, <1>4, SingleProceed
<1>5. CASE Proceed(w, next) /\ Act(w)
  <2>. HIDE DEF next
  <2>. QED
    BY <1>1, <1>3, <1>5, SingleProceed
<1>6. CASE Ask(w, again) /\ UNCHANGED ran
  <2>. HIDE DEF again
  <2>. QED
    BY <1>1, <1>3, <1>6, SingleAsk DEF Questions
<1>. QED
  BY <1>1, <1>4, <1>5, <1>6

LEMMA SingleButtons ==
  ASSUME Sane, Single, NEW w \in Workers, SendButtons(w)
  PROVE  Single'
<1>1. /\ run[w] # None /\ run[w].at = "walk" /\ flow[run[w].node] = "pick"
      /\ Ask(w, run[w].ctx) /\ UNCHANGED <<setting, exec, jobs, ran>>
  BY DEF SendButtons, Walking
<1>. QED
  BY <1>1, SingleAsk DEF Questions

LEMMA SinglePause ==
  ASSUME Sane, Single, NEW w \in Workers, Pause(w)
  PROVE  Single'
<1>. DEFINE old == run[w].ctx
            n == run[w].node
            ctx == [old EXCEPT !.paused = n, !.resuming = FALSE]
            acts == ran[run[w].exec]
<1>1. /\ run[w] # None /\ run[w].at = "pause" /\ Leave(w, "waiting", ctx)
      /\ UNCHANGED <<setting, jobs, ran>>
  BY DEF Pause, history
<1>2. old \in Context /\ n # 0 /\ n \in Nat
  BY <1>1, WalkFacts, SettingFacts DEF Sane, Shape
<1>3. Active(w) /\ Fresh(flow, old, acts, n) /\ flow[n] \in Questions
  BY <1>1, WalkIsFresh DEF WalkFresh
<1>. HIDE DEF old, n, acts
<1>4. ctx.tapped = old.tapped /\ ctx.paused = n
  BY <1>2 DEF Context
<1>. HIDE DEF ctx
<1>5. Fresh(flow, ctx, acts, ctx.paused)
  BY <1>2, <1>3, <1>4 DEF Fresh
<1>. QED
  BY <1>1, <1>2, <1>3, <1>4, <1>5, SingleLeave DEF acts

LEMMA SingleComplete ==
  ASSUME Sane, Single, NEW w \in Workers, Complete(w)
  PROVE  Single'
<1>. DEFINE ctx == [run[w].ctx EXCEPT !.resuming = FALSE]
<1>1. /\ run[w] # None /\ run[w].at = "walk" /\ Leave(w, "completed", ctx)
      /\ UNCHANGED <<setting, jobs, ran>>
  BY DEF Complete, history
<1>. HIDE DEF ctx
<1>. QED
  BY <1>1, WalkIsFresh, SingleLeave

(* A delay, before any question, has a successor, where the walk it          *)
(* schedules goes on.                                                        *)
LEMMA SingleDelay ==
  ASSUME Sane, Single, DelaysComeFirst, NEW w \in Workers, Delay(w)
  PROVE  Single'
<1>. DEFINE old == run[w].ctx
            n == run[w].node
            next == After(n)
            ctx == [old EXCEPT !.resumeAt = next, !.resuming = TRUE]
            acts == ran[run[w].exec]
<1>1. /\ run[w] # None /\ run[w].at = "walk" /\ n # 0 /\ flow[n] = "delay"
      /\ Leave(w, "delayed", ctx) /\ Enqueue(run[w].exec)
      /\ UNCHANGED <<setting, ran>>
  BY DEF Delay, Walking, history
<1>2. old \in Context /\ n \in Nodes
  BY <1>1, WalkFacts
<1>3. n \in 1..Len(flow) /\ Len(flow) \in Nat /\ Nodes = 1..Len(flow)
  BY <1>2, SettingFacts DEF Nodes, Sane, Shape
<1>4. Active(w) /\ Fresh(flow, old, acts, n)
  BY <1>1, WalkIsFresh
<1>5. next = n + 1
  BY <1>1, <1>3 DEF After, DelaysComeFirst
<1>6. old.paused = 0
  <2>1. SUFFICES ASSUME old.paused # 0
                 PROVE  FALSE
    OBVIOUS
  <2>2. flow[old.paused] \in Questions /\ old.paused <= n /\ old.paused \in 0..Len(flow)
    BY <1>1, <1>2, <1>4, <2>1 DEF Fresh, Context
  <2>3. old.paused \in Nodes /\ old.paused # n
    BY <1>1, <1>3, <2>1, <2>2 DEF Questions
  <2>. QED
    BY <1>1, <1>2, <1>3, <2>2, <2>3 DEF DelaysComeFirst
<1>. HIDE DEF old, n, acts, next
<1>7. ctx.tapped = old.tapped /\ ctx.paused = old.paused /\ ctx.resuming /\ ctx.resumeAt = next
  BY <1>2 DEF Context
<1>. HIDE DEF ctx
<1>8. Entry(ctx) = next
  BY <1>3, <1>4, <1>5, <1>6, <1>7 DEF Entry, Fresh
<1>9. Fresh(flow, ctx, acts, Entry(ctx))
  BY <1>3, <1>4, <1>5, <1>6, <1>7, <1>8 DEF Fresh
<1>. QED
  BY <1>1, <1>4, <1>9, SingleLeave DEF acts

LEMMA SingleFree ==
  ASSUME Sane, Single, NEW w \in Workers, Acknowledge(w)
  PROVE  Single'
<1>1. run' = [run EXCEPT ![w] = None] /\ UNCHANGED <<setting, exec, jobs, ran>>
  BY DEF Acknowledge, history
<1>2. flow' = flow /\ Nodes' = Nodes
  BY <1>1, SameWorkflow
<1>3. \A v \in Workers : Active(v)' => Active(v) /\ run'[v] = run[v]
  BY <1>1 DEF Active, Sane, Shape
<1>4. OneWalk'
  BY <1>1, <1>3 DEF Single, OneWalk
<1>5. Unrepeated'
  BY <1>1, <1>2, <1>3 DEF Single, Unrepeated
<1>. QED
  BY <1>4, <1>5 DEF Single

LEMMA SingleInit == Init => Single
<1>. SUFFICES ASSUME Init
              PROVE  Single
  OBVIOUS
<1>1. NoExec.status = "none"
  BY DEF NoExec
<1>2. MaxRetries \in Nat
  BY ConstantsOK
<1>3. \A e \in Execs : exec[e].status = "none" /\ \A t \in 0..MaxRetries : jobs[e][t] = 0
  BY <1>1 DEF Init
<1>4. \A e \in Execs : \A n \in Nodes : ran[e][n] = 0
  BY DEF Init
<1>5. \A w \in Workers : ~Active(w)
  BY DEF Init, Active
<1>6. OneWalk
  BY <1>2, <1>3, <1>5 DEF OneWalk
<1>7. Unrepeated
  BY <1>2, <1>3, <1>4, <1>5 DEF Unrepeated, RowFresh, Nodes
<1>. QED
  BY <1>6, <1>7 DEF Single

LEMMA ActsStep == Sane /\ Sane' /\ ActsInv /\ [Next]_vars => ActsInv'
<1>. SUFFICES ASSUME Sane, Sane', ActsInv, [Next]_vars
              PROVE  ActsInv'
  OBVIOUS
<1>1. setting.contacts \subseteq Contacts
  BY SettingFacts DEF Sane, Shape
<1>2. CASE UNCHANGED vars
  BY <1>2 DEF vars, ActsInv, DelaysComeFirst, Single, OneWalk, Unrepeated, Active, flow, Nodes, history
<1>3. CASE Next
  <2>1. setting' = setting
    BY <1>3, SettingKept
  <2>2. DelaysComeFirst' <=> DelaysComeFirst
    BY <2>1, SameWorkflow DEF DelaysComeFirst
  <2>3. ASSUME DelaysComeFirst, setting.faults = 0
        PROVE  Single'
    <3>1. Single /\ setting.taps = 0
      BY <2>3 DEF ActsInv, DelaysComeFirst
    <3>2. CASE Customer
      <4>1. PICK c \in setting.contacts :
              \/ \E e \in Execs : \/ MessageStarts(c, e)
                                 \/ \E old \in Execs : MessageRestarts(c, old, e)
                                 \/ \E isImage \in BOOLEAN : MessageResumes(c, e, isImage)
              \/ \E i \in 1..MaxTaps : TapEnds(i, c) \/ TapFinds(i, c)
        BY <3>2 DEF Customer
      <4>2. ~\E i \in 1..MaxTaps : TapEnds(i, c) \/ TapFinds(i, c)
        BY <3>1, NobodyTaps
      <4>. QED
        BY <1>1, <3>1, <4>1, <4>2, SingleStart, SingleRestart, SingleAnswer
    <3>3. ~\E i \in 1..MaxTaps : Webhook(i)
      BY <3>1, NobodyTaps DEF Webhook
    <3>4. ASSUME NEW w \in Workers, Begin(w) \/ Continue(w) \/ FailNode(w) \/ Crash(w)
          PROVE  Single'
      <4>1. ~BookSlot(w) /\ ~SlotConflict(w)
        <5>1. ~Walking(w, "book")
          BY <2>3, WalkFacts DEF Walking, DelaysComeFirst
        <5>. QED
          BY <5>1 DEF BookSlot, SlotConflict
      <4>2. ~FailNode(w) /\ ~Crash(w)
        BY <2>3, NobodyFails
      <4>3. CASE Begin(w)
        BY <3>1, <4>3, SingleBegin DEF Begin
      <4>4. CASE Continue(w)
        BY <2>3, <3>1, <4>1, <4>4, SinglePassing, SingleInput, SingleScreenshot, SingleButtons,
           SingleDelay, SinglePause, SingleComplete, SingleFree DEF Continue
      <4>. QED
        BY <3>4, <4>2, <4>3, <4>4
    <3>. QED
      BY <1>3, <3>2, <3>3, <3>4 DEF Next
  <2>. QED
    BY <2>1, <2>2, <2>3 DEF ActsInv
<1>. QED
  BY <1>2, <1>3

(* Every workflow of messages, questions and delays in which nobody taps or  *)
(* books and every delay is followed by a node and comes before the first    *)
(* question, with any number of customers who write whenever they like: no   *)
(* node acts twice for an execution, where no worker crashes.  (A delay      *)
(* after a question sends the walk back to the question, and one at the end  *)
(* to the trigger.  With taps it is false: the flag of a tap survives its    *)
(* resumption and sends later walks back to the buttons.)                    *)
THEOREM NoNodeActsTwice == Spec => [](DelaysComeFirst => ActsOnce)
<1>1. ActsInv => (DelaysComeFirst => ActsOnce)
  BY DEF ActsInv, ActsOnce, Single, Unrepeated
<1>2. Init => ActsInv
  BY SingleInit DEF ActsInv
<1>. QED
  BY <1>1, <1>2, AlwaysSane, ActsStep, PTL DEF Spec

-----------------------------------------------------------------------------
(* The buttons of a customer who waits for the seller before writing or      *)
(* tapping.  The seller has one such customer at a time (a tap resumes the   *)
(* newest execution that waits, whoever its contact is); one node of the     *)
(* workflow has buttons and leads on; a delay leads on; and where slots are  *)
(* booked, one worker walks and nothing fails (a conflict schedules a walk   *)
(* from the buttons, which a second worker takes while the tap that led to   *)
(* the conflict is still to clear its contact's).                            *)
ButtonsOnce ==
  /\ setting.patient
  /\ \A c, d \in setting.contacts : c = d
  /\ \A m, n \in Nodes : flow[m] = "pick" /\ flow[n] = "pick" => m = n
  /\ flow[Len(flow)] \notin {"pick", "delay"}
  /\ (\E n \in Nodes : flow[n] = "book") =>
       setting.faults = 0 /\ \A v, w \in setting.workers : v = w

(* An execution that something can still happen to.                          *)
Alive(e) ==
  \/ exec[e].status = "waiting"
  \/ \E t \in 0..MaxRetries : jobs[e][t] > 0
  \/ \E w \in Workers : run[w] # None /\ run[w].exec = e

Sole == \A d, e \in Execs : Alive(d) /\ Alive(e) => d = e

InFlight(i) == tap[i] # None /\ tap[i].at # "handled"

Still == NoJobs /\ \A w \in Workers : run[w] = None

(* Behind the buttons.                                                       *)
Past(f, n) == \A m \in 1..Len(f) : f[m] = "pick" => m < n

GoesOnPast(f, ctx) == ctx.tapped /\ ctx.resumeAt # 0 /\ Past(f, ctx.resumeAt)

(* A walk that met a conflict is about to save its own context over the one  *)
(* it has scheduled.                                                         *)
Overridden(e) ==
  \E w \in Workers : /\ run[w] # None /\ run[w].exec = e
                     /\ run[w].at = "pause" /\ flow[run[w].node] = "book"

(* Between a tap's arrival and its answer nothing moves; between the resumed *)
(* execution and the cleared buttons, everything that moves is behind them.  *)
TapsInTurn ==
  /\ \A i, j \in 1..MaxTaps : InFlight(i) /\ InFlight(j) => i = j
  /\ \A i \in 1..MaxTaps : Handling(i, "found") =>
       Still /\ exec[tap[i].exec].status = "waiting" /\ tap[i].next # 0 /\ Past(flow, tap[i].next)

RowPast(e) == /\ exec[e].status = "waiting" => ~AtButtons(e)
              /\ Alive(e) => Overridden(e) \/ GoesOnPast(flow, exec[e].ctx)

WalkPast(f, walk) == GoesOnPast(f, walk.ctx) /\ (walk.node # 0 => Past(f, walk.node))

BehindButtons ==
  (\E i \in 1..MaxTaps : Handling(i, "resumed")) =>
    /\ \A e \in Execs : RowPast(e)
    /\ \A w \in Workers : run[w] # None => WalkPast(flow, run[w])

(* The buttons that are held, by a row that waits at them or by a walk that  *)
(* is about to.                                                              *)
ButtonsHeld ==
  /\ \A c \in Contacts : tapState[c] # 0 => flow[tapState[c]] = "pick"
  /\ \A e \in Execs : exec[e].status = "waiting" /\ AtButtons(e) =>
       tapState[exec[e].contact] = exec[e].ctx.paused
  /\ \A w \in Workers : run[w] # None /\ run[w].at = "pause" /\ flow[run[w].node] = "pick" =>
       tapState[exec[run[w].exec].contact] = run[w].node

OfTheSetting ==
  /\ \A e \in Execs : exec[e].status # "none" => exec[e].contact \in setting.contacts
  /\ \A w \in Workers : run[w] # None => w \in setting.workers

Patience == Sole /\ TapsInTurn /\ BehindButtons /\ ButtonsHeld /\ OfTheSetting

ButtonsInv == ButtonsOnce => Patience

(* A node with buttons comes before what is behind them, and so does the     *)
(* successor of what is.                                                     *)
LEMMA PastFacts ==
  ASSUME Sane
  PROVE  /\ \A n \in Nodes : Past(flow, n) => flow[n] # "pick" /\ Past(flow, n + 1)
         /\ ButtonsOnce => \A n \in Nodes : flow[n] = "pick" => After(n) = n + 1 /\ Past(flow, n + 1)
<1>1. Len(flow) \in Nat /\ Nodes = 1..Len(flow)
  BY SettingFacts DEF Sane, Shape, Nodes
<1>2. ASSUME NEW n \in Nodes, Past(flow, n)
      PROVE  flow[n] # "pick" /\ Past(flow, n + 1)
  BY <1>1, <1>2 DEF Past
<1>3. ASSUME ButtonsOnce, NEW n \in Nodes, flow[n] = "pick"
      PROVE  After(n) = n + 1 /\ Past(flow, n + 1)
  BY <1>1, <1>3 DEF ButtonsOnce, After, Past
<1>. QED
  BY <1>2, <1>3

LEMMA NoWalkIsNone ==
  ASSUME Sane
  PROVE  None \notin WalkRecord
<1>. SUFFICES ASSUME None \in WalkRecord
              PROVE  FALSE
  OBVIOUS
<1>1. Len(flow) \in Nat /\ Nodes = 1..Len(flow) /\ MaxRetries \in Nat /\ MaxMessages \in Nat
  BY SettingFacts DEF Sane, Shape, Nodes
<1>2. [Nodes -> 0..MaxMessages] \subseteq Seq(Nat)
  BY <1>1
<1>3. 0..Len(flow) \subseteq Nat /\ 0..MaxRetries \subseteq Nat /\ 0..MaxMessages \subseteq Nat
  BY <1>1
<1>4. Context \subseteq Contexts
  BY <1>2, <1>3 DEF Context, Contexts
<1>5. None \in [exec : Execs, tries : Nat, at : {"walk", "pause", "done"}, node : Nat,
                ctx : Contexts]
  BY <1>3, <1>4 DEF WalkRecord, Walk
<1>. QED
  BY <1>5, ConstantsOK

(* What a tap finds still is so while it is found; a step of a worker is     *)
(* never taken then.                                                         *)
LEMMA NothingFound ==
  ASSUME Sane, Patience, ~Still
  PROVE  \A i \in 1..MaxTaps : ~Handling(i, "found")
BY DEF Patience, TapsInTurn

(* A step of worker w, whose walk is of execution e before and after.        *)
LEMMA PatienceWalk ==
  ASSUME Sane, ButtonsOnce, Patience, NEW w \in Workers, NEW e \in Execs, Alive(e), ~Still,
         UNCHANGED <<setting, tap>>,
         \A d \in Execs : d # e => exec'[d] = exec[d] /\ jobs'[d] = jobs[d],
         exec'[e].contact = exec[e].contact, exec[e].status # "none",
         \A v \in Workers : v # w => run'[v] = run[v],
         run[w] = None \/ run[w].exec = e,
         run'[w] = None \/ (run'[w].exec = e /\ w \in setting.workers),
         \A c \in Contacts : tapState'[c] = tapState[c] \/ flow[tapState'[c]] = "pick",
         \A d \in Execs : exec'[d].status = "waiting" /\ exec'[d].ctx.paused # 0
                          /\ flow[exec'[d].ctx.paused] = "pick" =>
           tapState'[exec'[d].contact] = exec'[d].ctx.paused,
         \A v \in Workers : run'[v] # None /\ run'[v].at = "pause" /\ flow[run'[v].node] = "pick" =>
           tapState'[exec'[run'[v].exec].contact] = run'[v].node,
         (\E i \in 1..MaxTaps : Handling(i, "resumed")) =>
           /\ exec'[e].status = "waiting" /\ exec'[e].ctx.paused # 0 =>
                flow[exec'[e].ctx.paused] # "pick"
           /\ \/ Overridden(e)'
              \/ GoesOnPast(flow, exec'[e].ctx)
              \/ /\ exec'[e].ctx = exec[e].ctx
                 /\ ~(run[w] # None /\ run[w].at = "pause" /\ flow[run[w].node] = "book")
           /\ run'[w] # None => WalkPast(flow, run'[w])
  PROVE  Patience'
<1>1. flow' = flow /\ Nodes' = Nodes
  BY SameWorkflow
<1>2. \A d \in Execs : Alive(d)' => Alive(d)
  BY DEF Alive
<1>3. Sole'
  BY <1>2 DEF Patience, Sole
<1>4. \A i \in 1..MaxTaps : /\ InFlight(i)' <=> InFlight(i)
                            /\ Handling(i, "found")' <=> Handling(i, "found")
                            /\ Handling(i, "resumed")' <=> Handling(i, "resumed")
  BY DEF InFlight, Handling
<1>5. TapsInTurn'
  BY <1>4, NothingFound DEF Patience, TapsInTurn
<1>6. ASSUME NEW d \in Execs, d # e, Overridden(d)
      PROVE  Overridden(d)'
  BY <1>1, <1>6 DEF Overridden
<1>7. ASSUME ~(run[w] # None /\ run[w].at = "pause" /\ flow[run[w].node] = "book"), Overridden(e)
      PROVE  Overridden(e)'
  <2>1. PICK v \in Workers : /\ run[v] # None /\ run[v].exec = e
                             /\ run[v].at = "pause" /\ flow[run[v].node] = "book"
    BY <1>7 DEF Overridden
  <2>2. v # w
    BY <1>7, <2>1
  <2>3. run'[v] = run[v]
    BY <2>2
  <2>. QED
    BY <1>1, <2>1, <2>3 DEF Overridden
<1>8. ASSUME NEW i \in 1..MaxTaps, Handling(i, "resumed")'
      PROVE  /\ \A d \in Execs : RowPast(d)'
             /\ \A v \in Workers : run'[v] # None => WalkPast(flow, run'[v])
  <2>1. Handling(i, "resumed")
    BY <1>4, <1>8
  <2>2. /\ \A d \in Execs : RowPast(d)
        /\ \A v \in Workers : run[v] # None => WalkPast(flow, run[v])
    BY <2>1 DEF Patience, BehindButtons
  <2>3. ASSUME NEW d \in Execs, d # e
        PROVE  RowPast(d)'
    <3>1. exec'[d] = exec[d] /\ RowPast(d)
      BY <2>2, <2>3
    <3>. QED
      BY <1>1, <1>2, <1>6, <2>3, <3>1 DEF RowPast, AtButtons
  <2>4. RowPast(e)'
    <3>1. exec'[e].status = "waiting" => ~AtButtons(e)'
      BY <1>1, <2>1 DEF AtButtons
    <3>2. Overridden(e)' \/ GoesOnPast(flow, exec'[e].ctx)
      BY <1>7, <2>1, <2>2 DEF RowPast
    <3>. QED
      BY <1>1, <3>1, <3>2 DEF RowPast
  <2>5. \A v \in Workers : run'[v] # None => WalkPast(flow, run'[v])
    BY <2>1, <2>2
  <2>. QED
    BY <2>3, <2>4, <2>5
<1>9. BehindButtons'
  BY <1>1, <1>8 DEF BehindButtons
<1>10. ButtonsHeld'
  BY <1>1 DEF Patience, ButtonsHeld, AtButtons
<1>11. OfTheSetting'
  <2>1. \A d \in Execs : exec'[d].status # "none" => exec'[d].contact \in setting.contacts
    BY DEF Patience, OfTheSetting
  <2>2. \A v \in Workers : run'[v] # None => v \in setting.workers
    BY DEF Patience, OfTheSetting
  <2>. QED
    BY <2>1, <2>2 DEF OfTheSetting
<1>. QED
  BY <1>3, <1>5, <1>9, <1>10, <1>11 DEF Patience

(* A walk in which something is held, or is behind the buttons.              *)
LEMMA WalkIsPatient ==
  ASSUME Sane, Patience, NEW w \in Workers, run[w] # None
  PROVE  /\ Alive(run[w].exec) /\ ~Still /\ w \in setting.workers
         /\ (\E i \in 1..MaxTaps : Handling(i, "resumed")) =>
              WalkPast(flow, run[w]) /\ RowPast(run[w].exec)
<1>1. run[w].exec \in Execs
  BY WalkFacts
<1>. QED
  BY <1>1 DEF Patience, OfTheSetting, BehindButtons, Alive, Still

(* What holds of the rows while they are left alone.                         *)
LEMMA RowsHeld ==
  ASSUME Sane, Patience, NEW d \in Execs, exec[d].status = "waiting", exec[d].ctx.paused # 0,
         flow[exec[d].ctx.paused] = "pick"
  PROVE  tapState[exec[d].contact] = exec[d].ctx.paused
BY DEF Patience, ButtonsHeld, AtButtons

(* A walk goes on to the next node.                                          *)
LEMMA PatienceProceed ==
  ASSUME Sane, ButtonsOnce, Patience, NEW w \in Workers, run[w] # None, run[w].at = "walk",
         run[w].node # 0, NEW ctx, Proceed(w, ctx),
         ctx.tapped = run[w].ctx.tapped, ctx.resumeAt = run[w].ctx.resumeAt,
         UNCHANGED <<setting, exec, jobs, tap, tapState>>
  PROVE  Patience'
<1>. DEFINE old == run[w]
            e == old.exec
            r == [old EXCEPT !.node = After(old.node), !.ctx = ctx]
<1>1. run' = [run EXCEPT ![w] = r]
  BY DEF Proceed
<1>2. old \in WalkRecord /\ e \in Execs /\ old.node \in Nodes /\ exec[e].status # "none"
  BY WalkFacts
<1>3. r.exec = e /\ r.at = "walk" /\ r.node = After(old.node) /\ r.ctx = ctx
  BY <1>2 DEF Walk, WalkRecord
<1>4. run'[w] = r /\ \A v \in Workers : v # w => run'[v] = run[v]
  BY <1>1 DEF Sane, Shape
<1>5. ASSUME NEW i \in 1..MaxTaps, Handling(i, "resumed")
      PROVE  WalkPast(flow, r) /\ RowPast(e)
  <2>1. WalkPast(flow, old) /\ RowPast(e)
    BY <1>5, WalkIsPatient
  <2>2. r.node = 0 \/ r.node = old.node + 1
    BY <1>3 DEF After
  <2>3. r.node # 0 => Past(flow, r.node)
    BY <1>2, <2>1, <2>2, PastFacts DEF WalkPast
  <2>4. GoesOnPast(flow, r.ctx)
    BY <1>3, <2>1 DEF WalkPast, GoesOnPast
  <2>. QED
    BY <2>1, <2>3, <2>4 DEF WalkPast
<1>6. (\E i \in 1..MaxTaps : Handling(i, "resumed")) =>
        (exec[e].status = "waiting" /\ exec[e].ctx.paused # 0 =>
           flow[exec[e].ctx.paused] # "pick")
  BY <1>5 DEF RowPast, AtButtons
<1>7. Alive(e) /\ ~Still /\ w \in setting.workers
  BY WalkIsPatient
<1>8. \A v \in Workers : run'[v] # None /\ run'[v].at = "pause" /\ flow[run'[v].node] = "pick" =>
        tapState'[exec'[run'[v].exec].contact] = run'[v].node
  BY <1>3, <1>4 DEF Patience, ButtonsHeld
<1>. HIDE DEF r
<1>. QED
  BY <1>2, <1>3, <1>4, <1>5, <1>6, <1>7, <1>8, RowsHeld, PatienceWalk

(* A walk asks.  What it asks with buttons is what the contact then holds.   *)
LEMMA PatienceAsk ==
  ASSUME Sane, ButtonsOnce, Patience, NEW w \in Workers, run[w] # None, run[w].at = "walk",
         run[w].node # 0, NEW ctx, Ask(w, ctx),
         ctx.tapped = run[w].ctx.tapped, ctx.resumeAt = run[w].ctx.resumeAt,
         UNCHANGED <<setting, exec, jobs, tap>>,
         \/ flow[run[w].node] # "pick" /\ UNCHANGED tapState
         \/ /\ flow[run[w].node] = "pick"
            /\ tapState' = [tapState EXCEPT ![exec[run[w].exec].contact] = run[w].node]
  PROVE  Patience'
<1>. DEFINE old == run[w]
            e == old.exec
            n == old.node
            r == [old EXCEPT !.at = "pause", !.ctx = ctx]
<1>1. run' = [run EXCEPT ![w] = r]
  BY DEF Ask
<1>2. old \in WalkRecord /\ e \in Execs /\ n \in Nodes /\ exec[e].status # "none" /\ exec[e] \in Row
  BY WalkFacts
<1>3. r.exec = e /\ r.at = "pause" /\ r.node = n /\ r.ctx = ctx
  BY <1>2 DEF Walk, WalkRecord
<1>4. run'[w] = r /\ \A v \in Workers : v # w => run'[v] = run[v]
  BY <1>1 DEF Sane, Shape
<1>5. ASSUME NEW i \in 1..MaxTaps, Handling(i, "resumed")
      PROVE  WalkPast(flow, r) /\ RowPast(e)
  BY <1>3, <1>5, WalkIsPatient DEF WalkPast, GoesOnPast
<1>6. (\E i \in 1..MaxTaps : Handling(i, "resumed")) =>
        (exec[e].status = "waiting" /\ exec[e].ctx.paused # 0 =>
           flow[exec[e].ctx.paused] # "pick")
  BY <1>5 DEF RowPast, AtButtons
<1>7. Alive(e) /\ ~Still /\ w \in setting.workers
  BY WalkIsPatient
<1>8. exec[e].contact \in Contacts
  BY <1>2 DEF Row
<1>9. /\ \A c \in Contacts : tapState'[c] = tapState[c] \/ (tapState'[c] = n /\ flow[n] = "pick")
      /\ flow[n] = "pick" => tapState'[exec[e].contact] = n
  <2>. DEFINE held == exec[e].contact
  <2>1. CASE flow[n] # "pick" /\ UNCHANGED tapState
    BY <2>1
  <2>2. CASE flow[n] = "pick" /\ tapState' = [tapState EXCEPT ![held] = n]
    <3>1. held \in Contacts
      BY <1>8
    <3>2. tapState \in [Contacts -> 0..Len(flow)]
      BY DEF Sane, Shape
    <3>3. \A c \in Contacts : tapState'[c] = IF c = held THEN n ELSE tapState[c]
      <4>. HIDE DEF held, n
      <4>. QED
        BY <2>2, <3>1, <3>2
    <3>. QED
      BY <2>2, <3>1, <3>3
  <2>. QED
    BY <2>1, <2>2
<1>10. ASSUME NEW m \in Nodes, flow[m] = "pick", NEW c \in Contacts, tapState[c] = m
       PROVE  tapState'[c] = m
  BY <1>2, <1>9, <1>10 DEF ButtonsOnce
<1>11. ASSUME NEW d \in Execs, exec'[d].status = "waiting", exec'[d].ctx.paused # 0,
              flow[exec'[d].ctx.paused] = "pick"
       PROVE  tapState'[exec'[d].contact] = exec'[d].ctx.paused
  <2>1. exec'[d] = exec[d] /\ exec[d] \in Row
    BY DEF Sane, Shape
  <2>2. exec[d].contact \in Contacts /\ exec[d].ctx \in Context
    BY <2>1 DEF Row
  <2>3. exec[d].ctx.paused \in 0..Len(flow)
    BY <2>2 DEF Context
  <2>4. exec[d].ctx.paused \in Nodes
    BY <1>11, <2>1, <2>3, SettingFacts DEF Sane, Shape, Nodes
  <2>. QED
    BY <1>10, <1>11, <2>1, <2>2, <2>4, RowsHeld
<1>12. ASSUME NEW v \in Workers, run'[v] # None, run'[v].at = "pause", flow[run'[v].node] = "pick"
       PROVE  tapState'[exec'[run'[v].exec].contact] = run'[v].node
  <2>1. CASE v = w
    BY <1>3, <1>4, <1>9, <1>12, <2>1
  <2>2. CASE v # w
    <3>1. run'[v] = run[v]
      BY <1>4, <2>2
    <3>2. run[v].node \in Nodes /\ exec[run[v].exec] \in Row
      BY <1>12, <3>1, WalkFacts
    <3>3. exec[run[v].exec].contact \in Contacts
      BY <3>2 DEF Row
    <3>4. tapState[exec[run[v].exec].contact] = run[v].node
      BY <1>12, <3>1 DEF Patience, ButtonsHeld
    <3>. QED
      BY <1>10, <1>12, <3>1, <3>2, <3>3, <3>4
  <2>. QED
    BY <2>1, <2>2
<1>13. \A c \in Contacts : tapState'[c] = tapState[c] \/ flow[tapState'[c]] = "pick"
  BY <1>9
<1>. HIDE DEF r
<1>. QED
  BY <1>2, <1>3, <1>4, <1>5, <1>6, <1>7, <1>11, <1>12, <1>13, PatienceWalk

(* A walk leaves its execution.                                              *)
LEMMA PatienceLeave ==
  ASSUME Sane, ButtonsOnce, Patience, NEW w \in Workers, run[w] # None,
         NEW status \in Statuses \ {"none"}, NEW ctx \in Context, Leave(w, status, ctx),
         jobs' = jobs \/ Enqueue(run[w].exec), UNCHANGED <<setting, tap, tapState>>,
         status = "waiting" => ctx.paused = run[w].node /\ run[w].at = "pause",
         \/ GoesOnPast(flow, run[w].ctx) /\ WalkPast(flow, run[w]) => GoesOnPast(flow, ctx)
         \/ ctx = exec[run[w].exec].ctx /\ run[w].at = "walk"
  PROVE  Patience'
<1>. DEFINE old == run[w]
            e == old.exec
            row == [exec[e] EXCEPT !.status = status, !.ctx = ctx]
            left == [old EXCEPT !.at = "done"]
<1>1. exec' = [exec EXCEPT ![e] = row] /\ run' = [run EXCEPT ![w] = left]
  BY DEF Leave
<1>2. /\ old \in WalkRecord /\ e \in Execs /\ exec[e] \in Row /\ exec[e].status # "none"
      /\ old.at = "pause" => old.node \in Nodes
  BY WalkFacts
<1>3. left.exec = e /\ left.at = "done" /\ left.node = old.node /\ left.ctx = old.ctx
  BY <1>2 DEF Walk, WalkRecord
<1>4. row.status = status /\ row.ctx = ctx /\ row.contact = exec[e].contact
  BY <1>2 DEF Row
<1>5. /\ run'[w] = left /\ \A v \in Workers : v # w => run'[v] = run[v]
      /\ exec'[e] = row /\ \A d \in Execs : d # e => exec'[d] = exec[d]
  BY <1>1, <1>2 DEF Sane, Shape
<1>6. \A d \in Execs : d # e => jobs'[d] = jobs[d]
  BY <1>2, JobQueued, SettingFacts DEF Sane, Shape
<1>. HIDE DEF row, left
<1>7. Alive(e) /\ ~Still /\ w \in setting.workers
  BY WalkIsPatient
<1>8. ASSUME NEW i \in 1..MaxTaps, Handling(i, "resumed")
      PROVE  /\ WalkPast(flow, left) /\ WalkPast(flow, old)
             /\ row.status = "waiting" /\ row.ctx.paused # 0 => flow[row.ctx.paused] # "pick"
  <2>1. WalkPast(flow, old)
    BY <1>8, WalkIsPatient
  <2>2. WalkPast(flow, left)
    BY <1>3, <2>1 DEF WalkPast
  <2>3. status = "waiting" => flow[ctx.paused] # "pick"
    BY <1>2, <2>1, PastFacts, WalkFacts DEF WalkPast
  <2>. QED
    BY <1>4, <2>1, <2>2, <2>3
<1>9. ASSUME NEW i \in 1..MaxTaps, Handling(i, "resumed")
      PROVE  \/ GoesOnPast(flow, row.ctx)
             \/ row.ctx = exec[e].ctx /\ ~(old.at = "pause" /\ flow[old.node] = "book")
  BY <1>4, <1>8, <1>9 DEF WalkPast
<1>10. ASSUME NEW d \in Execs, exec'[d].status = "waiting", exec'[d].ctx.paused # 0,
              flow[exec'[d].ctx.paused] = "pick"
       PROVE  tapState'[exec'[d].contact] = exec'[d].ctx.paused
  <2>1. CASE d = e
    <3>1. /\ status = "waiting" /\ ctx.paused = old.node /\ old.at = "pause"
          /\ flow[old.node] = "pick"
      BY <1>4, <1>5, <1>10, <2>1
    <3>2. tapState[exec[e].contact] = old.node
      BY <3>1 DEF Patience, ButtonsHeld
    <3>. QED
      BY <1>4, <1>5, <2>1, <3>1, <3>2
  <2>2. CASE d # e
    BY <1>5, <1>10, <2>2, RowsHeld
  <2>. QED
    BY <2>1, <2>2
<1>11. ASSUME NEW v \in Workers, run'[v] # None, run'[v].at = "pause", flow[run'[v].node] = "pick"
       PROVE  tapState'[exec'[run'[v].exec].contact] = run'[v].node
  <2>1. v # w /\ run'[v] = run[v]
    BY <1>3, <1>5, <1>11
  <2>2. exec'[run[v].exec].contact = exec[run[v].exec].contact
    BY <1>4, <1>5, <1>11, <2>1, WalkFacts
  <2>. QED
    BY <1>11, <2>1, <2>2 DEF Patience, ButtonsHeld
<1>. QED
  BY <1>2, <1>3, <1>4, <1>5, <1>6, <1>7, <1>8, <1>9, <1>10, <1>11, PatienceWalk

LEMMA PatiencePassing ==
  ASSUME Sane, ButtonsOnce, Patience, NEW w \in Workers, PassTrigger(w) \/ Send(w) \/ BookSlot(w)
  PROVE  Patience'
<1>1. /\ run[w] # None /\ run[w].at = "walk" /\ run[w].node # 0 /\ Proceed(w, run[w].ctx)
      /\ UNCHANGED <<setting, exec, jobs, tap, tapState>>
  BY DEF PassTrigger, Send, BookSlot, Walking
<1>. QED
  BY <1>1, PatienceProceed

LEMMA PatienceInput ==
  ASSUME Sane, ButtonsOnce, Patience, NEW w \in Workers, CollectInput(w)
  PROVE  Patience'
<1>. DEFINE ctx == run[w].ctx
            n == run[w].node
            next == [ctx EXCEPT !.answers[n] = ctx.message, !.resuming = FALSE]
<1>1. /\ run[w] # None /\ run[w].at = "walk" /\ n # 0 /\ flow[n] = "ask"
      /\ UNCHANGED <<setting, exec, jobs, tap, tapState>>
      /\ Proceed(w, ctx) \/ Proceed(w, next) \/ Ask(w, ctx)
  BY DEF CollectInput, Walking
<1>2. ctx \in Context
  BY <1>1, WalkFacts
<1>3. next.tapped = ctx.tapped /\ next.resumeAt = ctx.resumeAt
  BY <1>2 DEF Context
<1>4. CASE Proceed(w, ctx)
  BY <1>1, <1>4, PatienceProceed
<1>5. CASE Proceed(w, next)
  <2>. HIDE DEF next
  <2>. QED
    BY <1>1, <1>3, <1>5, PatienceProceed
<1>6. CASE Ask(w, ctx)
  BY <1>1, <1>6, PatienceAsk
<1>. QED
  BY <1>1, <1>4, <1>5, <1>6

LEMMA PatienceScreenshot ==
  ASSUME Sane, ButtonsOnce, Patience, NEW w \in Workers, CollectScreenshot(w)
  PROVE  Patience'
<1>. DEFINE ctx == run[w].ctx
            n == run[w].node
            next == [ctx EXCEPT !.attached = TRUE, !.image = FALSE, !.resuming = FALSE]
            again == [ctx EXCEPT !.image = FALSE]
<1>1. /\ run[w] # None /\ run[w].at = "walk" /\ n # 0 /\ flow[n] = "photo"
      /\ UNCHANGED <<setting, exec, jobs, tap, tapState>>
      /\ Proceed(w, ctx) \/ Proceed(w, next) \/ Ask(w, again)
  BY DEF CollectScreenshot, Walking
<1>2. ctx \in Context
  BY <1>1, WalkFacts
<1>3. /\ next.tapped = ctx.tapped /\ next.resumeAt = ctx.resumeAt
      /\ again.tapped = ctx.tapped /\ again.resumeAt = ctx.resumeAt
  BY <1>2 DEF Context
<1>4. CASE Proceed(w, ctx)
  BY <1>1, <1>4, PatienceProceed
<1>5. CASE Proceed(w, next)
  <2>. HIDE DEF next
  <2>. QED
    BY <1>1, <1>3, <1>5, PatienceProceed
<1>6. CASE Ask(w, again)
  <2>. HIDE DEF again
  <2>. QED
    BY <1>1, <1>3, <1>6, PatienceAsk
<1>. QED
  BY <1>1, <1>4, <1>5, <1>6

LEMMA PatienceButtons ==
  ASSUME Sane, ButtonsOnce, Patience, NEW w \in Workers, SendButtons(w)
  PROVE  Patience'
<1>1. /\ run[w] # None /\ run[w].at = "walk" /\ run[w].node # 0 /\ flow[run[w].node] = "pick"
      /\ Ask(w, run[w].ctx) /\ UNCHANGED <<setting, exec, jobs, tap>>
      /\ tapState' = [tapState EXCEPT ![exec[run[w].exec].contact] = run[w].node]
  BY DEF SendButtons, Walking
<1>. QED
  BY <1>1, PatienceAsk

LEMMA PatiencePause ==
  ASSUME Sane, ButtonsOnce, Patience, NEW w \in Workers, Pause(w)
  PROVE  Patience'
<1>. DEFINE old == run[w].ctx
            n == run[w].node
            ctx == [old EXCEPT !.paused = n, !.resuming = FALSE]
<1>1. /\ run[w] # None /\ run[w].at = "pause" /\ Leave(w, "waiting", ctx)
      /\ UNCHANGED <<setting, jobs, tap, tapState>>
  BY DEF Pause
<1>2. old \in Context /\ n \in 0..Len(flow)
  BY <1>1, WalkFacts
<1>. HIDE DEF old, n
<1>3. /\ ctx \in Context /\ ctx.paused = n
      /\ ctx.tapped = old.tapped /\ ctx.resumeAt = old.resumeAt
  BY <1>2 DEF Context
<1>4. GoesOnPast(flow, old) => GoesOnPast(flow, ctx)
  BY <1>3 DEF GoesOnPast
<1>. HIDE DEF ctx
<1>. QED
  BY <1>1, <1>3, <1>4, PatienceLeave DEF old, n, Statuses

LEMMA PatienceComplete ==
  ASSUME Sane, ButtonsOnce, Patience, NEW w \in Workers, Complete(w)
  PROVE  Patience'
<1>. DEFINE old == run[w].ctx
            ctx == [old EXCEPT !.resuming = FALSE]
<1>1. /\ run[w] # None /\ Leave(w, "completed", ctx) /\ UNCHANGED <<setting, jobs, tap, tapState>>
  BY DEF Complete
<1>2. old \in Context
  BY <1>1, WalkFacts
<1>. HIDE DEF old
<1>3. ctx \in Context /\ ctx.tapped = old.tapped /\ ctx.resumeAt = old.resumeAt
  BY <1>2 DEF Context
<1>4. GoesOnPast(flow, old) => GoesOnPast(flow, ctx)
  BY <1>3 DEF GoesOnPast
<1>. HIDE DEF ctx
<1>. QED
  BY <1>1, <1>3, <1>4, PatienceLeave DEF old, Statuses

(* A delay has a successor, which is behind the buttons when it is.          *)
LEMMA PatienceDelay ==
  ASSUME Sane, ButtonsOnce, Patience, NEW w \in Workers, Delay(w)
  PROVE  Patience'
<1>. DEFINE old == run[w].ctx
            n == run[w].node
            next == After(n)
            ctx == [old EXCEPT !.resumeAt = next, !.resuming = TRUE]
<1>1. /\ run[w] # None /\ n # 0 /\ flow[n] = "delay"
      /\ Leave(w, "delayed", ctx) /\ Enqueue(run[w].exec) /\ UNCHANGED <<setting, tap, tapState>>
  BY DEF Delay, Walking
<1>2. old \in Context /\ n \in Nodes /\ next \in 0..Len(flow)
  BY <1>1, WalkFacts, SettingFacts DEF Sane, Shape
<1>3. next = n + 1 /\ n + 1 # 0
  BY <1>1, <1>2, SettingFacts DEF After, ButtonsOnce, Sane, Shape
<1>4. Past(flow, n) => Past(flow, next)
  BY <1>2, <1>3, PastFacts
<1>. HIDE DEF old, next
<1>5. ctx \in Context /\ ctx.tapped = old.tapped /\ ctx.resumeAt = next
  BY <1>2 DEF Context
<1>. HIDE DEF ctx
<1>6. GoesOnPast(flow, run[w].ctx) /\ WalkPast(flow, run[w]) => GoesOnPast(flow, ctx)
  BY <1>1, <1>3, <1>4, <1>5 DEF GoesOnPast, WalkPast, old
<1>. QED
  BY <1>1, <1>5, <1>6, PatienceLeave DEF Statuses

LEMMA PatienceFail ==
  ASSUME Sane, ButtonsOnce, Patience, NEW w \in Workers, FailNode(w)
  PROVE  Patience'
<1>1. /\ run[w] # None /\ run[w].at = "walk" /\ Leave(w, "failed", exec[run[w].exec].ctx)
      /\ UNCHANGED <<setting, jobs, tap, tapState>>
  BY DEF FailNode
<1>2. exec[run[w].exec].ctx \in Context
  BY <1>1, WalkFacts
<1>. QED
  BY <1>1, <1>2, PatienceLeave DEF Statuses

(* The context that a conflict writes is about to be overwritten.            *)
LEMMA PatienceConflict ==
  ASSUME Sane, ButtonsOnce, Patience, NEW w \in Workers, SlotConflict(w)
  PROVE  Patience'
<1>. DEFINE old == run[w]
            e == old.exec
            ctx == [exec[e].ctx EXCEPT !.resumeAt = SlotList, !.resuming = TRUE,
                                       !.taken = FALSE, !.paused = 0]
            row == [exec[e] EXCEPT !.status = "running", !.ctx = ctx]
            r == [old EXCEPT !.at = "pause"]
<1>1. /\ run[w] # None /\ old.at = "walk" /\ old.node # 0 /\ flow[old.node] = "book"
      /\ exec' = [exec EXCEPT ![e] = row] /\ Enqueue(e) /\ run' = [run EXCEPT ![w] = r]
      /\ UNCHANGED <<setting, tap, tapState>>
  BY DEF SlotConflict, Walking
<1>2. old \in WalkRecord /\ e \in Execs /\ exec[e] \in Row /\ exec[e].status # "none"
  BY <1>1, WalkFacts
<1>3. r \in WalkRecord /\ r.exec = e /\ r.at = "pause" /\ r.node = old.node /\ r.ctx = old.ctx
  BY <1>1, <1>2, WalkFacts DEF Walk, WalkRecord
<1>4. row.status = "running" /\ row.contact = exec[e].contact
  BY <1>2 DEF Row
<1>5. /\ run'[w] = r /\ \A v \in Workers : v # w => run'[v] = run[v]
      /\ exec'[e] = row /\ \A d \in Execs : d # e => exec'[d] = exec[d]
  BY <1>1, <1>2 DEF Sane, Shape
<1>6. \A d \in Execs : d # e => jobs'[d] = jobs[d]
  BY <1>1, <1>2, JobQueued, SettingFacts DEF Sane, Shape
<1>. HIDE DEF row, r
<1>7. Alive(e) /\ ~Still /\ w \in setting.workers
  BY <1>1, WalkIsPatient
<1>8. (\E i \in 1..MaxTaps : Handling(i, "resumed")) => WalkPast(flow, r)
  BY <1>1, <1>3, WalkIsPatient DEF WalkPast
<1>9. Overridden(e)'
  BY <1>1, <1>3, <1>5, NoWalkIsNone, SameWorkflow DEF Overridden
<1>10. ASSUME NEW d \in Execs, exec'[d].status = "waiting", exec'[d].ctx.paused # 0,
              flow[exec'[d].ctx.paused] = "pick"
       PROVE  tapState'[exec'[d].contact] = exec'[d].ctx.paused
  BY <1>1, <1>4, <1>5, <1>10, RowsHeld
<1>11. ASSUME NEW v \in Workers, run'[v] # None, run'[v].at = "pause", flow[run'[v].node] = "pick"
       PROVE  tapState'[exec'[run'[v].exec].contact] = run'[v].node
  <2>1. v # w /\ run'[v] = run[v]
    BY <1>1, <1>3, <1>5, <1>11
  <2>2. exec'[run[v].exec].contact = exec[run[v].exec].contact
    BY <1>4, <1>5, <1>11, <2>1, WalkFacts
  <2>. QED
    BY <1>1, <1>11, <2>1, <2>2 DEF Patience, ButtonsHeld
<1>. QED
  BY <1>1, <1>2, <1>3, <1>4, <1>5, <1>6, <1>7, <1>8, <1>9, <1>10, <1>11, PatienceWalk

(* A worker takes a job.  The execution of the job is not one whose context  *)
(* is about to be overwritten: where slots are booked, this worker is the    *)
(* only one.                                                                 *)
LEMMA PatienceBegin ==
  ASSUME Sane, ButtonsOnce, Patience, NEW w \in Workers, NEW e \in Execs, NEW t \in 0..MaxRetries,
         BeginRun(w, e, t)
  PROVE  Patience'
<1>. DEFINE ctx == exec[e].ctx
            row == [exec[e] EXCEPT !.status = "running"]
            begun == [exec |-> e, tries |-> t, at |-> "walk", node |-> Entry(ctx), ctx |-> ctx]
<1>1. /\ w \in setting.workers /\ run[w] = None /\ jobs[e][t] > 0
      /\ exec' = [exec EXCEPT ![e] = row] /\ run' = [run EXCEPT ![w] = begun]
      /\ jobs' = [jobs EXCEPT ![e][t] = @ - 1]
      /\ UNCHANGED <<setting, tap, tapState>>
  BY DEF BeginRun
<1>2. exec[e] \in Row /\ exec[e].status # "none" /\ jobs[e] \in [0..MaxRetries -> Nat]
  <2>1. exec[e] \in Row /\ jobs[e] \in [0..MaxRetries -> Nat]
    BY DEF Sane, Shape
  <2>2. exec[e].status # "none"
    BY <1>1, <2>1 DEF Sane, Begun
  <2>. QED
    BY <2>1, <2>2
<1>3. begun.exec = e /\ begun.at = "walk" /\ begun.node = Entry(ctx) /\ begun.ctx = ctx
  OBVIOUS
<1>4. row.status = "running" /\ row.contact = exec[e].contact /\ row.ctx = ctx
  BY <1>2 DEF Row
<1>5. /\ run'[w] = begun /\ \A v \in Workers : v # w => run'[v] = run[v]
      /\ exec'[e] = row /\ \A d \in Execs : d # e => exec'[d] = exec[d]
  BY <1>1 DEF Sane, Shape
<1>6. \A d \in Execs : d # e => jobs'[d] = jobs[d]
  BY <1>1 DEF Sane, Shape
<1>. HIDE DEF row, begun, ctx
<1>7. Alive(e) /\ ~Still
  <2>1. ~NoJobs
    BY <1>1, <1>2 DEF NoJobs
  <2>. QED
    BY <1>1, <2>1 DEF Alive, Still
<1>8. ~Overridden(e)
  <2>1. SUFFICES ASSUME NEW v \in Workers, run[v] # None, run[v].at = "pause",
                        flow[run[v].node] = "book"
                 PROVE  FALSE
    BY DEF Overridden
  <2>2. v \in setting.workers /\ run[v].node \in Nodes
    BY <2>1, WalkFacts DEF Patience, OfTheSetting
  <2>3. v = w
    BY <1>1, <2>1, <2>2 DEF ButtonsOnce
  <2>. QED
    BY <1>1, <2>1, <2>3
<1>9. ASSUME NEW i \in 1..MaxTaps, Handling(i, "resumed")
      PROVE  GoesOnPast(flow, row.ctx) /\ WalkPast(flow, begun)
  <2>1. GoesOnPast(flow, ctx)
    BY <1>7, <1>8, <1>9 DEF Patience, BehindButtons, RowPast, ctx
  <2>2. Entry(ctx) = ctx.resumeAt
    BY <2>1 DEF GoesOnPast, Entry
  <2>. QED
    BY <1>3, <1>4, <2>1, <2>2 DEF WalkPast, GoesOnPast
<1>10. ASSUME NEW d \in Execs, exec'[d].status = "waiting", exec'[d].ctx.paused # 0,
              flow[exec'[d].ctx.paused] = "pick"
       PROVE  tapState'[exec'[d].contact] = exec'[d].ctx.paused
  BY <1>1, <1>4, <1>5, <1>10, RowsHeld
<1>11. ASSUME NEW v \in Workers, run'[v] # None, run'[v].at = "pause", flow[run'[v].node] = "pick"
       PROVE  tapState'[exec'[run'[v].exec].contact] = run'[v].node
  <2>1. v # w /\ run'[v] = run[v]
    BY <1>3, <1>5, <1>11
  <2>2. exec'[run[v].exec].contact = exec[run[v].exec].contact
    BY <1>4, <1>5, <1>11, <2>1, WalkFacts
  <2>. QED
    BY <1>1, <1>11, <2>1, <2>2 DEF Patience, ButtonsHeld
<1>. QED
  BY <1>1, <1>2, <1>3, <1>4, <1>5, <1>6, <1>7, <1>9, <1>10, <1>11, PatienceWalk

(* A worker is done with its job, or dies and the job is offered again.      *)
LEMMA PatienceFree ==
  ASSUME Sane, ButtonsOnce, Patience, NEW w \in Workers, Acknowledge(w) \/ Crash(w)
  PROVE  Patience'
<1>. DEFINE e == run[w].exec
<1>1. /\ run[w] # None /\ run' = [run EXCEPT ![w] = None]
      /\ UNCHANGED <<setting, exec, tap, tapState>>
  BY DEF Acknowledge, Crash
<1>2. e \in Execs /\ exec[e].status # "none" /\ (run[w].at = "pause" => run[w].node \in Nodes)
  BY <1>1, WalkFacts
<1>3. run'[w] = None /\ \A v \in Workers : v # w => run'[v] = run[v]
  BY <1>1 DEF Sane, Shape
<1>4. \A d \in Execs : d # e => jobs'[d] = jobs[d]
  BY <1>2 DEF Acknowledge, Crash, Sane, Shape
<1>5. ~(run[w].at = "pause" /\ flow[run[w].node] = "book")
  <2>1. CASE Acknowledge(w)
    BY <2>1 DEF Acknowledge
  <2>2. CASE Crash(w)
    <3>1. setting.faults # 0
      BY <2>2 DEF Crash, Sane, Shape, Counted
    <3>. QED
      BY <1>2, <3>1 DEF ButtonsOnce
  <2>. QED
    BY <2>1, <2>2
<1>6. Alive(e) /\ ~Still
  BY <1>1, WalkIsPatient
<1>7. (\E i \in 1..MaxTaps : Handling(i, "resumed")) =>
        (exec[e].status = "waiting" /\ exec[e].ctx.paused # 0 =>
           flow[exec[e].ctx.paused] # "pick")
  BY <1>1, WalkIsPatient DEF RowPast, AtButtons
<1>8. \A v \in Workers : run'[v] # None /\ run'[v].at = "pause" /\ flow[run'[v].node] = "pick" =>
        tapState'[exec'[run'[v].exec].contact] = run'[v].node
  BY <1>1, <1>3 DEF Patience, ButtonsHeld
<1>. QED
  BY <1>1, <1>2, <1>3, <1>4, <1>5, <1>6, <1>7, <1>8, RowsHeld, PatienceWalk

(* A customer who waits writes or taps when nothing moves.                   *)
LEMMA IdleFacts ==
  ASSUME Sane, Idle
  PROVE  /\ Still /\ \A i \in 1..MaxTaps : ~InFlight(i)
         /\ \A d \in Execs : Alive(d) => exec[d].status = "waiting"
<1>1. Still /\ \A i \in 1..MaxTaps : ~InFlight(i)
  BY DEF Idle, Still, InFlight
<1>2. ASSUME NEW d \in Execs, NEW t \in 0..MaxRetries
      PROVE  ~(jobs[d][t] > 0)
  BY DEF Idle, NoJobs
<1>. QED
  BY <1>1, <1>2 DEF Alive, Still

(* A message leaves nothing waiting, and a job of execution e.               *)
LEMMA PatienceMessage ==
  ASSUME Sane, ButtonsOnce, Patience, Idle, NEW e \in Execs,
         UNCHANGED <<setting, run, tap>>,
         \A d \in Execs : exec'[d].status # "waiting",
         \A d \in Execs : d # e => jobs'[d] = jobs[d],
         \A d \in Execs : exec'[d].status # "none" => exec'[d].contact \in setting.contacts,
         \A c \in Contacts : tapState'[c] \in {0, tapState[c]}
  PROVE  Patience'
<1>1. flow' = flow /\ Nodes' = Nodes
  BY SameWorkflow
<1>2. /\ \A w \in Workers : run'[w] = None
      /\ \A i \in 1..MaxTaps : ~InFlight(i)'
  BY IdleFacts DEF Still, InFlight
<1>3. ASSUME NEW d \in Execs, d # e
      PROVE  ~Alive(d)'
  <2>1. ~\E t \in 0..MaxRetries : jobs'[d][t] > 0
    BY <1>3 DEF Idle, NoJobs
  <2>. QED
    BY <1>2, <2>1 DEF Alive
<1>4. Sole'
  BY <1>3 DEF Sole
<1>5. \A i \in 1..MaxTaps : ~Handling(i, "found")' /\ ~Handling(i, "resumed")'
  BY <1>2 DEF InFlight, Handling
<1>6. TapsInTurn' /\ BehindButtons'
  BY <1>2, <1>5 DEF TapsInTurn, BehindButtons
<1>7. ButtonsHeld'
  BY <1>1, <1>2 DEF Patience, ButtonsHeld
<1>8. OfTheSetting'
  BY <1>2 DEF OfTheSetting
<1>. QED
  BY <1>4, <1>6, <1>7, <1>8 DEF Patience

LEMMA PatienceStarts ==
  ASSUME Sane, ButtonsOnce, Patience, NEW c \in setting.contacts, NEW e \in Execs,
         MessageStarts(c, e)
  PROVE  Patience'
<1>. DEFINE r == [status |-> "pending", contact |-> c, ctx |-> NewContext(messages + 1)]
<1>1. /\ Idle /\ Waiting(c) = {} /\ Enqueue(e) /\ exec' = [exec EXCEPT ![e] = r]
      /\ UNCHANGED <<setting, run, tap, tapState>>
  BY DEF MessageStarts, Arrive, StartExecution, ButtonsOnce
<1>2. r.status = "pending" /\ r.contact = c
  OBVIOUS
<1>. HIDE DEF r
<1>3. exec'[e] = r /\ \A d \in Execs : d # e => exec'[d] = exec[d]
  BY <1>1 DEF Sane, Shape
<1>4. ASSUME NEW d \in Execs, exec[d].status = "waiting"
      PROVE  FALSE
  <2>1. d \in Elements(recent)
    BY <1>4 DEF Sane, RecentIsWaiting
  <2>2. PICK i \in 1..Len(recent) : recent[i] = d
    BY <2>1 DEF Elements
  <2>3. exec[d].contact = c
    BY <1>4 DEF Patience, OfTheSetting, ButtonsOnce
  <2>4. i \in Waiting(c)
    BY <2>2, <2>3 DEF Waiting
  <2>. QED
    BY <1>1, <2>4
<1>5. \A d \in Execs : exec'[d].status # "waiting"
  BY <1>2, <1>3, <1>4
<1>6. \A d \in Execs : exec'[d].status # "none" => exec'[d].contact \in setting.contacts
  BY <1>2, <1>3 DEF Patience, OfTheSetting
<1>7. \A d \in Execs : d # e => jobs'[d] = jobs[d]
  BY <1>1, JobQueued, SettingFacts DEF Sane, Shape
<1>8. \A b \in Contacts : tapState'[b] \in {0, tapState[b]}
  BY <1>1
<1>. QED
  BY <1>1, <1>5, <1>6, <1>7, <1>8, PatienceMessage

LEMMA PatienceRestarts ==
  ASSUME Sane, ButtonsOnce, Patience, NEW c \in setting.contacts, NEW old \in Execs,
         NEW e \in Execs, MessageRestarts(c, old, e)
  PROVE  Patience'
<1>. DEFINE r == [status |-> "pending", contact |-> c, ctx |-> NewContext(messages + 1)]
            gone == [exec[old] EXCEPT !.status = "cancelled"]
<1>1. /\ Idle /\ LatestWaiting(c, old) /\ Enqueue(e)
      /\ exec' = [exec EXCEPT ![old] = gone, ![e] = r]
      /\ tapState' = [tapState EXCEPT ![c] = 0]
      /\ UNCHANGED <<setting, run, tap>>
  BY DEF MessageRestarts, Arrive, StartExecution, ButtonsOnce
<1>2. r.status = "pending" /\ r.contact = c
  OBVIOUS
<1>3. /\ gone.status = "cancelled" /\ gone.contact = exec[old].contact
      /\ exec[old].status = "waiting" /\ exec[old].contact = c
  BY <1>1, LatestIsWaiting DEF Sane, Shape, Row
<1>. HIDE DEF r, gone
<1>4. /\ exec'[e] = r
      /\ \A d \in Execs : d # e => exec'[d] = IF d = old THEN gone ELSE exec[d]
  BY <1>1 DEF Sane, Shape
<1>5. \A d \in Execs : exec[d].status = "waiting" => d = old
  BY <1>3 DEF Patience, Sole, Alive
<1>6. \A d \in Execs : exec'[d].status # "waiting"
  BY <1>2, <1>3, <1>4, <1>5
<1>7. \A d \in Execs : exec'[d].status # "none" => exec'[d].contact \in setting.contacts
  BY <1>2, <1>3, <1>4 DEF Patience, OfTheSetting
<1>8. \A d \in Execs : d # e => jobs'[d] = jobs[d]
  BY <1>1, JobQueued, SettingFacts DEF Sane, Shape
<1>9. \A b \in Contacts : tapState'[b] \in {0, tapState[b]}
  BY <1>1 DEF Sane, Shape
<1>. QED
  BY <1>1, <1>6, <1>7, <1>8, <1>9, PatienceMessage

LEMMA PatienceResumes ==
  ASSUME Sane, ButtonsOnce, Patience, NEW c \in setting.contacts, NEW e \in Execs,
         NEW isImage \in BOOLEAN, MessageResumes(c, e, isImage)
  PROVE  Patience'
<1>. DEFINE ctx == [exec[e].ctx EXCEPT !.message = messages + 1, !.image = isImage,
                                       !.resuming = TRUE]
            r == [exec[e] EXCEPT !.status = "pending", !.ctx = ctx]
<1>1. /\ Idle /\ LatestWaiting(c, e) /\ Enqueue(e) /\ exec' = [exec EXCEPT ![e] = r]
      /\ UNCHANGED <<setting, run, tap, tapState>>
  BY DEF MessageResumes, Arrive, ButtonsOnce
<1>2. exec[e].status = "waiting" /\ exec[e] \in Row
  BY <1>1, LatestIsWaiting DEF Sane, Shape
<1>3. r.status = "pending" /\ r.contact = exec[e].contact
  BY <1>2 DEF Row
<1>. HIDE DEF r
<1>4. exec'[e] = r /\ \A d \in Execs : d # e => exec'[d] = exec[d]
  BY <1>1 DEF Sane, Shape
<1>5. \A d \in Execs : exec[d].status = "waiting" => d = e
  BY <1>2 DEF Patience, Sole, Alive
<1>6. \A d \in Execs : exec'[d].status # "waiting"
  BY <1>3, <1>4, <1>5
<1>7. \A d \in Execs : exec'[d].status # "none" => exec'[d].contact \in setting.contacts
  BY <1>2, <1>3, <1>4 DEF Patience, OfTheSetting
<1>8. \A d \in Execs : d # e => jobs'[d] = jobs[d]
  BY <1>1, JobQueued, SettingFacts DEF Sane, Shape
<1>9. \A b \in Contacts : tapState'[b] \in {0, tapState[b]}
  BY <1>1
<1>. QED
  BY <1>1, <1>6, <1>7, <1>8, <1>9, PatienceMessage

(* What taps do to what taps are.                                            *)
LEMMA TapWritten ==
  ASSUME Sane, NEW i \in 1..MaxTaps, NEW r \in TapRecord, tap' = [tap EXCEPT ![i] = r]
  PROVE  /\ tap'[i] = r /\ \A j \in 1..MaxTaps : j # i => tap'[j] = tap[j]
         /\ \A j \in 1..MaxTaps : j # i => /\ InFlight(j)' <=> InFlight(j)
                                           /\ Handling(j, "found")' <=> Handling(j, "found")
                                           /\ Handling(j, "resumed")' <=> Handling(j, "resumed")
<1>1. tap'[i] = r /\ \A j \in 1..MaxTaps : j # i => tap'[j] = tap[j]
  BY DEF Sane, Shape
<1>. QED
  BY <1>1 DEF InFlight, Handling

(* The option leads on, so nothing waits.                                    *)
LEMMA PatienceEnds ==
  ASSUME Sane, ButtonsOnce, Patience, NEW i \in 1..MaxTaps, NEW c \in Contacts, TapEnds(i, c)
  PROVE  Patience'
<1>. DEFINE r == [at |-> "handled", contact |-> c, exec |-> 1, next |-> 0]
            p == tapState[c]
<1>1. /\ Idle /\ p # 0 /\ tap' = [tap EXCEPT ![i] = r]
      /\ tapState' = [tapState EXCEPT ![c] = 0]
      /\ 0 \in Options(p) \/ WaitingIds = {}
      /\ UNCHANGED <<setting, exec, jobs, run>>
  BY DEF TapEnds, TapArrives, ButtonsOnce
<1>2. r \in TapRecord /\ r.at = "handled"
  BY SettingFacts DEF Sane, Shape, TapRecord
<1>. HIDE DEF r
<1>3. flow' = flow /\ Nodes' = Nodes
  BY <1>1, SameWorkflow
<1>4. WaitingIds = {}
  <2>1. p \in Nodes /\ flow[p] = "pick"
    BY <1>1, SettingFacts DEF Patience, ButtonsHeld, Sane, Shape, Nodes
  <2>2. After(p) = p + 1 /\ p \in 1..Len(flow)
    BY <2>1, PastFacts DEF Nodes
  <2>3. After(p) # 0
    BY <2>2
  <2>. QED
    BY <1>1, <2>3 DEF Options
<1>5. \A d \in Execs : exec[d].status # "waiting"
  BY <1>4 DEF WaitingIds, Sane, RecentIsWaiting, Elements
<1>6. \A j \in 1..MaxTaps : ~InFlight(j)'
  BY <1>1, <1>2, TapWritten, IdleFacts DEF InFlight
<1>7. \A j \in 1..MaxTaps : ~Handling(j, "found")' /\ ~Handling(j, "resumed")'
  BY <1>6 DEF InFlight, Handling
<1>8. \A w \in Workers : run[w] = None
  BY <1>1, IdleFacts DEF Still
<1>9. Sole'
  BY <1>1 DEF Patience, Sole, Alive
<1>10. TapsInTurn' /\ BehindButtons'
  BY <1>6, <1>7 DEF TapsInTurn, BehindButtons
<1>11. \A b \in Contacts : tapState'[b] \in {0, tapState[b]}
  BY <1>1 DEF Sane, Shape
<1>12. ButtonsHeld'
  BY <1>1, <1>3, <1>5, <1>8, <1>11 DEF Patience, ButtonsHeld
<1>13. OfTheSetting'
  BY <1>1 DEF Patience, OfTheSetting
<1>. QED
  BY <1>9, <1>10, <1>12, <1>13 DEF Patience

(* The buttons lead to the node behind them.                                 *)
LEMMA PatienceFinds ==
  ASSUME Sane, ButtonsOnce, Patience, NEW i \in 1..MaxTaps, NEW c \in Contacts, TapFinds(i, c)
  PROVE  Patience'
<1>. DEFINE p == tapState[c]
<1>1. PICK e \in Execs, n \in Options(p) \ {0} :
        /\ NewestWaiting(e)
        /\ tap' = [tap EXCEPT ![i] = [at |-> "found", contact |-> c, exec |-> e, next |-> n]]
  BY DEF TapFinds
<1>. DEFINE r == [at |-> "found", contact |-> c, exec |-> e, next |-> n]
<1>2. Idle /\ p # 0 /\ UNCHANGED <<setting, exec, jobs, run, tapState>>
  BY DEF TapFinds, TapArrives, ButtonsOnce
<1>3. p \in Nodes /\ flow[p] = "pick"
  BY <1>2, SettingFacts DEF Patience, ButtonsHeld, Sane, Shape, Nodes
<1>4. n = p + 1 /\ Past(flow, n)
  <2>1. After(p) = p + 1 /\ Past(flow, p + 1)
    BY <1>3, PastFacts
  <2>2. ASSUME NEW m \in 1..(p - 1), flow[m] = "pick"
        PROVE  FALSE
    <3>1. p \in 1..Len(flow) /\ Len(flow) \in Nat /\ Nodes = 1..Len(flow)
      BY <1>3, SettingFacts DEF Sane, Shape, Nodes
    <3>2. m \in Nodes /\ m # p
      BY <3>1
    <3>. QED
      BY <1>3, <2>2, <3>2 DEF ButtonsOnce
  <2>. QED
    BY <2>1, <2>2 DEF Options
<1>5. n \in 0..Len(flow)
  <2>1. n = After(p)
    BY <1>3, <1>4, PastFacts
  <2>. QED
    BY <1>3, <2>1, SettingFacts DEF Sane, Shape
<1>6. r \in TapRecord /\ r.at = "found" /\ r.exec = e /\ r.next = n
  BY <1>5 DEF TapRecord
<1>7. exec[e].status = "waiting"
  BY <1>1 DEF NewestWaiting, WaitingIds, Sane, RecentIsWaiting, Elements
<1>8. tap' = [tap EXCEPT ![i] = r]
  BY <1>1
<1>. HIDE DEF r
<1>9. flow' = flow /\ Nodes' = Nodes
  BY <1>2, SameWorkflow
<1>10. \A j \in 1..MaxTaps : j # i => ~InFlight(j)'
  BY <1>2, <1>6, <1>8, TapWritten, IdleFacts
<1>11. \A j \in 1..MaxTaps : ~Handling(j, "resumed")' /\ (Handling(j, "found")' => j = i)
  <2>1. tap'[i].at = "found"
    BY <1>6, <1>8, TapWritten
  <2>. QED
    BY <1>10, <2>1 DEF InFlight, Handling
<1>12. Still'
  BY <1>2, IdleFacts DEF Still, NoJobs
<1>13. TapsInTurn'
  <2>1. tap'[i].exec = e /\ tap'[i].next = n
    BY <1>6, <1>8, TapWritten
  <2>2. n # 0
    OBVIOUS
  <2>. QED
    BY <1>2, <1>4, <1>7, <1>9, <1>10, <1>11, <1>12, <2>1, <2>2 DEF TapsInTurn
<1>14. BehindButtons'
  BY <1>11 DEF BehindButtons
<1>15. Sole' /\ ButtonsHeld' /\ OfTheSetting'
  BY <1>2, <1>9 DEF Patience, Sole, Alive, ButtonsHeld, AtButtons, OfTheSetting
<1>. QED
  BY <1>13, <1>14, <1>15 DEF Patience

(* The execution that goes on is the only one that anything can happen to,   *)
(* and goes on behind the buttons.                                           *)
LEMMA PatienceTapResumes ==
  ASSUME Sane, ButtonsOnce, Patience, NEW i \in 1..MaxTaps, NEW slotTaken \in BOOLEAN,
         TapResumes(i, slotTaken)
  PROVE  Patience'
<1>. DEFINE e == tap[i].exec
            ctx == [exec[e].ctx EXCEPT !.tapped = TRUE, !.resuming = TRUE, !.paused = 0,
                                       !.resumeAt = tap[i].next, !.taken = slotTaken]
            row == [exec[e] EXCEPT !.status = "running", !.ctx = ctx]
            r == [tap[i] EXCEPT !.at = "resumed"]
<1>1. /\ Handling(i, "found") /\ exec' = [exec EXCEPT ![e] = row] /\ Enqueue(e)
      /\ tap' = [tap EXCEPT ![i] = r] /\ UNCHANGED <<setting, run, tapState>>
  BY DEF TapResumes
<1>2. tap[i] \in TapRecord /\ e \in Execs /\ exec[e] \in Row
  <2>1. tap[i] \in TapRecord
    BY <1>1 DEF Handling, Sane, Shape
  <2>. QED
    BY <2>1 DEF TapRecord, Sane, Shape
<1>3. /\ Still /\ exec[e].status = "waiting" /\ tap[i].next # 0 /\ Past(flow, tap[i].next)
      /\ \A j \in 1..MaxTaps : j # i => ~InFlight(j)
  <2>1. InFlight(i)
    BY <1>1 DEF Handling, InFlight
  <2>. QED
    BY <1>1, <2>1 DEF Patience, TapsInTurn
<1>4. r \in TapRecord /\ r.at = "resumed"
  BY <1>2 DEF TapRecord
<1>5. exec[e].ctx \in Context
  BY <1>2 DEF Row
<1>6. ctx.tapped /\ ctx.resumeAt = tap[i].next
  BY <1>5 DEF Context
<1>7. row.status = "running" /\ row.ctx = ctx /\ row.contact = exec[e].contact
  BY <1>2 DEF Row
<1>8. exec'[e] = row /\ \A d \in Execs : d # e => exec'[d] = exec[d]
  BY <1>1, <1>2 DEF Sane, Shape
<1>. HIDE DEF row, ctx, r
<1>9. flow' = flow /\ Nodes' = Nodes
  BY <1>1, SameWorkflow
<1>10. \A d \in Execs : d # e => jobs'[d] = jobs[d]
  BY <1>1, <1>2, JobQueued, SettingFacts DEF Sane, Shape
<1>11. \A w \in Workers : run'[w] = None
  BY <1>1, <1>3 DEF Still
<1>12. \A d \in Execs : exec'[d].status # "waiting"
  BY <1>2, <1>3, <1>7, <1>8 DEF Patience, Sole, Alive
<1>13. ASSUME NEW d \in Execs, d # e
       PROVE  ~Alive(d)'
  <2>1. ~\E t \in 0..MaxRetries : jobs'[d][t] > 0
    BY <1>3, <1>10, <1>13 DEF Still, NoJobs
  <2>. QED
    BY <1>11, <1>12, <2>1 DEF Alive
<1>14. Sole'
  BY <1>13 DEF Sole
<1>15. /\ \A j \in 1..MaxTaps : InFlight(j)' => j = i
       /\ \A j \in 1..MaxTaps : ~Handling(j, "found")'
  <2>1. /\ tap'[i].at = "resumed"
        /\ \A j \in 1..MaxTaps : j # i => ~InFlight(j)'
    BY <1>1, <1>3, <1>4, TapWritten
  <2>. QED
    BY <2>1 DEF InFlight, Handling
<1>16. TapsInTurn'
  BY <1>15 DEF TapsInTurn
<1>17. GoesOnPast(flow, exec'[e].ctx)
  BY <1>3, <1>6, <1>7, <1>8 DEF GoesOnPast
<1>18. \A d \in Execs : RowPast(d)'
  BY <1>9, <1>12, <1>13, <1>17 DEF RowPast
<1>19. BehindButtons'
  BY <1>11, <1>18 DEF BehindButtons
<1>20. ButtonsHeld'
  BY <1>1, <1>9, <1>11, <1>12 DEF Patience, ButtonsHeld
<1>21. OfTheSetting'
  <2>1. \A d \in Execs : exec'[d].status # "none" => exec'[d].contact \in setting.contacts
    BY <1>2, <1>3, <1>7, <1>8 DEF Patience, OfTheSetting
  <2>. QED
    BY <1>1, <1>11, <2>1 DEF OfTheSetting
<1>. QED
  BY <1>14, <1>16, <1>19, <1>20, <1>21 DEF Patience

(* The buttons that are cleared are nobody's any more: what moves and what   *)
(* waits is behind them.                                                     *)
LEMMA PatienceClears ==
  ASSUME Sane, ButtonsOnce, Patience, NEW i \in 1..MaxTaps, TapClears(i)
  PROVE  Patience'
<1>. DEFINE r == [tap[i] EXCEPT !.at = "handled"]
            c == tap[i].contact
<1>1. /\ Handling(i, "resumed") /\ tapState' = [tapState EXCEPT ![c] = 0]
      /\ tap' = [tap EXCEPT ![i] = r] /\ UNCHANGED <<setting, exec, jobs, run>>
  BY DEF TapClears
<1>2. tap[i] \in TapRecord
  BY <1>1 DEF Handling, Sane, Shape
<1>3. r \in TapRecord /\ r.at = "handled" /\ c \in Contacts
  BY <1>2 DEF TapRecord
<1>. HIDE DEF r, c
<1>4. flow' = flow /\ Nodes' = Nodes
  BY <1>1, SameWorkflow
<1>5. /\ \A d \in Execs : RowPast(d)
      /\ \A w \in Workers : run[w] # None => WalkPast(flow, run[w])
  BY <1>1 DEF Patience, BehindButtons
<1>6. \A d \in Execs : exec[d].status = "waiting" => ~AtButtons(d)
  BY <1>5 DEF RowPast
<1>7. \A w \in Workers : run[w] # None /\ run[w].at = "pause" => flow[run[w].node] # "pick"
  BY <1>5, PastFacts, WalkFacts DEF WalkPast
<1>8. \A j \in 1..MaxTaps : j # i => ~InFlight(j)
  <2>1. InFlight(i)
    BY <1>1 DEF Handling, InFlight
  <2>. QED
    BY <2>1 DEF Patience, TapsInTurn
<1>9. \A j \in 1..MaxTaps : ~InFlight(j)'
  BY <1>1, <1>3, <1>8, TapWritten DEF InFlight
<1>10. \A j \in 1..MaxTaps : ~Handling(j, "found")' /\ ~Handling(j, "resumed")'
  BY <1>9 DEF InFlight, Handling
<1>11. TapsInTurn' /\ BehindButtons'
  BY <1>9, <1>10 DEF TapsInTurn, BehindButtons
<1>12. \A b \in Contacts : tapState'[b] \in {0, tapState[b]}
  BY <1>1, <1>3 DEF Sane, Shape
<1>13. ButtonsHeld'
  BY <1>1, <1>4, <1>6, <1>7, <1>12 DEF Patience, ButtonsHeld, AtButtons
<1>14. Sole' /\ OfTheSetting'
  BY <1>1 DEF Patience, Sole, Alive, OfTheSetting
<1>. QED
  BY <1>11, <1>13, <1>14 DEF Patience

LEMMA PatienceInit == Init => Patience
<1>. SUFFICES ASSUME Init
              PROVE  Patience
  OBVIOUS
<1>1. NoExec.status = "none"
  BY DEF NoExec
<1>2. /\ \A e \in Execs : exec[e].status = "none" /\ \A t \in 0..MaxRetries : jobs[e][t] = 0
      /\ \A w \in Workers : run[w] = None
      /\ \A i \in 1..MaxTaps : tap[i] = None
      /\ \A c \in Contacts : tapState[c] = 0
  BY <1>1 DEF Init
<1>3. \A e \in Execs : ~Alive(e)
  BY <1>2 DEF Alive
<1>4. \A i \in 1..MaxTaps : ~InFlight(i) /\ ~Handling(i, "found") /\ ~Handling(i, "resumed")
  BY <1>2 DEF InFlight, Handling
<1>. QED
  BY <1>2, <1>3, <1>4 DEF Patience, Sole, TapsInTurn, BehindButtons, ButtonsHeld, OfTheSetting

LEMMA ButtonsStep == Sane /\ Sane' /\ ButtonsInv /\ [Next]_vars => ButtonsInv'
<1>. SUFFICES ASSUME Sane, ButtonsInv, [Next]_vars
              PROVE  ButtonsInv'
  OBVIOUS
<1>1. setting.contacts \subseteq Contacts
  BY SettingFacts DEF Sane, Shape
<1>2. CASE UNCHANGED vars
  BY <1>2 DEF vars, ButtonsInv, ButtonsOnce, Patience, Sole, Alive, TapsInTurn, InFlight, Handling,
     Still, NoJobs, BehindButtons, RowPast, Overridden, AtButtons, ButtonsHeld, OfTheSetting, flow,
     Nodes
<1>3. CASE Next
  <2>1. setting' = setting
    BY <1>3, SettingKept
  <2>2. ButtonsOnce' <=> ButtonsOnce
    BY <2>1, SameWorkflow DEF ButtonsOnce
  <2>3. ASSUME ButtonsOnce
        PROVE  Patience'
    <3>1. Patience
      BY <2>3 DEF ButtonsInv
    <3>2. CASE Customer
      <4>1. PICK c \in setting.contacts :
              \/ \E e \in Execs : \/ MessageStarts(c, e)
                                 \/ \E old \in Execs : MessageRestarts(c, old, e)
                                 \/ \E isImage \in BOOLEAN : MessageResumes(c, e, isImage)
              \/ \E i \in 1..MaxTaps : TapEnds(i, c) \/ TapFinds(i, c)
        BY <3>2 DEF Customer
      <4>. QED
        BY <1>1, <2>3, <3>1, <4>1, PatienceStarts, PatienceRestarts, PatienceResumes,
           PatienceEnds, PatienceFinds
    <3>3. ASSUME NEW i \in 1..MaxTaps, Webhook(i)
          PROVE  Patience'
      BY <2>3, <3>1, <3>3, PatienceTapResumes, PatienceClears DEF Webhook
    <3>4. ASSUME NEW w \in Workers, Begin(w) \/ Continue(w) \/ FailNode(w) \/ Crash(w)
          PROVE  Patience'
      <4>1. CASE Begin(w)
        BY <2>3, <3>1, <4>1, PatienceBegin DEF Begin
      <4>2. CASE Continue(w)
        BY <2>3, <3>1, <4>2, PatiencePassing, PatienceInput, PatienceScreenshot, PatienceButtons,
           PatienceDelay, PatienceConflict, PatiencePause, PatienceComplete, PatienceFree
           DEF Continue
      <4>3. CASE FailNode(w) \/ Crash(w)
        BY <2>3, <3>1, <4>3, PatienceFail, PatienceFree
      <4>. QED
        BY <3>4, <4>1, <4>2, <4>3
    <3>. QED
      BY <1>3, <3>2, <3>3, <3>4 DEF Next
  <2>. QED
    BY <2>1, <2>2, <2>3 DEF ButtonsInv
<1>. QED
  BY <1>2, <1>3

(* A patient customer, one node with buttons, which leads on, delays that    *)
(* lead on, and, where slots are booked, one worker and no faults: with any  *)
(* number of workers, crashes, retries, messages and taps otherwise, an      *)
(* execution that waits at buttons can be moved on by its contact.           *)
THEOREM HeldButtonsWork == Spec => [](ButtonsOnce => ButtonsWork)
<1>1. ButtonsInv => (ButtonsOnce => ButtonsWork)
  BY DEF ButtonsInv, Patience, ButtonsHeld, ButtonsWork
<1>2. Init => ButtonsInv
  BY PatienceInit DEF ButtonsInv
<1>. QED
  BY <1>1, <1>2, AlwaysSane, ButtonsStep, PTL DEF Spec

=============================================================================
