------------------------ MODULE CareerAssistantProofs ------------------------
(***************************************************************************)
(* What holds of the career assistant for any settings, questions, lists   *)
(* and numbers of workers: the types; that one resume is the master; that  *)
(* a profile that counts as complete has its answers; that an interview is *)
(* kept; and that an application is to the job the seeker saw.             *)
(***************************************************************************)
EXTENDS CareerAssistant, FiniteSetTheorems, WellFoundedInduction, TLAPS

-----------------------------------------------------------------------------
(* The types, and who may have what in hand.                                 *)

(* A set of numbers has a least one.                                         *)
LEMMA LeastNumber ==
  ASSUME NEW T \in SUBSET Nat, T # {}
  PROVE  \E x \in T : \A y \in T : x <= y
<1>. DEFINE R == OpToRel(<, Nat)
<1>1. IsWellFoundedOn(R, Nat)
  BY NatLessThanWellFounded
<1>2. \A x, y \in Nat : y < x => <<y, x>> \in R
  BY DEF OpToRel
<1>. HIDE DEF R
<1>3. PICK x \in T : \A y \in T : ~(<<y, x>> \in R)
  BY <1>1, WFMin
<1>4. \A y \in T : ~(y < x)
  BY <1>2, <1>3
<1>5. \A y \in T : x <= y
  BY <1>4
<1>. QED
  BY <1>5

-----------------------------------------------------------------------------
(* What is under way is about a profile that was made, and in the hands of   *)
(* who may have it.                                                          *)
May(w, a) ==
  /\ a.row.id <= created
  /\ a.at \in {"list", "present", "send", "sent"} => a.list \in Lists
  /\ w \in Chats =>
       /\ w \in setting.chats /\ a.at \in ChatSteps /\ a.word \in setting.words
       /\ a.at \in {"reset", "restart"} => a.word = "reset"
       /\ a.at = "resume" => a.word = "resume"
       /\ a.at = "cover" => a.word = "cover"
       /\ a.at = "score" => a.n <= Rounds
  /\ w \in Tasks =>
       \/ /\ a.word = "parse_resume"
          /\ a.at \in ReadSteps \cup FillSteps \cup {"queued"}
          /\ a.at \in FillSteps => ~setting.confirm
       \/ /\ a.word = "generate_cover_letter"
          /\ a.at \in {"queued", "letter", "learn"}
          /\ "cover" \in setting.words
  /\ w \in Senders =>
       w \in setting.senders /\ a.at \in {"send", "sent"} /\ a.word = "alert"

WellFormed ==
  /\ TypeOK
  /\ seeker.id <= created
  /\ \A w \in Workers : work[w] # Idle => May(w, work[w])

(* One worker moves.                                                         *)
LEMMA Moves ==
  ASSUME WellFormed, NEW w \in Workers, NEW x,
         x = Idle \/ (x \in Activity /\ May(w, x)),
         work' = [work EXCEPT ![w] = x], setting' = setting, created' = created
  PROVE  /\ work' \in [Workers -> Activity \cup {Idle}]
         /\ \A v \in Workers : work'[v] # Idle => May(v, work[v])'
<1>1. work \in [Workers -> Activity \cup {Idle}] /\ work'[w] = x
      /\ \A v \in Workers : v # w => work'[v] = work[v]
  BY DEF WellFormed, TypeOK
<1>2. ASSUME NEW v \in Workers, work'[v] # Idle
      PROVE  May(v, work[v])'
  <2>1. CASE v = w
    BY <1>1, <1>2, <2>1 DEF May
  <2>2. CASE v # w
    BY <1>1, <1>2, <2>2 DEF May, WellFormed
  <2>. QED
    BY <2>1, <2>2
<1>. QED
  BY <1>1, <1>2

Works == Words \cup {"parse_resume", "generate_cover_letter", "alert"}

(* What an activity is made of.                                              *)
LEMMA Parts ==
  /\ \A a \in Activity :
       /\ \A s \in Places : [a EXCEPT !.at = s] \in Activity
       /\ \A s \in Places, r \in Profile : [a EXCEPT !.at = s, !.row = r] \in Activity
       /\ \A s \in Places, n \in 1 .. Rounds + 2 : [a EXCEPT !.at = s, !.n = n] \in Activity
       /\ \A s \in Places, n \in 0 .. Retries : [a EXCEPT !.at = s, !.tries = n] \in Activity
       /\ \A s \in Places, l \in Seq(Jobs) : [a EXCEPT !.at = s, !.list = l] \in Activity
       /\ \A s \in Places, r \in Review : [a EXCEPT !.at = s, !.review = r] \in Activity
  /\ \A s \in Places, d \in Works, r \in Profile : Starting(s, d, r) \in Activity
<1>1. \A s \in Places, d \in Works, r \in Profile : Starting(s, d, r) \in Activity
  <2>1. 1 \in 1 .. Rounds + 2 /\ 0 \in 0 .. Retries /\ <<>> \in Seq(Jobs) /\ NoReview \in Review
    BY CareerConstants DEF NoReview, Review
  <2>. QED
    BY <2>1 DEF Starting, Activity, Works
<1>. QED
  BY <1>1 DEF Activity

(* The rest of the state stays typed, and no profile is made.                *)
Rest ==
  /\ setting' = setting /\ created' = created
  /\ seeker' \in Profile /\ seeker'.id <= created
  /\ masters' \in Nat /\ matched' \subseteq Jobs /\ shown' \in Lists \cup {<<>>}
  /\ troubles' \in 0 .. MaxTroubles

(* A worker is done.                                                         *)
LEMMA WorkerEnds ==
  ASSUME WellFormed, Rest, NEW w \in Workers, Done(w)
  PROVE  WellFormed'
<1>1. work' \in [Workers -> Activity \cup {Idle}]
  BY DEF Done, WellFormed, TypeOK
<1>2. ASSUME NEW v \in Workers, work'[v] # Idle
      PROVE  May(v, work[v])'
  <2>1. work'[v] = work[v]
    BY <1>2 DEF Done, WellFormed, TypeOK
  <2>. QED
    BY <1>2, <2>1 DEF May, Rest, WellFormed
<1>. QED
  BY <1>1, <1>2 DEF WellFormed, TypeOK, Rest

(* A worker goes on.                                                         *)
LEMMA WorkerGoes ==
  ASSUME WellFormed, Rest, NEW w \in Workers, NEW a \in Activity,
         work' = [work EXCEPT ![w] = a], May(w, a)
  PROVE  WellFormed'
<1>1. /\ work' \in [Workers -> Activity \cup {Idle}]
      /\ \A v \in Workers : work'[v] # Idle => May(v, work[v])'
  BY Moves DEF Rest
<1>. QED
  BY <1>1 DEF WellFormed, TypeOK, Rest

(* Where a chat, a task or a sender may go from where it is.                 *)
LEMMA MayGo ==
  ASSUME WellFormed, NEW w \in Workers, work[w] # Idle, NEW a,
         a.word = work[w].word, a.row.id <= created,
         a.at \in {"list", "present", "send", "sent"} => a.list \in Lists,
         \/ w \in Chats /\ a.at \in ChatSteps \ {"reset", "restart", "resume", "cover", "score"}
         \/ w \in Tasks /\ a.at \in ReadSteps \cup {"queued"}
            /\ work[w].word = "parse_resume"
         \/ w \in Tasks /\ a.at \in FillSteps /\ work[w].word = "parse_resume"
            /\ ~setting.confirm
         \/ w \in Tasks /\ a.at \in {"queued", "letter", "learn"}
            /\ work[w].word = "generate_cover_letter"
         \/ w \in Senders /\ a.at \in {"send", "sent"}
  PROVE  May(w, a)
BY CareerConstants DEF May, WellFormed, ChatSteps, ReadSteps, FillSteps, Workers

(* What the invariant says of the rows and of who is at work.                *)
LEMMA Typed ==
  ASSUME WellFormed
  PROVE  /\ setting \in Setting /\ seeker \in Profile /\ masters \in Nat
         /\ matched \subseteq Jobs /\ shown \in Lists \cup {<<>>}
         /\ created \in Nat /\ created <= MaxProfiles /\ troubles \in 0 .. MaxTroubles
         /\ seeker.id <= created /\ seeker.id \in 0 .. MaxProfiles
         /\ \A w \in Workers : work[w] # Idle =>
              /\ work[w] \in Activity /\ work[w].row \in Profile /\ May(w, work[w])
              /\ work[w].row.id <= created /\ work[w].at \in Places
              /\ work[w].word \in Works
BY CareerConstants DEF Works, WellFormed, TypeOK, Activity, May, Profile

(* Rows a handler writes.                                                    *)
LEMMA Rows ==
  /\ NoData \in Data /\ NoProfile \in Profile /\ NoSession \in Session
  /\ \A n \in 0 .. MaxProfiles : NewProfile(n) \in Profile /\ NewProfile(n).id = n
  /\ \A r \in Profile :
       /\ \A s \in Steps : [r EXCEPT !.step = s] \in Profile
       /\ \A d \in Data : [r EXCEPT !.data = d] \in Profile
<1>1. NoReview \in Review /\ NoSession \in Session /\ <<>> \in Lists \cup {<<>>}
  BY CareerConstants DEF NoReview, Review, NoSession, Session
<1>2. NoData \in Data
  BY <1>1, CareerConstants DEF NoData, Data
<1>3. \A n \in 0 .. MaxProfiles : NewProfile(n) \in Profile /\ NewProfile(n).id = n
  BY <1>2 DEF NewProfile, Profile, Steps
<1>4. NoProfile \in Profile
  BY <1>3, CareerConstants DEF NoProfile
<1>. QED
  BY <1>1, <1>2, <1>3, <1>4 DEF Profile

(* Values of the column a handler writes.                                    *)
LEMMA Columns ==
  /\ \A d \in Data :
       /\ \A b \in BOOLEAN : /\ [d EXCEPT !.reuploadPending = b] \in Data
                             /\ [d EXCEPT !.experience = b] \in Data
       /\ \A r \in Review : [d EXCEPT !.parseReview = r] \in Data
       /\ \A s \in Session : [d EXCEPT !.session = s] \in Data
       /\ \A s \in Session, n \in 0 .. MaxInterviews :
            [d EXCEPT !.session = s, !.history = n] \in Data
       /\ \A l \in Lists : Listed(d, l) \in Data
<1>1. \A l \in Lists : RangeOf(l) \subseteq Jobs
  BY CareerConstants DEF RangeOf
<1>. QED
  BY <1>1 DEF Data, Listed

LEMMA ListsOfJobs ==
  /\ \A l \in Lists \cup {<<>>} : l \in Seq(Jobs)
  /\ \A l \in Lists \cup {<<>>} : RangeOf(l) \subseteq Jobs
<1>1. Lists \subseteq Seq(Jobs)
  BY CareerConstants
<1>2. \A l \in Lists \cup {<<>>} : l \in Seq(Jobs)
  <2>1. <<>> \in Seq(Jobs)
    OBVIOUS
  <2>. QED
    BY <1>1, <2>1
<1>. QED
  BY <1>2 DEF RangeOf

LEMMA QuestionSteps ==
  /\ \A q \in Asked : After(q) \in Steps
  /\ \A r : FirstOpen(r) \in Steps
  /\ Questions[1] \in Asked /\ Asked \subseteq Steps
<1>1. \A i \in 1 .. Len(Questions) : Questions[i] \in Asked
  BY DEF Asked
<1>2. ASSUME NEW q \in Asked
      PROVE  After(q) \in Steps
  <2>. DEFINE i == CHOOSE i \in 1 .. Len(Questions) : Questions[i] = q
  <2>1. i \in 1 .. Len(Questions)
    BY DEF Asked
  <2>2. CASE i = Len(Questions)
    BY <2>2 DEF After, Steps
  <2>3. CASE i # Len(Questions)
    <3>1. i + 1 \in 1 .. Len(Questions)
      BY <2>1, <2>3, CareerConstants
    <3>. QED
      BY <1>1, <2>3, <3>1 DEF After, Steps
  <2>. QED
    BY <2>2, <2>3
<1>3. Questions[1] \in Asked
  <2>1. 1 \in 1 .. Len(Questions)
    BY CareerConstants
  <2>. QED
    BY <1>1, <2>1
<1>4. ASSUME NEW r
      PROVE  FirstOpen(r) \in Steps
  <2>. DEFINE open == {i \in 1 .. Len(Questions) : ~Answered(r, Questions[i])}
              i == CHOOSE i \in open : \A k \in open : i <= k
  <2>1. CASE open = {}
    BY <2>1 DEF FirstOpen, Steps
  <2>2. CASE open # {}
    <3>1. PICK k \in open : \A j \in open : k <= j
      <4>1. \A n \in open : n \in Nat
        OBVIOUS
      <4>. QED
        BY <2>2, <4>1, LeastNumber
    <3>2. i \in open
      BY <3>1
    <3>3. Questions[i] \in Steps
      BY <1>1, <3>2 DEF Steps
    <3>. QED
      BY <2>2, <3>3 DEF FirstOpen
  <2>. QED
    BY <2>1, <2>2
<1>. QED
  BY <1>2, <1>3, <1>4 DEF Steps

(* A chat says something and is done.                                        *)
LEMMA ChatStops ==
  ASSUME WellFormed, NEW c \in Chats,
         \/ SetOptOut(c) \/ Delete(c) \/ AskAgain(c) \/ MoveOn(c) \/ ReviewExpired(c)
         \/ ReviewHelp(c) \/ AwaitResume(c) \/ Help(c) \/ StartInterview(c)
         \/ BeginSession(c) \/ FinishSession(c) \/ CancelSession(c) \/ PromptSession(c)
  PROVE  WellFormed'
<1>. c \in Workers
  BY DEF Workers
<1>0. /\ setting \in Setting /\ seeker \in Profile /\ masters \in Nat
      /\ matched \subseteq Jobs /\ shown \in Lists \cup {<<>>} /\ created \in Nat
      /\ troubles \in 0 .. MaxTroubles /\ seeker.id <= created /\ 0 <= created
      /\ seeker.data \in Data /\ seeker.id \in Nat
  BY Typed DEF Profile
<1>1. CASE SetOptOut(c)
  <2>1. seeker' = [seeker EXCEPT !.digestOptOut = work[c].word = "stop"]
    BY <1>1 DEF SetOptOut
  <2>2. seeker' \in Profile /\ seeker'.id = seeker.id
    BY <1>0, <2>1 DEF Profile
  <2>3. Rest /\ Done(c)
    BY <1>0, <1>1, <2>2 DEF SetOptOut, OnlySeeker, Rest, jobs, counts
  <2>. QED
    BY <2>3, WorkerEnds
<1>2. CASE Delete(c)
  <2>1. seeker' \in Profile /\ seeker'.id = 0
    BY <1>2, Rows, CareerConstants DEF Delete, NoProfile
  <2>2. Rest /\ Done(c)
    BY <1>0, <1>2, <2>1 DEF Delete, Rest, counts
  <2>. QED
    BY <2>2, WorkerEnds
<1>3. CASE AskAgain(c) \/ ReviewHelp(c) \/ Help(c) \/ PromptSession(c)
  <2>1. Nothing /\ Done(c)
    BY <1>3 DEF AskAgain, ReviewHelp, Help, PromptSession
  <2>2. Rest
    BY <1>0, <2>1 DEF Nothing, OnlySeeker, Rest, jobs, counts
  <2>. QED
    BY <2>1, <2>2, WorkerEnds
<1>4. CASE MoveOn(c) \/ ReviewExpired(c)
  <2>1. \/ seeker' = [seeker EXCEPT !.step = "awaiting_resume"]
        \/ seeker' = [seeker EXCEPT !.step = Questions[1]]
    BY <1>4 DEF MoveOn, ReviewExpired
  <2>2. "awaiting_resume" \in Steps /\ Questions[1] \in Steps
    BY QuestionSteps DEF Steps
  <2>3. seeker' \in Profile /\ seeker'.id = seeker.id
    BY <1>0, <2>1, <2>2 DEF Profile
  <2>4. Rest /\ Done(c)
    BY <1>0, <1>4, <2>3 DEF MoveOn, ReviewExpired, OnlySeeker, Rest, jobs, counts
  <2>. QED
    BY <2>4, WorkerEnds
<1>5. CASE AwaitResume(c)
  <2>1. seeker' = [seeker EXCEPT !.data = [@ EXCEPT !["reuploadPending"] = TRUE]]
    BY <1>5 DEF AwaitResume, Merge
  <2>2. [seeker.data EXCEPT !.reuploadPending = TRUE] \in Data
    BY <1>0, Columns
  <2>3. seeker' \in Profile /\ seeker'.id = seeker.id
    BY <1>0, <2>1, <2>2 DEF Profile
  <2>4. Rest /\ Done(c)
    BY <1>0, <1>5, <2>3 DEF AwaitResume, OnlySeeker, Rest, jobs, counts
  <2>. QED
    BY <2>4, WorkerEnds
<1>6. CASE StartInterview(c) \/ BeginSession(c) \/ CancelSession(c)
  <2>1. \/ \E s \in Session : seeker' = [seeker EXCEPT !.data = [@ EXCEPT !["session"] = s]]
        \/ seeker' = seeker
    <3>1. /\ [stage |-> "choosing_type", answers |-> 0] \in Session
          /\ [stage |-> "active", answers |-> 0] \in Session /\ NoSession \in Session
      BY CareerConstants DEF Session, NoSession
    <3>. QED
      BY <1>6, <3>1 DEF StartInterview, BeginSession, CancelSession, Merge
  <2>2. \A s \in Session : [seeker.data EXCEPT !.session = s] \in Data
    BY <1>0, Columns
  <2>3. seeker' \in Profile /\ seeker'.id = seeker.id
    BY <1>0, <2>1, <2>2 DEF Profile
  <2>4. Rest /\ Done(c)
    BY <1>0, <1>6, <2>3, CareerConstants
       DEF StartInterview, BeginSession, CancelSession, OnlySeeker, Rest, jobs, counts, Trouble
  <2>. QED
    BY <2>4, WorkerEnds
<1>7. CASE FinishSession(c)
  <2>. DEFINE h == IF seeker.data.history < MaxInterviews THEN seeker.data.history + 1
                   ELSE seeker.data.history
              d == [seeker.data EXCEPT !.session = NoSession, !.history = h]
  <2>1. seeker' = [seeker EXCEPT !.data = d]
    BY <1>7 DEF FinishSession
  <2>2. h \in 0 .. MaxInterviews
    BY <1>0, CareerConstants DEF Data
  <2>3. d \in Data
    <3>. HIDE DEF h
    <3>. QED
      BY <1>0, <2>2, Rows, Columns
  <2>5. seeker' \in Profile /\ seeker'.id = seeker.id
    <3>. HIDE DEF d
    <3>. QED
      BY <1>0, <2>1, <2>3 DEF Profile
  <2>4. Rest /\ Done(c)
    BY <1>0, <1>7, <2>5 DEF FinishSession, OnlySeeker, Rest, jobs, counts
  <2>. QED
    BY <2>4, WorkerEnds
<1>. QED
  BY <1>1, <1>2, <1>3, <1>4, <1>5, <1>6, <1>7

(* A chat goes on.                                                           *)
LEMMA ChatGoes ==
  ASSUME WellFormed, Rest, NEW c \in Chats, work[c] # Idle, NEW a \in Activity,
         work' = [work EXCEPT ![c] = a],
         a.word = work[c].word, a.row.id <= created,
         a.at \in {"list", "present", "send", "sent"} => a.list \in Lists,
         a.at \in ChatSteps \ {"reset", "restart", "resume", "cover", "score"}
  PROVE  WellFormed'
<1>1. c \in Workers
  BY DEF Workers
<1>2. May(c, a)
  BY <1>1, MayGo
<1>. QED
  BY <1>1, <1>2, WorkerGoes

(* A chat leaves a task behind.                                              *)
LEMMA ChatEnqueues ==
  ASSUME WellFormed, Rest, NEW c \in Chats, NEW a \in Activity, Enqueue(c, a),
         a.row.id <= created, a.at = "queued",
         \/ a.word = "parse_resume"
         \/ a.word = "generate_cover_letter" /\ "cover" \in setting.words
  PROVE  WellFormed'
<1>1. PICK t \in Tasks : work' = [work EXCEPT ![t] = a, ![c] = Idle]
  <2>. DEFINE free == {t \in Tasks : work[t] = Idle}
  <2>1. free # {} /\ work' = [work EXCEPT ![CHOOSE t \in free : TRUE] = a, ![c] = Idle]
    BY DEF Enqueue
  <2>2. (CHOOSE t \in free : TRUE) \in Tasks
    BY <2>1
  <2>. QED
    BY <2>1, <2>2
<1>2. c \in Workers /\ t \in Workers /\ t # c /\ t \notin Senders /\ t \notin Chats
  BY CareerConstants DEF Workers
<1>3. /\ work' \in [Workers -> Activity \cup {Idle}]
      /\ work'[c] = Idle /\ work'[t] = a
      /\ \A v \in Workers : v # c /\ v # t => work'[v] = work[v]
  BY <1>1, <1>2 DEF WellFormed, TypeOK
<1>4. May(t, a)
  BY <1>2, CareerConstants DEF May, ReadSteps, FillSteps
<1>5. ASSUME NEW v \in Workers, work'[v] # Idle
      PROVE  May(v, work[v])'
  <2>1. CASE v = t
    BY <1>3, <1>4, <2>1 DEF May, Rest
  <2>2. CASE v # t
    <3>1. work'[v] = work[v] /\ May(v, work[v])
      BY <1>3, <1>5, <2>2 DEF WellFormed
    <3>. QED
      BY <3>1 DEF May, Rest
  <2>. QED
    BY <2>1, <2>2
<1>. QED
  BY <1>3, <1>5 DEF WellFormed, TypeOK, Rest

(* Messages that go on with another step.                                    *)
LEMMA ChatContinues ==
  ASSUME WellFormed, NEW c \in Chats,
         \/ Reset(c) \/ Upload(c) \/ AskForLetter(c) \/ ReviewAnyway(c) \/ SkipAnswered(c)
         \/ Answer(c) \/ Confirm(c) \/ Apply(c) \/ EvaluateAnswer(c) \/ SaveAnswer(c)
  PROVE  WellFormed'
<1>. c \in Workers
  BY DEF Workers
<1>0. /\ setting \in Setting /\ seeker \in Profile /\ masters \in Nat
      /\ matched \subseteq Jobs /\ shown \in Lists \cup {<<>>} /\ created \in Nat
      /\ troubles \in 0 .. MaxTroubles /\ seeker.id <= created
      /\ seeker.data \in Data /\ seeker.id \in Nat
  BY Typed DEF Profile
<1>l. \A l \in Lists \cup {<<>>} : l \in Seq(Jobs)
  BY ListsOfJobs
<1>i. Rounds \in Nat
  BY CareerConstants
<1>. DEFINE a == work[c]
<1>a. a # Idle => /\ a \in Activity /\ a.row \in Profile /\ a.row.id <= created
                  /\ May(c, a) /\ a.word \in Works
  BY Typed
<1>b. a = work[c]
  OBVIOUS
<1>. HIDE DEF a
<1>r. ASSUME OnlySeeker, seeker' \in Profile, seeker'.id = seeker.id
      PROVE  Rest
  BY <1>0, <1>r DEF OnlySeeker, Rest, jobs, counts
<1>1. CASE Reset(c)
  <2>1. \/ seeker' = [seeker EXCEPT !.step = "welcome", !.isComplete = FALSE,
                        !.answered = {}, !.data = NoData]
        \/ seeker' = [seeker EXCEPT !.step = "awaiting_resume"]
    BY <1>1 DEF Reset
  <2>2. seeker' \in Profile /\ seeker'.id = seeker.id
    <3>1. /\ "welcome" \in Steps /\ "awaiting_resume" \in Steps
          /\ {} \in SUBSET Asked /\ NoData \in Data
      BY Rows DEF Steps
    <3>2. CASE seeker' = [seeker EXCEPT !.step = "welcome", !.isComplete = FALSE,
                            !.answered = {}, !.data = NoData]
      BY <1>0, <3>1, <3>2 DEF Profile
    <3>3. CASE seeker' = [seeker EXCEPT !.step = "awaiting_resume"]
      BY <1>0, <3>1, <3>3 DEF Profile
    <3>. QED
      BY <2>1, <3>2, <3>3
  <2>3. Rest
    BY <1>0, <1>1, <2>2 DEF Reset, Rest, jobs, counts
  <2>4. CASE Done(c)
    BY <2>3, <2>4, WorkerEnds
  <2>5. CASE Writes(c, "reset") /\ Goto(c, "restart")
    <3>. DEFINE b == [a EXCEPT !.at = "restart"]
    <3>1. a # Idle /\ a.at = "reset" /\ work' = [work EXCEPT ![c] = b]
      BY <1>b, <2>5 DEF Writes, At, Goto
    <3>2. b \in Activity /\ b.at = "restart" /\ b.row = a.row /\ b.word = a.word
      BY <1>a, <3>1 DEF Activity, Places, ChatSteps, FillSteps
    <3>3. May(c, b)
      BY <1>a, <3>1, <3>2, CareerConstants DEF May, ChatSteps
    <3>. HIDE DEF b
    <3>. QED
      BY <2>3, <3>1, <3>2, <3>3, WorkerGoes
  <2>. QED
    BY <1>1, <2>4, <2>5 DEF Reset
<1>2. CASE Upload(c)
  <2>. DEFINE b == [Starting("queued", "parse_resume", NoProfile) EXCEPT
                      !.review.reupload = seeker.data.reuploadPending]
  <2>1. Rest /\ Enqueue(c, b)
    BY <1>0, <1>2, <1>r DEF Upload, Nothing
  <2>2. b \in Activity /\ b.at = "queued" /\ b.word = "parse_resume" /\ b.row = NoProfile
    <3>. DEFINE s == Starting("queued", "parse_resume", NoProfile)
                r == [NoReview EXCEPT !.reupload = seeker.data.reuploadPending]
    <3>0. s \in Activity
      BY Parts, Rows DEF Places, Works
    <3>1. /\ s.at = "queued" /\ s.word = "parse_resume" /\ s.row = NoProfile
          /\ s.review = NoReview
      BY DEF Starting
    <3>2. r \in Review
      BY <1>0 DEF NoReview, Review, Data
    <3>3. b = [s EXCEPT !.review = r]
      BY <3>1
    <3>. HIDE DEF s, r
    <3>. QED
      BY <3>0, <3>1, <3>2, <3>3 DEF Activity, Places, ChatSteps, FillSteps
  <2>3. b.row.id <= created
    BY <1>0, <2>2, Rows, CareerConstants DEF NoProfile
  <2>. HIDE DEF b
  <2>. QED
    BY <2>1, <2>2, <2>3, ChatEnqueues
<1>3. CASE AskForLetter(c)
  <2>1. Rest /\ a # Idle /\ a.at = "cover"
    BY <1>0, <1>b, <1>3, <1>r DEF AskForLetter, Nothing, At
  <2>2. CASE Done(c)
    BY <2>1, <2>2, WorkerEnds
  <2>3. CASE Enqueue(c, Starting("queued", "generate_cover_letter", work[c].row))
    <3>. DEFINE b == Starting("queued", "generate_cover_letter", a.row)
    <3>0. Enqueue(c, b)
      BY <1>b, <2>3
    <3>1. b.at = "queued" /\ b.word = "generate_cover_letter" /\ b.row = a.row
      BY DEF Starting
    <3>3. b \in Activity
      BY <1>a, <2>1, Parts DEF Places, Works
    <3>2. "cover" \in setting.words
      BY <1>a, <2>1 DEF May
    <3>. HIDE DEF b
    <3>. QED
      BY <1>a, <2>1, <3>0, <3>1, <3>2, <3>3, ChatEnqueues
  <2>. QED
    BY <1>3, <2>2, <2>3 DEF AskForLetter
<1>4. CASE ReviewAnyway(c)
  <2>. DEFINE b == [a EXCEPT !.at = "review"]
  <2>1. Rest /\ a # Idle /\ work' = [work EXCEPT ![c] = b]
    BY <1>0, <1>b, <1>4, <1>r DEF ReviewAnyway, Nothing, At, Goto
  <2>2. b \in Activity /\ b.at = "review" /\ b.row = a.row /\ b.word = a.word
    BY <1>a, <2>1 DEF Activity, Places, ChatSteps, FillSteps
  <2>. HIDE DEF b
  <2>. QED
    BY <1>a, <1>b, <2>1, <2>2, ChatGoes DEF ChatSteps, FillSteps

<1>5. CASE SkipAnswered(c)
  <2>1. a # Idle /\ a.row.step \in Asked
    BY <1>b, <1>5 DEF SkipAnswered, Writes, At
  <2>2. CASE Done(c) /\ UNCHANGED seeker
    BY <1>0, <1>5, <1>r, <2>2, WorkerEnds DEF SkipAnswered
  <2>3. CASE /\ seeker' = [seeker EXCEPT !.step = After(a.row.step)]
             /\ GotoWith(c, IF After(a.row.step) = "complete" THEN "finish" ELSE "skip", seeker')
    <3>. DEFINE at == IF After(a.row.step) = "complete" THEN "finish" ELSE "skip"
                b == [a EXCEPT !.at = at, !.row = seeker']
    <3>1. seeker' \in Profile /\ seeker'.id = seeker.id
      BY <1>0, <2>1, <2>3, QuestionSteps DEF Profile
    <3>2. Rest
      BY <1>5, <1>r, <3>1 DEF SkipAnswered
    <3>3. work' = [work EXCEPT ![c] = b]
      BY <1>b, <2>3 DEF GotoWith
    <3>4. at \in {"finish", "skip"} /\ at \in Places
      <4>1. CASE After(a.row.step) = "complete"
        BY <4>1 DEF Places, ChatSteps, FillSteps
      <4>2. CASE After(a.row.step) # "complete"
        BY <4>2 DEF Places, ChatSteps
      <4>. QED
        BY <4>1, <4>2
    <3>. HIDE DEF at
    <3>5. b \in Activity /\ b.at = at /\ b.row = seeker' /\ b.word = a.word
      BY <1>a, <2>1, <3>1, <3>4 DEF Activity, Places, ChatSteps, FillSteps
    <3>. HIDE DEF b
    <3>. QED
      BY <1>0, <1>a, <1>b, <2>1, <3>1, <3>2, <3>3, <3>4, <3>5, ChatGoes DEF ChatSteps, FillSteps
  <2>. QED
    BY <1>b, <1>5, <2>2, <2>3 DEF SkipAnswered
<1>6. CASE Answer(c)
  <2>. DEFINE q == a.row.step
  <2>1. a # Idle /\ q \in Asked /\ OnlySeeker
    BY <1>b, <1>6 DEF Answer, Writes, At
  <2>2. CASE Merge("experience", TRUE) /\ UNCHANGED work
    <3>1. seeker' = [seeker EXCEPT !.data = [@ EXCEPT !["experience"] = TRUE]]
      BY <2>2 DEF Merge
    <3>2. [seeker.data EXCEPT !.experience = TRUE] \in Data
      BY <1>0, Columns
    <3>3. seeker' \in Profile /\ seeker'.id = seeker.id
      BY <1>0, <3>1, <3>2 DEF Profile
    <3>4. Rest
      BY <1>r, <2>1, <3>3
    <3>5. work' = [work EXCEPT ![c] = a]
      BY <1>b, <2>2 DEF WellFormed, TypeOK
    <3>. QED
      BY <1>a, <2>1, <3>4, <3>5, WorkerGoes
  <2>3. CASE /\ seeker' = [seeker EXCEPT !.step = After(q),
                             !.answered = @ \cup ({q} \ {Experience})]
             /\ IF After(q) = "complete" THEN GotoWith(c, "finish", seeker') ELSE Done(c)
    <3>1. seeker' \in Profile /\ seeker'.id = seeker.id
      BY <1>0, <2>1, <2>3, QuestionSteps DEF Profile
    <3>2. Rest
      BY <1>r, <2>1, <3>1
    <3>3. CASE GotoWith(c, "finish", seeker')
      <4>. DEFINE b == [a EXCEPT !.at = "finish", !.row = seeker']
      <4>1. work' = [work EXCEPT ![c] = b]
        BY <1>b, <3>3 DEF GotoWith
      <4>2. b \in Activity /\ b.at = "finish" /\ b.row = seeker' /\ b.word = a.word
        BY <1>a, <2>1, <3>1 DEF Activity, Places, ChatSteps, FillSteps
      <4>. HIDE DEF b
      <4>. QED
        BY <1>0, <1>a, <1>b, <2>1, <3>1, <3>2, <4>1, <4>2, ChatGoes DEF ChatSteps, FillSteps
    <3>. QED
      BY <2>3, <3>2, <3>3, WorkerEnds
  <2>. QED
    BY <1>b, <1>6, <2>2, <2>3 DEF Answer
<1>7. CASE Confirm(c)
  <2>. DEFINE r == a.row.data.parseReview
              b == [a EXCEPT !.at = "fill", !.review = r]
  <2>1. a # Idle /\ OnlySeeker /\ work' = [work EXCEPT ![c] = b]
        /\ (Merge("reuploadPending", FALSE) \/ UNCHANGED seeker)
    BY <1>b, <1>7 DEF Confirm, Writes, At
  <2>2. [seeker.data EXCEPT !.reuploadPending = FALSE] \in Data
    BY <1>0, Columns
  <2>3. seeker' \in Profile /\ seeker'.id = seeker.id
    BY <1>0, <2>1, <2>2 DEF Profile, Merge
  <2>4. r \in Review
    BY <1>a, <2>1 DEF Profile, Data
  <2>. HIDE DEF r
  <2>5. b \in Activity /\ b.at = "fill" /\ b.row = a.row /\ b.word = a.word
    BY <1>a, <2>1, <2>4 DEF Activity, Places, ChatSteps, FillSteps
  <2>6. Rest
    BY <1>r, <2>1, <2>3
  <2>. HIDE DEF b
  <2>. QED
    BY <1>a, <1>b, <2>1, <2>5, <2>6, ChatGoes DEF ChatSteps, FillSteps
<1>8. CASE Apply(c)
  <2>1. Rest /\ a # Idle
    BY <1>0, <1>b, <1>8, <1>r DEF Apply, Nothing, Writes, At
  <2>2. CASE Done(c)
    BY <2>1, <2>2, WorkerEnds
  <2>3. ASSUME NEW j \in ByIndex(a.n), work' = [work EXCEPT ![c].at = "learn", ![c].list = <<j>>]
        PROVE  WellFormed'
    <3>. DEFINE b == [a EXCEPT !.at = "learn", !.list = <<j>>]
    <3>1. work' = [work EXCEPT ![c] = b]
      BY <1>b, <2>3
    <3>2. j \in Jobs
      <4>1. seeker.data.jobSession \in Seq(Jobs)
        <5>1. seeker.data.jobSession \in Lists \cup {<<>>}
          BY <1>0 DEF Data
        <5>. QED
          BY <1>l, <5>1
      <4>2. a.n \in 1 .. Rounds + 2
        BY <1>a, <2>1 DEF Activity
      <4>. QED
        BY <1>0, <1>i, <4>1, <4>2 DEF ByIndex
    <3>3. b \in Activity /\ b.at = "learn" /\ b.row = a.row /\ b.word = a.word
      <4>1. <<j>> \in Seq(Jobs) /\ "learn" \in Places
        BY <3>2 DEF Places, ChatSteps
      <4>. QED
        BY <1>a, <2>1, <4>1 DEF Activity
    <3>. HIDE DEF b
    <3>. QED
      BY <1>a, <1>b, <2>1, <3>1, <3>3, ChatGoes DEF ChatSteps, FillSteps
  <2>. QED
    BY <1>b, <1>8, <2>2, <2>3 DEF Apply
<1>9. CASE EvaluateAnswer(c)
  <2>. DEFINE n == seeker.data.session.answers + 1
              b == [a EXCEPT !.at = "score", !.n = n]
  <2>1. Rest /\ a # Idle /\ work' = [work EXCEPT ![c] = b] /\ seeker.data.session.answers < Rounds
    BY <1>0, <1>b, <1>9, <1>r DEF EvaluateAnswer, Nothing, Writes, At
  <2>2. n \in 1 .. Rounds + 2 /\ n <= Rounds
    <3>1. seeker.data.session.answers \in 0 .. Rounds
      BY <1>0 DEF Data, Session
    <3>. QED
      BY <1>i, <2>1, <3>1
  <2>. HIDE DEF n
  <2>3. b \in Activity /\ b.at = "score" /\ b.row = a.row /\ b.word = a.word /\ b.n = n
    BY <1>a, <2>1, <2>2 DEF Activity, Places, ChatSteps, FillSteps
  <2>4. May(c, b)
    BY <1>a, <2>1, <2>2, <2>3, CareerConstants DEF May, ChatSteps
  <2>. HIDE DEF b
  <2>. QED
    BY <2>1, <2>3, <2>4, WorkerGoes
<1>10. CASE SaveAnswer(c)
  <2>1. a # Idle /\ OnlySeeker /\ a.at = "score"
        /\ seeker' = [seeker EXCEPT !.data =
                        [@ EXCEPT !["session"] = [stage |-> "active", answers |-> a.n]]]
    BY <1>b, <1>10 DEF SaveAnswer, Writes, At, Merge
  <2>2. [stage |-> "active", answers |-> a.n] \in Session
    BY <1>a, <2>1 DEF May, Session, Activity
  <2>3. \A s \in Session : [seeker.data EXCEPT !.session = s] \in Data
    BY <1>0, Columns
  <2>4. seeker' \in Profile /\ seeker'.id = seeker.id
    BY <1>0, <2>1, <2>2, <2>3 DEF Profile
  <2>5. Rest
    BY <1>r, <2>1, <2>4
  <2>6. CASE Done(c)
    BY <2>5, <2>6, WorkerEnds
  <2>7. CASE Goto(c, "record")
    <3>. DEFINE b == [a EXCEPT !.at = "record"]
    <3>1. work' = [work EXCEPT ![c] = b]
      BY <1>b, <2>7 DEF Goto
    <3>2. b \in Activity /\ b.at = "record" /\ b.row = a.row /\ b.word = a.word
      BY <1>a, <2>1 DEF Activity, Places, ChatSteps, FillSteps
    <3>. HIDE DEF b
    <3>. QED
      BY <1>a, <1>b, <2>1, <2>5, <3>1, <3>2, ChatGoes DEF ChatSteps, FillSteps
  <2>. QED
    BY <1>10, <2>6, <2>7 DEF SaveAnswer
<1>. QED
  BY <1>1, <1>2, <1>3, <1>4, <1>5, <1>6, <1>7, <1>8, <1>9, <1>10

(* A worker of any kind goes on with the same row and the same word.         *)
LEMMA Continues ==
  ASSUME WellFormed, Rest, NEW w \in Workers, work[w] # Idle, NEW a \in Activity,
         work' = [work EXCEPT ![w] = a], a.word = work[w].word, a.row.id <= created,
         a.at \in {"list", "present", "send", "sent"} => a.list \in Lists,
         \/ w \in Chats /\ a.at \in ChatSteps \ {"reset", "restart", "resume", "cover", "score"}
         \/ w \in Tasks /\ a.at \in ReadSteps \cup {"queued"}
            /\ work[w].word = "parse_resume"
         \/ w \in Tasks /\ a.at \in FillSteps /\ work[w].word = "parse_resume"
            /\ ~setting.confirm
         \/ w \in Tasks /\ a.at \in {"queued", "letter", "learn"}
            /\ work[w].word = "generate_cover_letter"
         \/ w \in Senders /\ a.at \in {"send", "sent"}
  PROVE  WellFormed'
<1>1. May(w, a)
  BY MayGo
<1>. QED
  BY <1>1, WorkerGoes

(* What a task is at says what it was asked for.                             *)
LEMMA TaskIs ==
  ASSUME WellFormed, NEW t \in Tasks, work[t] # Idle
  PROVE  /\ work[t].at \in ReadSteps => work[t].word = "parse_resume"
         /\ work[t].at \in FillSteps => work[t].word = "parse_resume" /\ ~setting.confirm
         /\ work[t].at = "letter" => work[t].word = "generate_cover_letter"
         /\ work[t].at = "learn" => work[t].word = "generate_cover_letter"
         /\ work[t].at = "queued" =>
              work[t].word = "parse_resume" \/ work[t].word = "generate_cover_letter"
BY DEF WellFormed, May, Workers, ReadSteps, FillSteps

(* A task that reads a resume, or writes a letter.                           *)
LEMMA TaskGoes ==
  ASSUME WellFormed, NEW t \in Tasks,
         \/ Load(t) \/ ReadFile(t) \/ CreateResume(t) \/ Adopt(t) \/ WriteLetter(t)
  PROVE  WellFormed'
<1>. t \in Workers
  BY DEF Workers
<1>0. /\ setting \in Setting /\ seeker \in Profile /\ masters \in Nat
      /\ matched \subseteq Jobs /\ shown \in Lists \cup {<<>>} /\ created \in Nat
      /\ troubles \in 0 .. MaxTroubles /\ seeker.id <= created
      /\ seeker.id \in 0 .. MaxProfiles /\ seeker.isComplete \in BOOLEAN
  BY Typed DEF Profile
<1>. DEFINE a == work[t]
<1>a. a # Idle => /\ a \in Activity /\ a.row \in Profile /\ a.row.id <= created
  BY Typed
<1>b. a = work[t]
  OBVIOUS
<1>. HIDE DEF a
<1>1. CASE Load(t)
  <2>1. a # Idle /\ a.at = "queued" /\ Nothing
    BY <1>1, <1>b DEF Load, At
  <2>2. Rest
    BY <1>0, <2>1 DEF Nothing, OnlySeeker, Rest, jobs, counts
  <2>3. CASE Done(t)
    BY <2>2, <2>3, WorkerEnds
  <2>4. CASE /\ a.word = "parse_resume"
             /\ GotoWith(t, "read", [NewProfile(seeker.id) EXCEPT !.isComplete = seeker.isComplete])
    <3>. DEFINE r == [NewProfile(seeker.id) EXCEPT !.isComplete = seeker.isComplete]
                b == [a EXCEPT !.at = "read", !.row = r]
    <3>1. r \in Profile /\ r.id = seeker.id
      <4>. DEFINE p == NewProfile(seeker.id)
      <4>1. p \in Profile /\ p.id = seeker.id
        BY <1>0, Rows
      <4>2. r = [p EXCEPT !.isComplete = seeker.isComplete]
        OBVIOUS
      <4>. HIDE DEF p, r
      <4>. QED
        BY <1>0, <4>1, <4>2 DEF Profile
    <3>2. work' = [work EXCEPT ![t] = b]
      BY <1>b, <2>4 DEF GotoWith
    <3>. HIDE DEF r
    <3>3. b \in Activity /\ b.at = "read" /\ b.row = r /\ b.word = a.word
      BY <1>a, <2>1, <3>1 DEF Activity, Places, ReadSteps
    <3>. HIDE DEF b
    <3>. QED
      BY <1>0, <1>b, <2>1, <2>2, <2>4, <3>1, <3>2, <3>3, Continues DEF ReadSteps
  <2>5. CASE a.word # "parse_resume" /\ GotoWith(t, "letter", seeker)
    <3>. DEFINE b == [a EXCEPT !.at = "letter", !.row = seeker]
    <3>1. work' = [work EXCEPT ![t] = b]
      BY <1>b, <2>5 DEF GotoWith
    <3>2. b \in Activity /\ b.at = "letter" /\ b.row = seeker /\ b.word = a.word
      BY <1>0, <1>a, <2>1 DEF Activity, Places
    <3>3. a.word = "generate_cover_letter"
      BY <1>b, <2>1, <2>5, TaskIs
    <3>. HIDE DEF b
    <3>. QED
      BY <1>0, <1>b, <2>1, <2>2, <3>1, <3>2, <3>3, Continues
  <2>. QED
    BY <1>1, <1>b, <2>3, <2>4, <2>5 DEF Load
<1>2. CASE ReadFile(t)
  <2>1. a # Idle /\ a.at = "read"
    BY <1>2, <1>b DEF ReadFile, At
  <2>2. Rest
    <3>1. masters' \in Nat
      BY <1>0, <1>2 DEF ReadFile
    <3>2. troubles' \in 0 .. MaxTroubles
      BY <1>0, <1>2, CareerConstants DEF ReadFile, Trouble
    <3>. QED
      BY <1>0, <1>2, <3>1, <3>2 DEF ReadFile, Rest
  <2>3. CASE Done(t)
    BY <2>2, <2>3, WorkerEnds
  <2>4. CASE Goto(t, "create")
    <3>. DEFINE b == [a EXCEPT !.at = "create"]
    <3>1. work' = [work EXCEPT ![t] = b]
      BY <1>b, <2>4 DEF Goto
    <3>2. b \in Activity /\ b.at = "create" /\ b.row = a.row /\ b.word = a.word
      BY <1>a, <2>1 DEF Activity, Places, ReadSteps
    <3>3. a.word = "parse_resume"
      BY <1>b, <2>1, TaskIs DEF ReadSteps
    <3>. HIDE DEF b
    <3>. QED
      BY <1>a, <1>b, <2>1, <2>2, <3>1, <3>2, <3>3, Continues DEF ReadSteps
  <2>. QED
    BY <1>2, <2>3, <2>4 DEF ReadFile
<1>3. CASE CreateResume(t) \/ Adopt(t)
  <2>1. a # Idle /\ a.at \in {"create", "adopt"}
    BY <1>3, <1>b DEF CreateResume, Adopt, Writes, At
  <2>2. seeker' \in Profile /\ seeker'.id = seeker.id
    <3>1. CASE CreateResume(t)
      BY <1>0, <3>1 DEF CreateResume
    <3>2. CASE Adopt(t)
      <4>1. "parsing_resume" \in Steps
        BY DEF Steps
      <4>2. \/ seeker' = [seeker EXCEPT !.step = "parsing_resume"]
            \/ seeker' = [seeker EXCEPT !.step = seeker.step]
        BY <3>2 DEF Adopt
      <4>. QED
        BY <1>0, <4>1, <4>2 DEF Profile
    <3>. QED
      BY <1>3, <3>1, <3>2
  <2>3. Rest
    BY <1>0, <1>3, <2>2 DEF CreateResume, Adopt, OnlySeeker, Rest, jobs, counts
  <2>4. PICK s \in {"adopt", "parse"} : Goto(t, s)
    BY <1>3 DEF CreateResume, Adopt
  <2>. DEFINE b == [a EXCEPT !.at = s]
  <2>5. work' = [work EXCEPT ![t] = b]
    BY <1>b, <2>4 DEF Goto
  <2>6. b \in Activity /\ b.at = s /\ b.row = a.row /\ b.word = a.word
    BY <1>a, <2>1 DEF Activity, Places, ReadSteps
  <2>7. a.word = "parse_resume"
    BY <1>b, <2>1, TaskIs DEF ReadSteps
  <2>. HIDE DEF b
  <2>. QED
    BY <1>a, <1>b, <2>1, <2>3, <2>5, <2>6, <2>7, Continues DEF ReadSteps
<1>4. CASE WriteLetter(t)
  <2>1. a # Idle /\ a.at = "letter" /\ Nothing
    BY <1>4, <1>b DEF WriteLetter, Writes, At
  <2>2. Rest
    BY <1>0, <2>1 DEF Nothing, OnlySeeker, Rest, jobs, counts
  <2>3. CASE Done(t)
    BY <2>2, <2>3, WorkerEnds
  <2>4. CASE Goto(t, "learn")
    <3>. DEFINE b == [a EXCEPT !.at = "learn"]
    <3>1. work' = [work EXCEPT ![t] = b]
      BY <1>b, <2>4 DEF Goto
    <3>2. b \in Activity /\ b.at = "learn" /\ b.row = a.row /\ b.word = a.word
      BY <1>a, <2>1 DEF Activity, Places, ChatSteps
    <3>3. a.word = "generate_cover_letter"
      BY <1>b, <2>1, TaskIs
    <3>. HIDE DEF b
    <3>. QED
      BY <1>a, <1>b, <2>1, <2>2, <3>1, <3>2, <3>3, Continues
  <2>. QED
    BY <1>4, <2>3, <2>4 DEF WriteLetter
<1>. QED
  BY <1>1, <1>2, <1>3, <1>4

LEMMA TaskParses ==
  ASSUME WellFormed, NEW t \in Tasks, Parse(t) \/ ParseFailed(t)
  PROVE  WellFormed'
<1>. t \in Workers
  BY DEF Workers
<1>0. /\ setting \in Setting /\ seeker \in Profile /\ masters \in Nat
      /\ matched \subseteq Jobs /\ shown \in Lists \cup {<<>>} /\ created \in Nat
      /\ troubles \in 0 .. MaxTroubles /\ seeker.id <= created
      /\ seeker.id \in Nat /\ seeker.data \in Data
  BY Typed DEF Profile
<1>. DEFINE a == work[t]
<1>a. a # Idle => /\ a \in Activity /\ a.row \in Profile /\ a.row.id <= created
  BY Typed
<1>b. a = work[t]
  OBVIOUS
<1>. HIDE DEF a
<1>c. a # Idle /\ a.at = "parse" /\ a.word = "parse_resume"
  <2>1. a # Idle /\ a.at = "parse"
    BY <1>b DEF Parse, ParseFailed, Writes, At
  <2>. QED
    BY <1>b, <2>1, TaskIs DEF ReadSteps
<1>d. ASSUME Merge("reuploadPending", FALSE)
      PROVE  seeker' \in Profile /\ seeker'.id = seeker.id
  <2>1. seeker' = [seeker EXCEPT !.data = [@ EXCEPT !["reuploadPending"] = FALSE]]
    BY <1>d DEF Merge
  <2>2. [seeker.data EXCEPT !.reuploadPending = FALSE] \in Data
    BY <1>0, Columns
  <2>. QED
    BY <1>0, <2>1, <2>2 DEF Profile
<1>1. CASE Parse(t)
  <2>1. PICK answers \in Readable :
          LET found == [staged |-> setting.confirm, answers |-> answers, reupload |-> Update(t)]
          IN  \/ /\ setting.confirm
                 /\ seeker' = [seeker EXCEPT !.step = "parse_review", !.data.parseReview = found]
                 /\ Done(t)
              \/ /\ ~setting.confirm
                 /\ IF Update(t) THEN Merge("reuploadPending", FALSE) ELSE UNCHANGED seeker
                 /\ work' = [work EXCEPT ![t].at = "fill", ![t].review = found]
    BY <1>1 DEF Parse
  <2>. DEFINE found == [staged |-> setting.confirm, answers |-> answers, reupload |-> Update(t)]
  <2>2. found \in Review
    <3>1. setting.confirm \in BOOLEAN /\ answers \in SUBSET Asked
      BY <1>0, CareerConstants DEF Setting
    <3>2. Update(t) \in BOOLEAN
      BY <1>a, <1>b, <1>c DEF Update, Activity, Review, Profile
    <3>. QED
      BY <3>1, <3>2 DEF Review
  <2>3. CASE /\ seeker' = [seeker EXCEPT !.step = "parse_review", !.data.parseReview = found]
             /\ Done(t)
    <3>. DEFINE d == [seeker.data EXCEPT !.parseReview = found]
    <3>. HIDE DEF found
    <3>1. d \in Data /\ "parse_review" \in Steps
      BY <1>0, <2>2, Columns DEF Steps
    <3>2. seeker' = [seeker EXCEPT !.step = "parse_review", !.data = d]
      BY <2>3
    <3>. HIDE DEF d
    <3>3. seeker' \in Profile /\ seeker'.id = seeker.id
      BY <1>0, <3>1, <3>2 DEF Profile
    <3>4. Rest
      BY <1>0, <1>1, <3>3 DEF Parse, OnlySeeker, Rest, jobs, counts
    <3>. QED
      BY <2>3, <3>4, WorkerEnds
  <2>4. CASE /\ ~setting.confirm
             /\ Merge("reuploadPending", FALSE) \/ UNCHANGED seeker
             /\ work' = [work EXCEPT ![t].at = "fill", ![t].review = found]
    <3>. DEFINE b == [a EXCEPT !.at = "fill", !.review = found]
    <3>. HIDE DEF found
    <3>1. work' = [work EXCEPT ![t] = b]
      BY <1>b, <2>4
    <3>2. b \in Activity /\ b.at = "fill" /\ b.row = a.row /\ b.word = a.word
      BY <1>a, <1>c, <2>2 DEF Activity, Places, ChatSteps, FillSteps
    <3>3. Rest
      BY <1>0, <1>1, <1>d, <2>4 DEF Parse, OnlySeeker, Rest, jobs, counts
    <3>. HIDE DEF b
    <3>. QED
      BY <1>a, <1>b, <1>c, <2>4, <3>1, <3>2, <3>3, Continues DEF FillSteps
  <2>. QED
    BY <2>1, <2>3, <2>4
<1>2. CASE ParseFailed(t)
  <2>1. seeker' \in Profile /\ seeker'.id = seeker.id
    <3>1. CASE Merge("reuploadPending", FALSE)
      BY <1>d, <3>1
    <3>2. CASE seeker' = [seeker EXCEPT !.step = Questions[1]]
      <4>1. Questions[1] \in Steps
        BY QuestionSteps
      <4>. QED
        BY <1>0, <3>2, <4>1 DEF Profile
    <3>. QED
      BY <1>2, <3>1, <3>2 DEF ParseFailed
  <2>2. troubles' \in 0 .. MaxTroubles
    BY <1>0, <1>2, CareerConstants DEF ParseFailed, Trouble
  <2>3. Rest /\ Done(t)
    BY <1>0, <1>2, <2>1, <2>2 DEF ParseFailed, Rest, jobs
  <2>. QED
    BY <2>3, WorkerEnds
<1>. QED
  BY <1>1, <1>2

(* A task is tried again, anything else is over.                             *)
LEMMA WorkerFails ==
  ASSUME WellFormed, Rest, NEW w \in Workers, work[w] # Idle, Fail(w)
  PROVE  WellFormed'
<1>. DEFINE a == work[w]
            b == [a EXCEPT !.at = "queued", !.tries = a.tries + 1]
<1>1. CASE w \in Tasks /\ a.tries < Retries
  <2>1. work' = [work EXCEPT ![w] = b]
    <3>1. work' = [work EXCEPT ![w] =
                     IF w \in Tasks /\ a.tries < Retries THEN b ELSE Idle]
      BY DEF Fail
    <3>. HIDE DEF a, b
    <3>. QED
      BY <1>1, <3>1
  <2>2. a \in Activity /\ a.row.id <= created /\ a # Idle
    BY Typed
  <2>3. a.word = "parse_resume" \/ a.word = "generate_cover_letter"
    BY <1>1 DEF WellFormed, May
  <2>4. \E x : x = a
    OBVIOUS
  <2>. HIDE DEF a
  <2>5. a.tries + 1 \in 0 .. Retries
    <3>1. a.tries \in 0 .. Retries /\ Retries \in Nat
      BY <2>2, CareerConstants DEF Activity
    <3>. QED
      BY <1>1, <3>1
  <2>6. b \in Activity /\ b.at = "queued" /\ b.row = a.row /\ b.word = a.word
    BY <2>2, <2>5 DEF Activity, Places
  <2>. HIDE DEF b
  <2>. QED
    BY <1>1, <2>1, <2>2, <2>3, <2>6, Continues DEF a
<1>2. CASE ~(w \in Tasks /\ a.tries < Retries)
  <2>1. Done(w)
    BY <1>2 DEF Fail, Done
  <2>. QED
    BY <2>1, WorkerEnds
<1>. QED
  BY <1>1, <1>2

(* Filling in what a resume answers.                                         *)
LEMMA FilledTyped ==
  ASSUME NEW r \in Profile, NEW review \in Review
  PROVE  /\ Filled(r, review) \in Profile /\ Filled(r, review).id = r.id
         /\ Filled(r, review).data = r.data
         /\ Filled(r, review).answered = r.answered \cup review.answers
         /\ Filled(r, review).step = r.step /\ Filled(r, review).isComplete = r.isComplete
<1>. DEFINE s == r.answered \cup review.answers
<1>1. s \in SUBSET Asked
  BY DEF Profile, Review
<1>2. Filled(r, review) = [r EXCEPT !.answered = s]
  BY DEF Filled
<1>. DEFINE f == [r EXCEPT !.answered = s]
<1>3. /\ f \in Profile /\ f.id = r.id /\ f.data = r.data /\ f.answered = s
      /\ f.step = r.step /\ f.isComplete = r.isComplete
  <2>. HIDE DEF s
  <2>. QED
    BY <1>1 DEF Profile
<1>4. Filled(r, review) = f
  BY <1>2
<1>. HIDE DEF f
<1>. QED
  BY <1>3, <1>4

(* The steps chats and tasks share.                                          *)
LEMMA Shares ==
  ASSUME WellFormed, NEW w \in Workers,
         Fill(w) \/ Advance(w) \/ Finish(w) \/ Throw(w)
  PROVE  WellFormed'
<1>0. /\ setting \in Setting /\ seeker \in Profile /\ masters \in Nat
      /\ matched \subseteq Jobs /\ shown \in Lists \cup {<<>>} /\ created \in Nat
      /\ troubles \in 0 .. MaxTroubles /\ seeker.id <= created
      /\ seeker.id \in Nat /\ seeker.data \in Data
  BY Typed DEF Profile
<1>. DEFINE a == work[w]
<1>a. a # Idle => /\ a \in Activity /\ a.row \in Profile /\ a.row.id <= created /\ May(w, a)
  BY Typed
<1>b. a = work[w]
  OBVIOUS
<1>. HIDE DEF a
<1>c. w \in Senders /\ a # Idle => a.at \in {"send", "sent"}
  BY <1>a DEF May
<1>d. w \in Tasks /\ a # Idle /\ a.at \in FillSteps => a.word = "parse_resume" /\ ~setting.confirm
  BY <1>b, TaskIs
<1>e. ASSUME a # Idle, Rest, NEW b \in Activity, work' = [work EXCEPT ![w] = b],
             a.at \in FillSteps, b.at \in FillSteps \ {"list", "present"}, b.word = a.word,
             b.row.id <= created
      PROVE  WellFormed'
  <2>1. w \in Chats \/ w \in Tasks
    BY <1>c, <1>e DEF FillSteps, Workers
  <2>. QED
    BY <1>b, <1>d, <1>e, <2>1, Continues DEF ChatSteps, FillSteps
<1>1. CASE Fill(w)
  <2>. DEFINE review == a.review
              f == Filled(seeker, review)
  <2>1. a # Idle /\ a.at = "fill"
    BY <1>1, <1>b DEF Fill, Writes, At
  <2>2. review \in Review
    BY <1>a, <2>1 DEF Activity
  <2>. HIDE DEF review
  <2>3. f \in Profile /\ f.id = seeker.id /\ f.data \in Data
    BY <1>0, <2>2, FilledTyped
  <2>4. seeker' \in Profile /\ seeker'.id = seeker.id
    <3>. DEFINE d == [f.data EXCEPT !.parseReview = NoReview]
    <3>1. \/ seeker' = [f EXCEPT !.isComplete = TRUE, !.step = "complete", !.data = d]
          \/ seeker' = [f EXCEPT !.data = d]
          \/ seeker' = f
      <4>1. CASE a.review.reupload
        BY <1>1, <1>b, <4>1 DEF Fill, review
      <4>2. CASE ~a.review.reupload /\ a.review.staged
        BY <1>1, <1>b, <4>2 DEF Fill, review
      <4>3. CASE ~a.review.reupload /\ ~a.review.staged
        BY <1>1, <1>b, <4>3 DEF Fill, review
      <4>. QED
        BY <4>1, <4>2, <4>3
    <3>2. NoReview \in Review
      BY DEF NoReview, Review
    <3>. HIDE DEF f
    <3>3. d \in Data /\ "complete" \in Steps
      BY <2>3, <3>2, Columns DEF Steps
    <3>. HIDE DEF d
    <3>. QED
      BY <2>3, <3>1, <3>3 DEF Profile
  <2>5. Rest
    BY <1>0, <1>1, <2>4 DEF Fill, OnlySeeker, Rest, jobs, counts
  <2>6. PICK s \in {"match", "advance"} : GotoWith(w, s, seeker')
    BY <1>1 DEF Fill
  <2>. DEFINE b == [a EXCEPT !.at = s, !.row = seeker']
  <2>7. work' = [work EXCEPT ![w] = b]
    BY <1>b, <2>6 DEF GotoWith
  <2>8. s \in FillSteps /\ s \in Places
    BY DEF FillSteps, ChatSteps, Places
  <2>9. b \in Activity /\ b.at = s /\ b.row = seeker' /\ b.word = a.word
    BY <1>a, <2>1, <2>4, <2>8 DEF Activity
  <2>. HIDE DEF b
  <2>10. b.row.id <= created
    BY <1>0, <2>4, <2>9
  <2>. QED
    BY <1>e, <2>1, <2>5, <2>7, <2>8, <2>9, <2>10 DEF FillSteps
<1>2. CASE Advance(w)
  <2>1. a # Idle /\ a.at = "advance"
    BY <1>2, <1>b DEF Advance, Writes, At
  <2>2. seeker' \in Profile /\ seeker'.id = seeker.id
    <3>1. seeker' = [seeker EXCEPT !.step = FirstOpen(a.row)]
      BY <1>2, <1>b DEF Advance
    <3>2. FirstOpen(a.row) \in Steps
      BY QuestionSteps
    <3>. QED
      BY <1>0, <3>1, <3>2 DEF Profile
  <2>3. Rest
    BY <1>0, <1>2, <2>2 DEF Advance, OnlySeeker, Rest, jobs, counts
  <2>4. CASE Done(w)
    BY <2>3, <2>4, WorkerEnds
  <2>5. CASE GotoWith(w, "finish", seeker')
    <3>. DEFINE b == [a EXCEPT !.at = "finish", !.row = seeker']
    <3>1. work' = [work EXCEPT ![w] = b]
      BY <1>b, <2>5 DEF GotoWith
    <3>2. b \in Activity /\ b.at = "finish" /\ b.row = seeker' /\ b.word = a.word
      BY <1>a, <2>1, <2>2 DEF Activity, Places, ChatSteps, FillSteps
    <3>. HIDE DEF b
    <3>3. b.row.id <= created
      BY <1>0, <2>2, <3>2
    <3>. QED
      BY <1>e, <2>1, <2>3, <3>1, <3>2, <3>3 DEF FillSteps
  <2>. QED
    BY <1>2, <2>4, <2>5 DEF Advance
<1>3. CASE Finish(w)
  <2>. DEFINE b == [a EXCEPT !.at = "match"]
  <2>1. a # Idle /\ a.at = "finish" /\ work' = [work EXCEPT ![w] = b]
    BY <1>3, <1>b DEF Finish, Writes, At, Goto
  <2>2. seeker' \in Profile /\ seeker'.id = seeker.id
    BY <1>0, <1>3 DEF Finish, Profile, Steps
  <2>3. Rest
    BY <1>0, <1>3, <2>2 DEF Finish, OnlySeeker, Rest, jobs, counts
  <2>4. b \in Activity /\ b.at = "match" /\ b.row = a.row /\ b.word = a.word
    BY <1>a, <2>1 DEF Activity, Places, ChatSteps, FillSteps
  <2>. HIDE DEF b
  <2>. QED
    BY <1>a, <1>e, <2>1, <2>3, <2>4 DEF FillSteps
<1>4. CASE Throw(w)
  <2>1. Rest
    BY <1>0, <1>4 DEF Throw, Nothing, OnlySeeker, Rest, jobs, counts
  <2>2. CASE Done(w)
    BY <2>1, <2>2, WorkerEnds
  <2>3. CASE Fail(w) /\ a # Idle
    BY <1>b, <2>1, <2>3, WorkerFails
  <2>. QED
    BY <1>4, <1>b, <2>2, <2>3 DEF Throw
<1>. QED
  BY <1>1, <1>2, <1>3, <1>4

LEMMA MatchesKept ==
  ASSUME WellFormed, NEW list \in Lists \cup {<<>>}, Persist(list)
  PROVE  matched' \subseteq Jobs
<1>1. PICK low \in SUBSET Jobs : matched' = (matched \ low) \cup RangeOf(list)
  BY DEF Persist
<1>. QED
  BY <1>1, Typed, ListsOfJobs

(* Matching, and the list that is saved and shown.                           *)
LEMMA ListGoes ==
  ASSUME WellFormed, NEW w \in Workers,
         Match(w) \/ SaveJobSession(w) \/ PresentTopJobs(w) \/ Learn(w)
  PROVE  WellFormed'
<1>0. /\ setting \in Setting /\ seeker \in Profile /\ masters \in Nat
      /\ matched \subseteq Jobs /\ shown \in Lists \cup {<<>>} /\ created \in Nat
      /\ troubles \in 0 .. MaxTroubles /\ seeker.id <= created
      /\ seeker.id \in Nat /\ seeker.data \in Data
  BY Typed DEF Profile
<1>. DEFINE a == work[w]
<1>a. a # Idle => /\ a \in Activity /\ a.row \in Profile /\ a.row.data \in Data
                  /\ a.row.id <= created /\ May(w, a)
  BY Typed DEF Profile
<1>b. a = work[w]
  OBVIOUS
<1>. HIDE DEF a
<1>c. w \in Senders /\ a # Idle => a.at \in {"send", "sent"}
  BY <1>a DEF May
<1>d. w \in Tasks /\ a # Idle /\ a.at \in FillSteps => a.word = "parse_resume" /\ ~setting.confirm
  BY <1>b, TaskIs
<1>f. w \in Tasks /\ a # Idle =>
        a.at \in FillSteps \cup ReadSteps \cup {"queued", "letter", "learn"}
  BY <1>a DEF May
<1>1. CASE Match(w)
  <2>1. PICK list \in Lists \cup {<<>>} :
          /\ Persist(list)
          /\ \/ /\ Writes(w, "match") \/ Writes(w, "find")
                /\ list # <<>>
                /\ work' = [work EXCEPT ![w].at = "list", ![w].list = list]
             \/ Done(w)
    BY <1>1 DEF Match
  <2>2. matched' \subseteq Jobs
    BY <2>1, MatchesKept
  <2>3. Rest
    BY <1>0, <1>1, <2>2 DEF Match, Rest, counts
  <2>4. CASE Done(w)
    BY <2>3, <2>4, WorkerEnds
  <2>5. CASE /\ Writes(w, "match") \/ Writes(w, "find")
             /\ list # <<>>
             /\ work' = [work EXCEPT ![w].at = "list", ![w].list = list]
    <3>. DEFINE b == [a EXCEPT !.at = "list", !.list = list]
    <3>1. a # Idle /\ a.at \in {"match", "find"} /\ work' = [work EXCEPT ![w] = b]
      BY <1>b, <2>5 DEF Writes, At
    <3>2. list \in Seq(Jobs) /\ list \in Lists
      BY <2>5, ListsOfJobs
    <3>3. b \in Activity /\ b.at = "list" /\ b.row = a.row /\ b.word = a.word /\ b.list = list
      BY <1>a, <3>1, <3>2 DEF Activity, Places, ChatSteps, FillSteps
    <3>0. a # Idle
      BY <3>1
    <3>4. w \in Chats \/ (w \in Tasks /\ a.word = "parse_resume" /\ ~setting.confirm)
      <4>1. w \in Chats \/ w \in Tasks
          BY <1>c, <3>1 DEF Workers
      <4>2. w \in Tasks => a.at = "match"
          BY <1>f, <3>1 DEF FillSteps, ReadSteps
      <4>3. w \in Tasks => a.at \in FillSteps
          BY <4>2 DEF FillSteps
      <4>. QED
          BY <1>d, <3>0, <4>1, <4>3
    <3>. HIDE DEF b
    <3>. QED
      BY <1>a, <1>b, <2>3, <3>1, <3>2, <3>3, <3>4, Continues DEF ChatSteps, FillSteps
  <2>. QED
    BY <2>1, <2>4, <2>5
<1>2. CASE SaveJobSession(w)
  <2>. DEFINE b == [a EXCEPT !.at = "present"]
  <2>1. a # Idle /\ a.at = "list" /\ work' = [work EXCEPT ![w] = b] /\ OnlySeeker
        /\ seeker' = [seeker EXCEPT !.data = Listed(a.row.data, a.list)]
    BY <1>2, <1>b DEF SaveJobSession, Writes, At, Goto, WriteBack
  <2>2. a.list \in Lists
    BY <1>a, <2>1 DEF May, FillSteps, ReadSteps, Workers
  <2>3. Listed(a.row.data, a.list) \in Data
    BY <1>a, <2>1, <2>2, Columns
  <2>4. seeker' \in Profile /\ seeker'.id = seeker.id
    BY <1>0, <2>1, <2>3 DEF Profile
  <2>5. Rest
    BY <1>0, <2>1, <2>4 DEF OnlySeeker, Rest, jobs, counts
  <2>6. b \in Activity /\ b.at = "present" /\ b.row = a.row /\ b.word = a.word
        /\ b.list = a.list
    BY <1>a, <2>1 DEF Activity, Places, ChatSteps, FillSteps
  <2>7. w \in Chats \/ (w \in Tasks /\ a.word = "parse_resume" /\ ~setting.confirm)
    <3>0. a # Idle
        BY <2>1
    <3>1. w \in Chats \/ w \in Tasks
        BY <1>c, <2>1 DEF Workers
    <3>2. w \in Tasks => a.at = "list"
        BY <1>f, <2>1 DEF FillSteps, ReadSteps
    <3>3. w \in Tasks => a.at \in FillSteps
        BY <3>2 DEF FillSteps
    <3>. QED
        BY <1>d, <3>0, <3>1, <3>3
  <2>. HIDE DEF b
  <2>. QED
    BY <1>a, <1>b, <2>1, <2>2, <2>5, <2>6, <2>7, Continues DEF ChatSteps, FillSteps
<1>3. CASE PresentTopJobs(w)
  <2>1. a # Idle /\ a.at = "present" /\ Done(w)
    BY <1>3, <1>b DEF PresentTopJobs, At
  <2>2. shown' \in Lists \cup {<<>>}
    BY <1>0, <1>3, <1>a, <1>b, <2>1 DEF PresentTopJobs, May, FillSteps, ReadSteps, Workers
  <2>3. troubles' \in 0 .. MaxTroubles
    BY <1>0, <1>3, CareerConstants DEF PresentTopJobs, Trouble
  <2>4. Rest
    BY <1>0, <1>3, <2>2, <2>3 DEF PresentTopJobs, Rest, jobs
  <2>. QED
    BY <2>1, <2>4, WorkerEnds
<1>4. CASE Learn(w)
  <2>1. a # Idle /\ a.at \in {"learn", "guidance"} /\ OnlySeeker
        /\ seeker' = [seeker EXCEPT !.data = a.row.data]
        /\ ((a.word = "dismiss" /\ Goto(w, "rematch")) \/ Done(w))
    BY <1>4, <1>b DEF Learn, Writes, At, WriteBack
  <2>2. seeker' \in Profile /\ seeker'.id = seeker.id
    BY <1>0, <1>a, <2>1 DEF Profile
  <2>3. Rest
    BY <1>0, <2>1, <2>2 DEF OnlySeeker, Rest, jobs, counts
  <2>4. CASE Done(w)
    BY <2>3, <2>4, WorkerEnds
  <2>5. CASE a.word = "dismiss" /\ Goto(w, "rematch")
    <3>. DEFINE b == [a EXCEPT !.at = "rematch"]
    <3>1. work' = [work EXCEPT ![w] = b]
      BY <1>b, <2>5 DEF Goto
    <3>2. b \in Activity /\ b.at = "rematch" /\ b.row = a.row /\ b.word = a.word
      BY <1>a, <2>1 DEF Activity, Places, ChatSteps
    <3>3. w \in Chats
      BY <1>a, <1>c, <2>1, <2>5 DEF Workers, May
    <3>. HIDE DEF b
    <3>. QED
      BY <1>a, <1>b, <2>1, <2>3, <3>1, <3>2, <3>3, Continues DEF ChatSteps
  <2>. QED
    BY <2>1, <2>4, <2>5
<1>. QED
  BY <1>1, <1>2, <1>3, <1>4

(* Alerts and digests.                                                       *)
LEMMA SenderGoes ==
  ASSUME WellFormed, NEW s \in Senders,
         BeginAlert(s) \/ BeginDigest(s) \/ SendAlert(s) \/ SaveAlert(s)
  PROVE  WellFormed'
<1>. s \in Workers
  BY DEF Workers
<1>0. /\ setting \in Setting /\ seeker \in Profile /\ masters \in Nat
      /\ matched \subseteq Jobs /\ shown \in Lists \cup {<<>>} /\ created \in Nat
      /\ troubles \in 0 .. MaxTroubles /\ seeker.id <= created
      /\ seeker.id \in Nat /\ seeker.data \in Data
  BY Typed DEF Profile
<1>. DEFINE a == work[s]
<1>a. a # Idle => /\ a \in Activity /\ a.row \in Profile /\ a.row.data \in Data
                  /\ a.row.id <= created /\ May(s, a)
  BY Typed DEF Profile
<1>b. a = work[s]
  OBVIOUS
<1>. HIDE DEF a
<1>1. CASE BeginAlert(s) \/ BeginDigest(s)
  <2>1. PICK list \in Lists : BeginSending(s, list)
    BY <1>1 DEF BeginAlert, BeginDigest
  <2>. DEFINE b == [Starting("send", "alert", seeker) EXCEPT !.list = list]
  <2>2. work' = [work EXCEPT ![s] = b]
    BY <2>1 DEF BeginSending
  <2>3. /\ b \in Activity /\ b.at = "send" /\ b.row = seeker /\ b.word = "alert"
        /\ b.list = list
    <3>. DEFINE t == Starting("send", "alert", seeker)
    <3>1. t \in Activity
      BY <1>0, Parts DEF Places, Works
    <3>2. t.at = "send" /\ t.row = seeker /\ t.word = "alert"
      BY DEF Starting
    <3>3. list \in Seq(Jobs)
      BY ListsOfJobs
    <3>4. b = [t EXCEPT !.list = list]
      OBVIOUS
    <3>. HIDE DEF t, b
    <3>. QED
      BY <3>1, <3>2, <3>3, <3>4 DEF Activity
  <2>. HIDE DEF b
  <2>4. matched' \subseteq Jobs
    BY <2>1, MatchesKept DEF BeginSending
  <2>5. Rest
    BY <1>0, <2>1, <2>4 DEF BeginSending, Rest, counts
  <2>6. May(s, b)
    BY <1>0, <2>1, <2>3, CareerConstants DEF May, BeginSending
  <2>. QED
    BY <2>2, <2>3, <2>5, <2>6, WorkerGoes
<1>2. CASE SendAlert(s)
  <2>. DEFINE b == [a EXCEPT !.at = "sent"]
  <2>1. a # Idle /\ a.at = "send" /\ work' = [work EXCEPT ![s] = b]
    BY <1>2, <1>b DEF SendAlert, At, Goto
  <2>2. a.list \in Lists
    BY <1>a, <2>1 DEF May
  <2>3. troubles' \in 0 .. MaxTroubles
    BY <1>0, <1>2, CareerConstants DEF SendAlert, Trouble
  <2>4. Rest
    BY <1>0, <1>2, <1>b, <2>2, <2>3 DEF SendAlert, Rest, jobs
  <2>5. b \in Activity /\ b.at = "sent" /\ b.row = a.row /\ b.word = a.word /\ b.list = a.list
    BY <1>a, <2>1 DEF Activity, Places
  <2>. HIDE DEF b
  <2>. QED
    BY <1>a, <1>b, <2>1, <2>2, <2>4, <2>5, Continues
<1>3. CASE SaveAlert(s)
  <2>1. a # Idle /\ a.at = "sent" /\ Done(s) /\ OnlySeeker
        /\ seeker' = [seeker EXCEPT !.data = Listed(a.row.data, a.list)]
    BY <1>3, <1>b DEF SaveAlert, Writes, At, WriteBack
  <2>2. a.list \in Lists
    BY <1>a, <2>1 DEF May
  <2>3. Listed(a.row.data, a.list) \in Data
    BY <1>a, <2>1, <2>2, Columns
  <2>4. seeker' \in Profile /\ seeker'.id = seeker.id
    BY <1>0, <2>1, <2>3 DEF Profile
  <2>5. Rest
    BY <1>0, <2>1, <2>4 DEF OnlySeeker, Rest, jobs, counts
  <2>. QED
    BY <2>1, <2>5, WorkerEnds
<1>. QED
  BY <1>1, <1>2, <1>3

(* Where a message goes is something a chat may be at.                       *)
LEMMA Routed ==
  ASSUME NEW r, NEW word \in Words
  PROVE  /\ Route(r, word) \in ChatSteps \ {"restart", "score", "record", "list", "present"}
         /\ Route(r, word) = "reset" => word = "reset"
         /\ Route(r, word) = "resume" => word = "resume"
         /\ Route(r, word) = "cover" => word = "cover"
BY DEF Route, Command, Words, ChatSteps, FillSteps

(* A message is taken up.                                                    *)
LEMMA Hears ==
  ASSUME WellFormed, NEW c \in Chats, NEW word \in Words, NEW n \in 1 .. 2, Hear(c, word, n)
  PROVE  WellFormed'
<1>. c \in Workers
  BY DEF Workers
<1>0. /\ setting \in Setting /\ seeker \in Profile /\ masters \in Nat
      /\ matched \subseteq Jobs /\ shown \in Lists \cup {<<>>} /\ created \in 0 .. MaxProfiles
      /\ troubles \in 0 .. MaxTroubles /\ seeker.id <= created
      /\ seeker.id \in Nat /\ seeker.data \in Data
  BY Typed, CareerConstants DEF Profile
<1>1. created' \in 0 .. MaxProfiles /\ created <= created'
  <2>1. CASE Has(seeker)
    BY <1>0, <2>1 DEF Hear
  <2>2. CASE ~Has(seeker)
    BY <1>0, <2>2, CareerConstants DEF Hear
  <2>. QED
    BY <2>1, <2>2
<1>2. seeker' \in Profile /\ seeker'.id <= created'
  <2>1. CASE Has(seeker)
    BY <1>0, <2>1 DEF Hear
  <2>2. CASE ~Has(seeker)
    <3>1. created + 1 \in 0 .. MaxProfiles
      BY <1>0, <2>2, CareerConstants DEF Hear
    <3>. QED
      BY <1>0, <2>2, <3>1, Rows DEF Hear
  <2>. QED
    BY <2>1, <2>2
<1>. DEFINE m == IF n <= Len(shown) THEN {shown[n]} ELSE {}
            s == Starting(Route(seeker', word), word, seeker')
            b == [s EXCEPT !.n = n, !.meant = m]
<1>3. work' = [work EXCEPT ![c] = b]
  BY DEF Hear
<1>4. m \in SUBSET Jobs
  <2>1. shown \in Seq(Jobs)
    BY <1>0, ListsOfJobs
  <2>. QED
    BY <2>1
<1>5. s \in Activity
  BY <1>2, Routed, Parts DEF Places, Works
<1>6. s.at = Route(seeker', word) /\ s.word = word /\ s.row = seeker'
  BY DEF Starting
<1>7. n \in 1 .. Rounds + 2
  BY CareerConstants
<1>8. b \in Activity /\ b.at = s.at /\ b.word = s.word /\ b.row = s.row
  <2>. HIDE DEF s, m
  <2>. QED
    BY <1>4, <1>5, <1>7 DEF Activity
<1>. HIDE DEF b, s, m
<1>9. work' \in [Workers -> Activity \cup {Idle}] /\ work'[c] = b
      /\ \A v \in Workers : v # c => work'[v] = work[v]
  BY <1>3, <1>8 DEF WellFormed, TypeOK
<1>10. setting' = setting
  BY DEF Hear
<1>11. ASSUME NEW v \in Workers, work'[v] # Idle
       PROVE  May(v, work[v])'
  <2>1. CASE v = c
    <3>1. b.at \in ChatSteps \ {"restart", "score", "record", "list", "present"}
      BY <1>6, <1>8, Routed
    <3>2. /\ b.at = "reset" => word = "reset"
          /\ b.at = "resume" => word = "resume"
          /\ b.at = "cover" => word = "cover"
      BY <1>6, <1>8, Routed
    <3>3. c \notin Tasks /\ c \notin Senders
      BY CareerConstants
    <3>4. c \in setting.chats /\ word \in setting.words
      BY DEF Hear
    <3>5. b.at \notin {"send", "sent", "restart", "score", "list", "present"}
      BY <3>1 DEF ChatSteps, FillSteps
    <3>. QED
      BY <1>2, <1>6, <1>8, <1>9, <1>10, <2>1, <3>1, <3>2, <3>3, <3>4, <3>5 DEF May
  <2>2. CASE v # c
    <3>1. work'[v] = work[v] /\ May(v, work[v]) /\ work[v].row.id \in Nat
      BY <1>9, <1>11, <2>2, Typed DEF WellFormed, Profile
    <3>2. work[v].row.id <= created'
      BY <1>0, <1>1, <3>1 DEF May
    <3>. QED
      BY <1>10, <3>1, <3>2 DEF May
  <2>. QED
    BY <2>1, <2>2
<1>12. setting' \in Settings /\ masters' \in Nat /\ matched' \subseteq Jobs
       /\ shown' \in Lists \cup {<<>>} /\ troubles' \in 0 .. MaxTroubles
  BY <1>0 DEF Hear, jobs, WellFormed, TypeOK
<1>. QED
  BY <1>1, <1>2, <1>9, <1>11, <1>12 DEF WellFormed, TypeOK

(* A process stops.                                                          *)
LEMMA Crashes ==
  ASSUME WellFormed, NEW w \in Workers, Crash(w)
  PROVE  WellFormed'
<1>1. troubles' \in 0 .. MaxTroubles
  BY Typed, CareerConstants DEF Crash, Trouble
<1>2. Rest
  BY <1>1, Typed DEF Crash, Rest, jobs
<1>. QED
  BY <1>2, WorkerFails DEF Crash

-----------------------------------------------------------------------------
LEMMA WellFormedInitially ==
  ASSUME Init
  PROVE  WellFormed
<1>1. setting \in Setting /\ setting \in Settings /\ setting.joined \in BOOLEAN
  BY CareerConstants DEF Init, Setting
<1>2. Joined \in Profile /\ Joined.id = 1
  <2>. DEFINE p == NewProfile(1)
              d == [p.data EXCEPT !.experience = TRUE]
  <2>1. p \in Profile /\ p.id = 1 /\ p.data \in Data
    BY Rows, CareerConstants DEF Profile
  <2>2. Joined = [p EXCEPT !.step = "complete", !.isComplete = TRUE,
                    !.answered = Asked \ {Experience}, !.data = d]
    BY DEF Joined
  <2>. HIDE DEF p
  <2>3. d \in Data
    BY <2>1, Columns
  <2>4. "complete" \in Steps /\ Asked \ {Experience} \in SUBSET Asked
    BY DEF Steps
  <2>. HIDE DEF d
  <2>. QED
    BY <2>1, <2>2, <2>3, <2>4 DEF Profile
<1>3. NoProfile \in Profile /\ NoProfile.id = 0
  BY Rows, CareerConstants DEF NoProfile
<1>4. seeker \in Profile /\ created \in 0 .. MaxProfiles /\ seeker.id <= created
  BY <1>1, <1>2, <1>3, CareerConstants DEF Init
<1>5. work \in [Workers -> Activity \cup {Idle}] /\ \A w \in Workers : work[w] = Idle
  BY DEF Init
<1>6. masters \in Nat /\ matched \subseteq Jobs /\ shown \in Lists \cup {<<>>}
      /\ troubles \in 0 .. MaxTroubles
  BY <1>1, CareerConstants DEF Init
<1>. QED
  BY <1>1, <1>4, <1>5, <1>6 DEF WellFormed, TypeOK

LEMMA WellFormedStep ==
  ASSUME WellFormed, [Next]_vars
  PROVE  WellFormed'
<1>1. CASE UNCHANGED vars
  BY <1>1 DEF vars, jobs, counts, WellFormed, TypeOK, May
<1>2. ASSUME NEW c \in Chats, Converse(c)
      PROVE  WellFormed'
  BY <1>2, ChatStops, ChatContinues DEF Converse
<1>3. ASSUME NEW c \in Chats, NEW word \in Words, NEW n \in 1 .. 2, Hear(c, word, n)
      PROVE  WellFormed'
  BY <1>3, Hears
<1>4. ASSUME NEW t \in Tasks, Prepare(t)
      PROVE  WellFormed'
  BY <1>4, TaskGoes, TaskParses DEF Prepare
<1>5. ASSUME NEW s \in Senders, BeginAlert(s) \/ BeginDigest(s) \/ SendAlert(s) \/ SaveAlert(s)
      PROVE  WellFormed'
  BY <1>5, SenderGoes
<1>6. ASSUME NEW w \in Workers, Share(w) \/ Crash(w)
      PROVE  WellFormed'
  BY <1>6, Shares, ListGoes, Crashes DEF Share
<1>. QED
  BY <1>1, <1>2, <1>3, <1>4, <1>5, <1>6 DEF Next

(* The types of the rows, of what is under way and of what is on the phone.  *)
THEOREM TypeCorrect == Spec => []TypeOK
<1>1. Init => WellFormed
  BY WellFormedInitially
<1>2. WellFormed /\ [Next]_vars => WellFormed'
  BY WellFormedStep
<1>3. WellFormed => TypeOK
  BY DEF WellFormed
<1>. QED
  BY <1>1, <1>2, <1>3, PTL DEF Spec

-----------------------------------------------------------------------------
(* Who moves, and what becomes of the profile.                               *)
UploadTask ==
  [Starting("queued", "parse_resume", NoProfile) EXCEPT
     !.review.reupload = seeker.data.reuploadPending]

(* A chat moves itself, and may leave a task in a free place.                *)
LEMMA ChatMoves ==
  ASSUME WellFormed, NEW c \in Chats,
         \/ Converse(c)
         \/ \E word \in Words, n \in 1 .. 2 : Hear(c, word, n),
         NEW v \in Workers, v # c
  PROVE  \/ work'[v] = work[v]
         \/ v \in Tasks /\ work[v] = Idle /\ Upload(c) /\ work'[v] = UploadTask
         \/ /\ v \in Tasks /\ work[v] = Idle /\ AskForLetter(c) /\ At(c, "cover")
            /\ work'[v] = Starting("queued", "generate_cover_letter", work[c].row)
<1>. work \in [Workers -> Activity \cup {Idle}] /\ c \in Workers
  BY DEF WellFormed, TypeOK, Workers
<1>0. ASSUME NEW a, Enqueue(c, a)
      PROVE  work'[v] = work[v] \/ (v \in Tasks /\ work[v] = Idle /\ work'[v] = a)
  <2>. DEFINE free == {t \in Tasks : work[t] = Idle}
              t == CHOOSE t \in free : TRUE
  <2>1. free # {} /\ work' = [work EXCEPT ![t] = a, ![c] = Idle]
    BY <1>0 DEF Enqueue
  <2>2. t \in free
    BY <2>1
  <2>3. t \in Tasks /\ work[t] = Idle
    BY <2>2
  <2>. HIDE DEF t, free
  <2>4. t \in Workers
    BY <2>3 DEF Workers
  <2>. QED
    BY <2>1, <2>3, <2>4
<1>1. CASE Upload(c)
  BY <1>0, <1>1 DEF Upload, UploadTask
<1>2. CASE AskForLetter(c)
  BY <1>0, <1>2 DEF AskForLetter, Done
<1>3. CASE \E word \in Words, n \in 1 .. 2 : Hear(c, word, n)
  BY <1>3 DEF Hear
<1>4. CASE SetOptOut(c) \/ Reset(c) \/ Delete(c)
  BY <1>4 DEF SetOptOut, Reset, Delete, Done, Goto
<1>5. CASE AskAgain(c) \/ MoveOn(c) \/ ReviewAnyway(c)
  BY <1>5 DEF AskAgain, MoveOn, ReviewAnyway, Done, Goto
<1>6. CASE SkipAnswered(c) \/ Answer(c)
  BY <1>6 DEF SkipAnswered, Answer, Done, GotoWith
<1>7. CASE ReviewExpired(c) \/ ReviewHelp(c) \/ Confirm(c) \/ Apply(c)
  BY <1>7 DEF ReviewExpired, ReviewHelp, Confirm, Apply, Done
<1>8. CASE AwaitResume(c) \/ Help(c) \/ StartInterview(c) \/ BeginSession(c)
  BY <1>8 DEF AwaitResume, Help, StartInterview, BeginSession, Done
<1>9. CASE EvaluateAnswer(c) \/ SaveAnswer(c)
  BY <1>9 DEF EvaluateAnswer, SaveAnswer, Done, Goto
<1>10. CASE FinishSession(c) \/ CancelSession(c) \/ PromptSession(c)
  BY <1>10 DEF FinishSession, CancelSession, PromptSession, Done
<1>. QED
  BY <1>1, <1>2, <1>3, <1>4, <1>5, <1>6, <1>7, <1>8, <1>9, <1>10 DEF Converse

(* Everybody else moves alone.                                               *)
LEMMA OthersMove ==
  ASSUME WellFormed, NEW w \in Workers,
         \/ Prepare(w) \/ Share(w) \/ Crash(w)
         \/ BeginAlert(w) \/ BeginDigest(w) \/ SendAlert(w) \/ SaveAlert(w),
         NEW v \in Workers, v # w
  PROVE  work'[v] = work[v]
<1>. work \in [Workers -> Activity \cup {Idle}]
  BY DEF WellFormed, TypeOK
<1>1. CASE Prepare(w)
  BY <1>1 DEF Prepare, Load, ReadFile, CreateResume, Adopt, Parse, ParseFailed, WriteLetter,
              Done, Goto, GotoWith
<1>2. CASE Fill(w) \/ Advance(w) \/ Finish(w) \/ SaveJobSession(w) \/ PresentTopJobs(w) \/ Learn(w)
  BY <1>2 DEF Fill, Advance, Finish, SaveJobSession, PresentTopJobs, Learn, Done, Goto, GotoWith
<1>3. CASE Match(w)
  BY <1>3 DEF Match, Done
<1>4. CASE Throw(w) \/ Crash(w)
  BY <1>4 DEF Throw, Crash, Fail, Done
<1>5. CASE BeginAlert(w) \/ BeginDigest(w) \/ SendAlert(w) \/ SaveAlert(w)
  BY <1>5 DEF BeginAlert, BeginDigest, BeginSending, SendAlert, SaveAlert, Done, Goto
<1>. QED
  BY <1>1, <1>2, <1>3, <1>4, <1>5 DEF Share

(* The profile stays the same one, is deleted, or is made with a new number. *)
LEMMA Numbers ==
  ASSUME WellFormed, [Next]_vars
  PROVE  /\ setting' = setting
         /\ \/ seeker'.id = seeker.id
            \/ seeker' = NoProfile /\ seeker'.id = 0 /\ masters' = 0
            \/ /\ seeker.id = 0 /\ seeker'.id = created + 1 /\ masters' = masters
               /\ seeker' = NewProfile(created + 1)
<1>. seeker \in Profile /\ created \in Nat
  BY Typed
<1>0. seeker = [seeker EXCEPT !.id = seeker.id]
  BY DEF Profile
<1>1. CASE UNCHANGED vars
  BY <1>1 DEF vars, jobs
<1>2. ASSUME NEW c \in Chats, Converse(c)
      PROVE  /\ setting' = setting
             /\ \/ seeker'.id = seeker.id
                \/ seeker' = NoProfile /\ seeker'.id = 0 /\ masters' = 0
  <2>1. CASE Delete(c)
    BY <2>1, Rows, CareerConstants DEF Delete, NoProfile
  <2>2. CASE SetOptOut(c) \/ Reset(c)
    BY <2>2 DEF SetOptOut, Reset, OnlySeeker, Profile
  <2>3. CASE Upload(c) \/ AskForLetter(c) \/ AskAgain(c) \/ ReviewAnyway(c) \/ ReviewHelp(c)
             \/ Apply(c) \/ Help(c) \/ EvaluateAnswer(c) \/ PromptSession(c)
    BY <2>3 DEF Upload, AskForLetter, AskAgain, ReviewAnyway, ReviewHelp, Apply, Help,
                EvaluateAnswer, PromptSession, Nothing, OnlySeeker
  <2>4. CASE MoveOn(c) \/ SkipAnswered(c) \/ ReviewExpired(c)
    BY <2>4 DEF MoveOn, SkipAnswered, ReviewExpired, OnlySeeker, Profile
  <2>5. CASE Answer(c) \/ Confirm(c)
    BY <2>5 DEF Answer, Confirm, Merge, OnlySeeker, Profile
  <2>6. CASE AwaitResume(c) \/ StartInterview(c) \/ BeginSession(c) \/ SaveAnswer(c)
    BY <2>6 DEF AwaitResume, StartInterview, BeginSession, SaveAnswer, Merge, OnlySeeker, Profile
  <2>7. CASE FinishSession(c) \/ CancelSession(c)
    BY <2>7 DEF FinishSession, CancelSession, Merge, OnlySeeker, Profile
  <2>. QED
    BY <1>2, <2>1, <2>2, <2>3, <2>4, <2>5, <2>6, <2>7 DEF Converse
<1>3. ASSUME NEW c \in Chats, NEW word \in Words, NEW n \in 1 .. 2, Hear(c, word, n)
      PROVE  /\ setting' = setting
             /\ \/ seeker'.id = seeker.id
                \/ /\ seeker.id = 0 /\ seeker'.id = created + 1 /\ masters' = masters
                   /\ seeker' = NewProfile(created + 1)
  <2>1. CASE Has(seeker)
    BY <1>3, <2>1 DEF Hear
  <2>2. CASE ~Has(seeker)
    <3>1. /\ setting' = setting /\ masters' = masters /\ seeker' = NewProfile(created + 1)
          /\ created < MaxProfiles
      BY <1>3, <2>2 DEF Hear, jobs
    <3>2. created + 1 \in 0 .. MaxProfiles
      BY <3>1, CareerConstants
    <3>. QED
      BY <2>2, <3>1, <3>2, Rows DEF Has
  <2>. QED
    BY <2>1, <2>2
<1>4. ASSUME NEW t \in Tasks, Prepare(t)
      PROVE  setting' = setting /\ seeker'.id = seeker.id
  <2>1. CASE Load(t) \/ ReadFile(t) \/ CreateResume(t) \/ WriteLetter(t)
    BY <2>1 DEF Load, ReadFile, CreateResume, WriteLetter, Nothing, OnlySeeker
  <2>2. CASE Adopt(t) \/ ParseFailed(t)
    BY <2>2 DEF Adopt, ParseFailed, Merge, OnlySeeker, Profile
  <2>3. CASE Parse(t)
    BY <2>3 DEF Parse, Merge, OnlySeeker, Profile
  <2>. QED
    BY <1>4, <2>1, <2>2, <2>3 DEF Prepare
<1>5. ASSUME NEW s \in Senders, BeginAlert(s) \/ BeginDigest(s) \/ SendAlert(s) \/ SaveAlert(s)
      PROVE  setting' = setting /\ seeker'.id = seeker.id
  BY <1>5 DEF BeginAlert, BeginDigest, BeginSending, SendAlert, SaveAlert, WriteBack, OnlySeeker,
              Profile
<1>6. ASSUME NEW w \in Workers, Share(w) \/ Crash(w)
      PROVE  setting' = setting /\ seeker'.id = seeker.id
  <2>1. CASE Fill(w)
    BY <2>1 DEF Fill, Filled, OnlySeeker, Profile
  <2>2. CASE Advance(w) \/ Finish(w) \/ SaveJobSession(w) \/ Learn(w)
    BY <2>2 DEF Advance, Finish, SaveJobSession, Learn, WriteBack, OnlySeeker, Profile
  <2>3. CASE Match(w) \/ PresentTopJobs(w) \/ Throw(w) \/ Crash(w)
    BY <2>3 DEF Match, PresentTopJobs, Throw, Crash, Nothing, OnlySeeker
  <2>. QED
    BY <1>6, <2>1, <2>2, <2>3 DEF Share
<1>. QED
  BY <1>1, <1>2, <1>3, <1>4, <1>5, <1>6 DEF Next

(* A profile that was deleted does not come back.                            *)
LEMMA NeverAgain ==
  ASSUME WellFormed, [Next]_vars, NEW row, row.id \in Nat, row.id <= created, SameRow(row)'
  PROVE  SameRow(row)
<1>1. row.id = seeker'.id /\ row.id # 0
  BY DEF SameRow, Has
<1>. QED
  BY <1>1, Typed, Numbers DEF SameRow, Has

-----------------------------------------------------------------------------
(* One worker for tasks reads one resume at a time, and has taken the flag   *)
(* from the others before it gives it to its own.                            *)
Busy(t) == work[t] # Idle /\ work[t].at # "queued"

Master ==
  setting.readers = 1 =>
    /\ \A t, u \in Tasks : Busy(t) /\ Busy(u) => t = u
    /\ masters <= 1
    /\ \A t \in Tasks : At(t, "create") /\ SameRow(work[t].row) => masters = 0

(* Nobody takes the place of a task that is read but by taking it up.        *)
LEMMA NobodyElse ==
  ASSUME NEW t \in Tasks, Load(t), setting.readers = 1, NEW u \in Tasks
  PROVE  ~Busy(u)
<1>. DEFINE B == {v \in Tasks : work[v] # Idle /\ ~At(v, "queued")}
<1>1. Cardinality(B) < 1
  BY DEF Load
<1>2. IsFiniteSet(B)
  BY CareerConstants, FS_Subset
<1>3. B = {}
  BY <1>1, <1>2, FS_CardinalityType, FS_EmptySet
<1>. QED
  BY <1>3 DEF Busy, At

(* Tasks that stand still or wait, and resumes that stay as they are.        *)
LEMMA MasterKept ==
  ASSUME WellFormed, Master, [Next]_vars,
         masters' = masters \/ masters' = 0,
         \A t \in Tasks : /\ Busy(t)' => Busy(t)
                          /\ At(t, "create")' => work'[t] = work[t]
  PROVE  Master'
<1>. SUFFICES ASSUME setting.readers = 1
              PROVE  /\ \A t, u \in Tasks : Busy(t)' /\ Busy(u)' => t = u
                     /\ masters' <= 1
                     /\ \A t \in Tasks : At(t, "create")' /\ SameRow(work[t].row)' => masters' = 0
  BY Numbers DEF Master
<1>1. \A t, u \in Tasks : Busy(t)' /\ Busy(u)' => t = u
  BY DEF Master
<1>2. masters' <= 1
  BY DEF Master
<1>3. ASSUME NEW t \in Tasks, At(t, "create")', SameRow(work[t].row)'
      PROVE  masters' = 0
  <2>1. work'[t] = work[t] /\ At(t, "create") /\ t \in Workers
    BY <1>3 DEF At, Workers
  <2>2. work[t].row.id \in Nat /\ work[t].row.id <= created
    BY <2>1, Typed DEF At, Profile
  <2>3. SameRow(work[t].row)
    <3>1. PICK row : row = work[t].row
      OBVIOUS
    <3>2. SameRow(row)'
      BY <1>3, <2>1, <3>1 DEF SameRow, Has
    <3>3. SameRow(row)
      BY <2>2, <3>1, <3>2, NeverAgain
    <3>. QED
      BY <3>1, <3>3
  <2>. QED
    BY <2>1, <2>3 DEF Master
<1>. QED
  BY <1>1, <1>2, <1>3

LEMMA MasterStep ==
  ASSUME WellFormed, Master, [Next]_vars
  PROVE  Master'
<1>. work \in [Workers -> Activity \cup {Idle}] /\ Tasks \subseteq Workers
  BY DEF WellFormed, TypeOK, Workers
<1>1. CASE UNCHANGED vars
  BY <1>1 DEF vars, jobs, Master, Busy, At, SameRow
<1>2. ASSUME NEW c \in Chats,
             Converse(c) \/ (\E word \in Words, n \in 1 .. 2 : Hear(c, word, n))
      PROVE  Master'
  <2>1. ASSUME NEW t \in Tasks
        PROVE  work'[t] = work[t] \/ (work'[t] # Idle => work'[t].at = "queued")
    <3>1. t # c /\ t \in Workers
      BY CareerConstants
    <3>2. UploadTask.at = "queued"
      BY DEF UploadTask, Starting
    <3>3. Starting("queued", "generate_cover_letter", work[c].row).at = "queued"
      BY DEF Starting
    <3>. QED
      BY <1>2, <3>1, <3>2, <3>3, ChatMoves
  <2>2. \A t \in Tasks : /\ Busy(t)' => Busy(t)
                         /\ At(t, "create")' => work'[t] = work[t]
    BY <2>1 DEF Busy, At
  <2>3. masters' = masters \/ masters' = 0
    <3>1. CASE \E word \in Words, n \in 1 .. 2 : Hear(c, word, n)
      BY <3>1 DEF Hear, jobs
    <3>2. CASE Delete(c)
      BY <3>2 DEF Delete
    <3>3. CASE Converse(c) /\ ~Delete(c)
      BY <3>3 DEF Converse, SetOptOut, Reset, Upload, AskForLetter, AskAgain, MoveOn,
                  ReviewAnyway, SkipAnswered, Answer, ReviewExpired, ReviewHelp, Confirm,
                  Apply, AwaitResume, Help, StartInterview, BeginSession, EvaluateAnswer,
                  SaveAnswer, FinishSession, CancelSession, PromptSession, Nothing,
                  OnlySeeker, jobs
    <3>. QED
      BY <1>2, <3>1, <3>2, <3>3
  <2>. QED
    BY <2>2, <2>3, MasterKept
<1>3. ASSUME NEW t \in Tasks, Load(t)
      PROVE  Master'
  <2>1. \A u \in Workers : u # t => work'[u] = work[u]
    BY <1>3, OthersMove DEF Prepare
  <2>2. ~At(t, "create")'
    <3>1. work[t] \in Activity
      BY <1>3 DEF Load, At
    <3>2. PICK r : Done(t) \/ GotoWith(t, "read", r) \/ GotoWith(t, "letter", r)
      BY <1>3 DEF Load
    <3>. QED
      BY <3>1, <3>2 DEF At, Done, GotoWith, Activity
  <2>3. masters' = masters /\ seeker' = seeker /\ setting' = setting
    BY <1>3 DEF Load, Nothing, OnlySeeker, jobs
  <2>4. setting.readers = 1 => \A u \in Tasks : ~Busy(u)
    BY <1>3, NobodyElse
  <2>5. \A u \in Tasks : At(u, "create") => Busy(u)
    BY DEF At, Busy
  <2>6. \A u \in Tasks : u # t => Busy(u)' = Busy(u) /\ At(u, "create")' = At(u, "create")
    BY <2>1 DEF Busy, At
  <2>. QED
    BY <2>2, <2>3, <2>4, <2>5, <2>6 DEF Master
<1>4. ASSUME NEW t \in Tasks, ReadFile(t) \/ CreateResume(t)
      PROVE  Master'
  <2>1. \A u \in Workers : u # t => work'[u] = work[u]
    BY <1>4, OthersMove DEF Prepare
  <2>2. Busy(t)
    BY <1>4 DEF ReadFile, CreateResume, Writes, At, Busy
  <2>3. seeker' = seeker /\ setting' = setting
    BY <1>4 DEF ReadFile, CreateResume, counts
  <2>4. ASSUME setting.readers = 1, Master
        PROVE  \A u \in Tasks : u # t => ~Busy(u)' /\ ~At(u, "create")'
    <3>1. \A u \in Tasks : u # t => ~Busy(u)
      BY <2>2, <2>4 DEF Master
    <3>. QED
      BY <2>1, <3>1 DEF Busy, At
  <2>5. ASSUME setting.readers = 1
        PROVE  masters' <= 1 /\ (At(t, "create")' /\ SameRow(work[t].row)' => masters' = 0)
    <3>1. CASE ReadFile(t)
      <4>1. CASE Done(t) /\ masters' = masters
        BY <2>5, <4>1 DEF Master, Done, At
      <4>2. CASE Goto(t, "create") /\ masters' = IF SameRow(work[t].row) THEN 0 ELSE masters
        <5>1. work'[t].row = work[t].row
          BY <4>2, <2>2 DEF Goto, Activity, Busy
        <5>2. SameRow(work[t].row)' => SameRow(work[t].row)
          BY <2>3, <5>1 DEF SameRow, Has
        <5>. QED
          BY <2>5, <4>2, <5>2 DEF Master
      <4>. QED
        BY <3>1, <4>1, <4>2 DEF ReadFile
    <3>2. CASE CreateResume(t)
      <4>1. masters = 0
        BY <2>5, <3>2 DEF CreateResume, Writes, Master
      <4>2. masters' = 1 /\ ~At(t, "create")'
        BY <3>2, <4>1, <2>2 DEF CreateResume, Goto, At, Activity, Busy
      <4>. QED
        BY <4>2
    <3>. QED
      BY <1>4, <3>1, <3>2
  <2>. QED
    BY <2>3, <2>4, <2>5 DEF Master
<1>5. ASSUME NEW t \in Tasks, Adopt(t) \/ Parse(t) \/ ParseFailed(t) \/ WriteLetter(t)
      PROVE  Master'
  <2>1. \A u \in Workers : u # t => work'[u] = work[u]
    BY <1>5, OthersMove DEF Prepare
  <2>2. Busy(t)
    BY <1>5 DEF Adopt, Parse, ParseFailed, WriteLetter, Writes, At, Busy
  <2>3. masters' = masters
    BY <1>5 DEF Adopt, Parse, ParseFailed, WriteLetter, OnlySeeker, Nothing, jobs
  <2>4. ~At(t, "create")'
    <3>1. work[t] \in Activity
      BY <2>2 DEF Busy
    <3>2. CASE Adopt(t)
      BY <3>1, <3>2 DEF Adopt, Goto, At, Activity
    <3>3. CASE Parse(t)
      BY <3>1, <3>3 DEF Parse, Done, At, Activity
    <3>4. CASE ParseFailed(t)
      BY <3>1, <3>4 DEF ParseFailed, Done, At
    <3>5. CASE WriteLetter(t)
      BY <3>1, <3>5 DEF WriteLetter, Done, Goto, At, Activity
    <3>. QED
      BY <1>5, <3>2, <3>3, <3>4, <3>5
  <2>5. \A u \in Tasks : /\ Busy(u)' => Busy(u)
                         /\ At(u, "create")' => work'[u] = work[u]
    BY <2>1, <2>2, <2>4 DEF Busy, At
  <2>. QED
    BY <2>3, <2>5, MasterKept
<1>6. ASSUME NEW w \in Workers,
             \/ w \in Senders /\ (BeginAlert(w) \/ BeginDigest(w) \/ SendAlert(w) \/ SaveAlert(w))
             \/ Share(w) \/ Crash(w)
      PROVE  Master'
  <2>1. \A u \in Workers : u # w => work'[u] = work[u]
    BY <1>6, OthersMove
  <2>2. masters' = masters
    BY <1>6 DEF BeginAlert, BeginDigest, BeginSending, SendAlert, SaveAlert, Share, Fill, Advance,
                Finish, Match, SaveJobSession, PresentTopJobs, Learn, Throw, Crash, Nothing,
                OnlySeeker, jobs
  <2>3. w \in Tasks => /\ Busy(w)' => Busy(w)
                       /\ ~At(w, "create")'
    <3>. SUFFICES ASSUME w \in Tasks
                  PROVE  (Busy(w)' => Busy(w)) /\ ~At(w, "create")'
      OBVIOUS
    <3>1. w \notin Senders
      BY CareerConstants
    <3>2. work[w] # Idle => work[w] \in Activity
      OBVIOUS
    <3>3. CASE Fill(w) \/ Advance(w)
      BY <3>2, <3>3 DEF Fill, Advance, GotoWith, Done, Writes, At, Busy, Activity
    <3>4. CASE Finish(w) \/ SaveJobSession(w) \/ PresentTopJobs(w) \/ Learn(w)
      BY <3>2, <3>4 DEF Finish, SaveJobSession, PresentTopJobs, Learn, Goto, Done, Writes, At,
                        Busy, Activity
    <3>5. CASE Match(w)
      BY <3>2, <3>5 DEF Match, Done, Writes, At, Busy, Activity
    <3>6. CASE Throw(w) \/ Crash(w)
      <4>1. work[w] # Idle /\ (Done(w) \/ Fail(w))
        BY <3>6 DEF Throw, Crash
      <4>2. work'[w] = Idle \/ work'[w].at = "queued"
        BY <3>2, <4>1 DEF Done, Fail, Activity
      <4>. QED
        BY <4>2 DEF Busy, At
    <3>. QED
      BY <1>6, <3>1, <3>3, <3>4, <3>5, <3>6 DEF Share
  <2>4. \A u \in Tasks : /\ Busy(u)' => Busy(u)
                         /\ At(u, "create")' => work'[u] = work[u]
    BY <2>1, <2>3 DEF Busy, At
  <2>. QED
    BY <2>2, <2>4, MasterKept
<1>. QED
  BY <1>1, <1>2, <1>3, <1>4, <1>5, <1>6 DEF Next, Prepare, Workers

LEMMA MasterInitially ==
  ASSUME Init
  PROVE  Master
<1>1. \A w \in Workers : work[w] = Idle
  BY DEF Init
<1>2. masters \in {0, 1}
  BY DEF Init
<1>. QED
  BY <1>1, <1>2 DEF Master, Busy, At, Workers

(* With one worker for tasks there is one master resume at most, whatever is *)
(* cut off and repeated, reset or deleted while a file is read.              *)
THEOREM OneResumeIsMaster == Spec => []OneMaster
<1>1. Init => WellFormed /\ Master
  BY WellFormedInitially, MasterInitially
<1>2. WellFormed /\ Master /\ [Next]_vars => (WellFormed /\ Master)'
  BY WellFormedStep, MasterStep
<1>3. Master => OneMaster
  BY DEF Master, OneMaster
<1>. QED
  BY <1>1, <1>2, <1>3, PTL DEF Spec

-----------------------------------------------------------------------------
(* What a row has an answer to, and a row that may be relied on: complete    *)
(* when everything is answered, at a question when those before are.         *)
NoReset == "reset" \notin setting.words

Sound ==
  "reset" \in setting.words =>
    OneChat /\ setting.confirm /\ setting.words \cap {"resume", "cover"} = {}

Got(row) == {q \in Asked : Answered(row, q)}

RowRight(row) ==
  /\ row.isComplete => Got(row) = Asked
  /\ \A i \in 1 .. Len(Questions) : row.step = Questions[i] =>
       \A k \in 1 .. i - 1 : Questions[k] \in Got(row)
  /\ row.data.parseReview.reupload => row.isComplete /\ NoReset
  /\ row.data.reuploadPending => NoReset

Same(row, s) == row.id # 0 /\ row.id = s.id

(* A task that reads a resume knows no more of the row than whether it was   *)
(* complete, and nothing while it waits.                                     *)
Waits(w, a) == w \in Tasks /\ a.word = "parse_resume" /\ a.at = "queued"
Reads(w, a) == w \in Tasks /\ a.word = "parse_resume" /\ a.at \in ReadSteps \cup {"fill"}

(* What worker w may rely on at a when the row is s: what the copy it has    *)
(* got answered is answered still.                                           *)
Know(w, a, s) ==
  /\ Reads(w, a) => a.row.answered = {} /\ a.row.data = NoData
  /\ ~Reads(w, a) /\ ~Waits(w, a) => RowRight(a.row)
  /\ Same(a.row, s) /\ ~Waits(w, a) =>
       /\ a.at # "restart" /\ (w \in Chats \/ NoReset) => Got(a.row) \subseteq Got(s)
       /\ NoReset /\ a.row.isComplete => s.isComplete
  /\ a.at \in {"finish", "match", "list"} => Got(a.row) = Asked
  /\ \/ a.at \in {"find", "apply", "dismiss", "cover", "guidance", "learn", "rematch",
                  "letter", "send", "sent"}
     \/ w \in Tasks /\ a.word = "generate_cover_letter"
     => a.row.isComplete
  /\ a.review.reupload => NoReset /\ (a.at = "fill" => a.row.isComplete)

Questioned ==
  Sound => /\ RowRight(seeker)
           /\ \A w \in Workers : work[w] # Idle => Know(w, work[w], seeker)

(* The row has become fuller.                                                *)
Fuller(s, t) ==
  t.id = s.id /\ Got(s) \subseteq Got(t) /\ (s.isComplete => t.isComplete)

(* More columns, more answers.                                               *)
LEMMA GotGrows ==
  ASSUME NEW s, NEW t, s.answered \subseteq t.answered,
         Experience \in Got(s) => t.data.experience
  PROVE  Got(s) \subseteq Got(t)
BY DEF Got, Answered

LEMMA GotGrowsPlainly ==
  ASSUME NEW s, NEW t, s.answered \subseteq t.answered,
         s.data.experience => t.data.experience
  PROVE  Got(s) \subseteq Got(t)
BY DEF Got, Answered

(* A row that is written without touching what it was relied on for.         *)
LEMMA RowStays ==
  ASSUME NEW s, NEW t, RowRight(s), Fuller(s, t), t.isComplete => s.isComplete,
         t.step = s.step \/ t.step \notin Asked \/ t.step = Questions[1],
         t.data.parseReview.reupload => s.data.parseReview.reupload,
         t.data.reuploadPending => s.data.reuploadPending
  PROVE  RowRight(t)
<1>1. t.isComplete => Got(t) = Asked
  BY DEF RowRight, Fuller, Got
<1>2. ASSUME NEW i \in 1 .. Len(Questions), t.step = Questions[i], NEW k \in 1 .. i - 1
      PROVE  Questions[k] \in Got(t)
  <2>1. t.step \in Asked
    BY <1>2 DEF Asked
  <2>2. CASE t.step = s.step
    BY <1>2, <2>2 DEF RowRight, Fuller
  <2>3. CASE t.step = Questions[1]
    <3>1. i = 1
      <4>1. 1 \in 1 .. Len(Questions)
        BY <1>2
      <4>. QED
        BY <1>2, <2>3, <4>1, CareerConstants
    <3>. QED
      BY <1>2, <3>1
  <2>. QED
    BY <2>1, <2>2, <2>3
<1>. QED
  BY <1>1, <1>2 DEF RowRight, Fuller

(* The step after question q: everything up to q is answered.                *)
LEMMA NextQuestion ==
  ASSUME NEW q \in Asked, NEW r, NEW s, RowRight(r), r.step = q,
         Got(r) \subseteq Got(s), q \in Got(s)
  PROVE  /\ \A i \in 1 .. Len(Questions) : After(q) = Questions[i] =>
              \A k \in 1 .. i - 1 : Questions[k] \in Got(s)
         /\ After(q) = "complete" => Got(s) = Asked
<1>. DEFINE j == CHOOSE i \in 1 .. Len(Questions) : Questions[i] = q
<1>1. j \in 1 .. Len(Questions) /\ Questions[j] = q
  BY DEF Asked
<1>2. After(q) = IF j = Len(Questions) THEN "complete" ELSE Questions[j + 1]
  BY DEF After
<1>. HIDE DEF j
<1>3. \A k \in 1 .. j : Questions[k] \in Got(s)
  <2>1. \A k \in 1 .. j - 1 : Questions[k] \in Got(r)
    BY <1>1 DEF RowRight
  <2>. QED
    BY <1>1, <2>1
<1>4. ASSUME NEW i \in 1 .. Len(Questions), After(q) = Questions[i], NEW k \in 1 .. i - 1
      PROVE  Questions[k] \in Got(s)
  <2>1. Questions[i] # "complete"
    BY CareerConstants DEF Asked
  <2>2. j # Len(Questions) /\ j + 1 \in 1 .. Len(Questions) /\ Questions[j + 1] = Questions[i]
    BY <1>1, <1>2, <1>4, <2>1
  <2>3. i = j + 1
    BY <2>2, CareerConstants
  <2>. QED
    BY <1>1, <1>3, <2>3
<1>5. ASSUME After(q) = "complete"
      PROVE  Got(s) = Asked
  <2>1. j = Len(Questions)
    <3>1. SUFFICES ASSUME j # Len(Questions) PROVE FALSE
      OBVIOUS
    <3>2. j + 1 \in 1 .. Len(Questions)
      BY <1>1, <3>1, CareerConstants
    <3>3. Questions[j + 1] \in Asked
      BY <3>2 DEF Asked
    <3>. QED
      BY <1>2, <1>5, <3>1, <3>3, CareerConstants
  <2>. QED
    BY <1>3, <2>1 DEF Asked, Got
<1>. QED
  BY <1>4, <1>5

(* The first question that is open in r.                                     *)
LEMMA FirstOpenQuestion ==
  ASSUME NEW r, NEW s, Got(r) \subseteq Got(s)
  PROVE  /\ \A i \in 1 .. Len(Questions) : FirstOpen(r) = Questions[i] =>
              \A k \in 1 .. i - 1 : Questions[k] \in Got(s)
         /\ FirstOpen(r) = "complete" => Got(s) = Asked
<1>. DEFINE open == {i \in 1 .. Len(Questions) : ~Answered(r, Questions[i])}
            j == CHOOSE i \in open : \A k \in open : i <= k
<1>1. FirstOpen(r) = IF open = {} THEN "complete" ELSE Questions[j]
  BY DEF FirstOpen
<1>2. \A k \in 1 .. Len(Questions) : k \notin open => Questions[k] \in Got(r)
  BY DEF Got, Asked
<1>3. open # {} => j \in open /\ \A k \in open : j <= k
  <2>1. SUFFICES ASSUME open # {} PROVE j \in open /\ \A k \in open : j <= k
    OBVIOUS
  <2>2. open \in SUBSET Nat
    OBVIOUS
  <2>3. \E i \in open : \A k \in open : i <= k
    BY <2>1, <2>2, LeastNumber
  <2>. QED
    BY <2>3
<1>4. \A k \in open : k \in 1 .. Len(Questions)
  OBVIOUS
<1>. HIDE DEF j, open
<1>5. ASSUME NEW i \in 1 .. Len(Questions), FirstOpen(r) = Questions[i], NEW k \in 1 .. i - 1
      PROVE  Questions[k] \in Got(s)
  <2>1. Questions[i] # "complete"
    BY CareerConstants DEF Asked
  <2>2. open # {} /\ Questions[j] = Questions[i]
    BY <1>1, <1>5, <2>1
  <2>3. j \in 1 .. Len(Questions) /\ i = j
    BY <1>3, <1>4, <2>2, CareerConstants
  <2>4. k \in 1 .. Len(Questions) /\ k \notin open
    BY <1>3, <2>2, <2>3
  <2>. QED
    BY <1>2, <2>4
<1>6. ASSUME FirstOpen(r) = "complete"
      PROVE  Got(s) = Asked
  <2>1. open = {}
    <3>1. SUFFICES ASSUME open # {} PROVE FALSE
      OBVIOUS
    <3>2. Questions[j] \in Asked
      BY <1>3, <1>4, <3>1 DEF Asked
    <3>. QED
      BY <1>1, <1>6, <3>1, <3>2, CareerConstants
  <2>. QED
    BY <1>2, <2>1 DEF Asked, Got
<1>. QED
  BY <1>5, <1>6

(* The settings stay, so what is known of given rows does not depend on when. *)
LEMMA RowRightAlways ==
  ASSUME setting' = setting, RowRight(seeker')
  PROVE  RowRight(seeker)'
BY DEF RowRight, NoReset, Got, Answered

(* What is known of the next state is known in it.                           *)
LEMMA KnowAlways ==
  ASSUME setting' = setting, NEW w, Know(w, work'[w], seeker')
  PROVE  Know(w, work[w], seeker)'
<1>. RowRight(work'[w].row) => RowRight(work[w].row)'
  BY DEF RowRight, NoReset, Got, Answered
<1>. QED
  BY DEF Know, NoReset, Reads, Waits, Same, Got, Answered

(* A worker that does not move knows what it knew when the row gets fuller,  *)
(* or is another one from now on.                                            *)
LEMMA KnowsStill ==
  ASSUME WellFormed, NEW w \in Workers, NEW a \in Activity, a.row.id <= created,
         Know(w, a, seeker),
         \/ Fuller(seeker, seeker')
         \/ seeker'.id = 0
         \/ seeker.id = 0 /\ seeker'.id = created + 1
  PROVE  Know(w, a, seeker')
<1>1. a.row.id \in Nat /\ created \in Nat
  BY Typed DEF Activity, Profile
<1>2. CASE Fuller(seeker, seeker')
  BY <1>2 DEF Know, Fuller, Same
<1>3. CASE ~Same(a.row, seeker')
  BY <1>3 DEF Know
<1>4. seeker'.id = 0 \/ (seeker.id = 0 /\ seeker'.id = created + 1) => ~Same(a.row, seeker')
  BY <1>1 DEF Same
<1>. QED
  BY <1>2, <1>3, <1>4

(* One worker moves, and what the others rely on stays.                      *)
LEMMA QuestionedKept ==
  ASSUME WellFormed, Questioned, setting' = setting, NEW w \in Workers,
         Sound => /\ RowRight(seeker')
                  /\ \/ Fuller(seeker, seeker')
                     \/ seeker'.id = 0
                     \/ seeker.id = 0 /\ seeker'.id = created + 1
                  /\ work'[w] # Idle => Know(w, work'[w], seeker')
                  /\ \A v \in Workers : v # w /\ work'[v] # work[v] /\ work'[v] # Idle =>
                       Know(v, work'[v], seeker')
  PROVE  Questioned'
<1>. SUFFICES ASSUME Sound
              PROVE  /\ RowRight(seeker)'
                     /\ \A v \in Workers : work'[v] # Idle => Know(v, work[v], seeker)'
  BY DEF Questioned, Sound, OneChat
<1>1. RowRight(seeker)'
  BY RowRightAlways
<1>2. ASSUME NEW v \in Workers, work'[v] # Idle
      PROVE  Know(v, work[v], seeker)'
  <2>1. Know(v, work'[v], seeker')
    <3>1. CASE v = w
      BY <1>2, <3>1
    <3>2. CASE v # w /\ work'[v] # work[v]
      BY <1>2, <3>2
    <3>3. CASE work'[v] = work[v]
      <4>1. work[v] \in Activity /\ work[v].row.id <= created
        BY <1>2, <3>3, Typed
      <4>2. Know(v, work[v], seeker)
        BY <1>2, <3>3 DEF Questioned
      <4>3. Know(v, work[v], seeker')
        BY <4>1, <4>2, KnowsStill
      <4>. QED
        BY <3>3, <4>3
    <3>. QED
      BY <3>1, <3>2, <3>3
  <2>. QED
    BY <2>1, KnowAlways
<1>. QED
  BY <1>1, <1>2

(* The row stays what it was and only the worker moves.                      *)
LEMMA RowUntouched ==
  ASSUME Questioned, Sound, seeker' = seeker
  PROVE  RowRight(seeker') /\ Fuller(seeker, seeker')
BY DEF Questioned, Fuller

(* What a worker knows where it goes, with the same row.                     *)
LEMMA KnowsThere ==
  ASSUME NEW w \in Workers, NEW a, NEW b, NEW s, Know(w, a, s),
         b.row = a.row, b.word = a.word, b.review = a.review, a.at # "restart",
         ~Waits(w, a), ~Waits(w, b), Reads(w, b) <=> Reads(w, a),
         b.at \in {"finish", "match", "list"} => Got(a.row) = Asked,
         b.at \in {"find", "apply", "dismiss", "cover", "guidance", "learn", "rematch",
                   "letter", "send", "sent"} => a.row.isComplete,
         b.at = "fill" /\ a.review.reupload => a.row.isComplete
  PROVE  Know(w, b, s)
BY DEF Know

(* A worker that is done, and one that goes on, with the row as it is now.   *)
LEMMA DoneKnown ==
  ASSUME WellFormed, Questioned, setting' = setting, NEW w \in Workers, Done(w),
         Sound => /\ RowRight(seeker')
                  /\ Fuller(seeker, seeker') \/ seeker'.id = 0
  PROVE  Questioned'
<1>1. work'[w] = Idle /\ \A v \in Workers : v # w => work'[v] = work[v]
  BY DEF Done, WellFormed, TypeOK
<1>. QED
  BY <1>1, QuestionedKept

LEMMA GoesKnown ==
  ASSUME WellFormed, Questioned, setting' = setting, NEW w \in Workers, NEW b,
         work' = [work EXCEPT ![w] = b],
         Sound => RowRight(seeker') /\ Fuller(seeker, seeker') /\ Know(w, b, seeker')
  PROVE  Questioned'
<1>1. work'[w] = b /\ \A v \in Workers : v # w => work'[v] = work[v]
  BY DEF WellFormed, TypeOK
<1>. QED
  BY <1>1, QuestionedKept

(* What a chat, or a task past reading, knows of the row it has.             *)
LEMMA ChatKnows ==
  ASSUME WellFormed, Questioned, Sound, NEW c \in Chats, work[c] # Idle
  PROVE  /\ Know(c, work[c], seeker) /\ RowRight(work[c].row) /\ RowRight(seeker)
         /\ SameRow(work[c].row) /\ work[c].at # "restart" =>
              Got(work[c].row) \subseteq Got(seeker)
         /\ \A a : ~Reads(c, a) /\ ~Waits(c, a)
<1>1. c \in Workers /\ c \notin Tasks
  BY CareerConstants DEF Workers
<1>2. \A a : ~Reads(c, a) /\ ~Waits(c, a)
  BY <1>1 DEF Reads, Waits
<1>. QED
  BY <1>1, <1>2 DEF Questioned, Know, SameRow, Has, Same

(* Another value of the column, as far as the answers go.                    *)
LEMMA DataWritten ==
  ASSUME NEW s \in Profile, NEW d \in Data, NEW t, t = [s EXCEPT !.data = d],
         RowRight(s), s.data.experience => d.experience,
         d.parseReview.reupload => s.data.parseReview.reupload,
         d.reuploadPending => s.data.reuploadPending
  PROVE  RowRight(t) /\ Fuller(s, t)
<1>1. /\ t.id = s.id /\ t.answered = s.answered /\ t.isComplete = s.isComplete
      /\ t.step = s.step /\ t.data = d
  BY DEF Profile
<1>2. Fuller(s, t)
  BY <1>1, GotGrowsPlainly DEF Fuller
<1>. QED
  BY <1>1, <1>2, RowStays

LEMMA StepWritten ==
  ASSUME NEW s \in Profile, NEW q \in Steps, NEW t, t = [s EXCEPT !.step = q], RowRight(s)
  PROVE  /\ Fuller(s, t) /\ Got(t) = Got(s) /\ t.isComplete = s.isComplete /\ t.data = s.data
         /\ t.step = q
         /\ q \notin Asked \/ q = Questions[1] => RowRight(t)
<1>1. /\ t.id = s.id /\ t.answered = s.answered /\ t.isComplete = s.isComplete
      /\ t.step = q /\ t.data = s.data
  BY DEF Profile
<1>2. Got(t) = Got(s)
  BY <1>1 DEF Got, Answered
<1>3. Fuller(s, t)
  BY <1>1, <1>2 DEF Fuller
<1>. QED
  BY <1>1, <1>2, <1>3, RowStays

LEMMA NewRow ==
  ASSUME NEW n
  PROVE  RowRight(NewProfile(n))
<1>. DEFINE p == NewProfile(n)
<1>1. /\ p.isComplete = FALSE /\ p.step = "welcome" /\ p.data.reuploadPending = FALSE
      /\ p.data.parseReview.reupload = FALSE
  BY DEF NewProfile, NoData, NoReview
<1>2. \A i \in 1 .. Len(Questions) : p.step # Questions[i]
  BY <1>1, CareerConstants DEF Asked
<1>. HIDE DEF p
<1>3. RowRight(p)
  BY <1>1, <1>2 DEF RowRight
<1>. QED
  BY <1>3 DEF p

(* What the messages that end at once leave in the row.                      *)
LEMMA ChatStopsKnown ==
  ASSUME WellFormed, Questioned, setting' = setting, NEW c \in Chats,
         \/ SetOptOut(c) \/ Delete(c) \/ AskAgain(c) \/ MoveOn(c) \/ ReviewExpired(c)
         \/ ReviewHelp(c) \/ AwaitResume(c) \/ Help(c) \/ StartInterview(c)
         \/ BeginSession(c) \/ FinishSession(c) \/ CancelSession(c) \/ PromptSession(c)
  PROVE  Questioned'
<1>0. c \in Workers /\ seeker \in Profile /\ seeker.data \in Data
  BY Typed DEF Workers, Profile
<1>. SUFFICES ASSUME Sound
              PROVE  /\ Done(c) /\ RowRight(seeker')
                     /\ Fuller(seeker, seeker') \/ seeker'.id = 0
  <2>1. Done(c)
    BY DEF SetOptOut, Delete, AskAgain, MoveOn, ReviewExpired, ReviewHelp, AwaitResume, Help,
           StartInterview, BeginSession, FinishSession, CancelSession, PromptSession
  <2>. QED
    BY <1>0, <2>1, DoneKnown
<1>r. RowRight(seeker)
  BY DEF Questioned
<1>1. CASE SetOptOut(c)
  <2>1. seeker' = [seeker EXCEPT !.digestOptOut = work[c].word = "stop"]
    BY <1>1 DEF SetOptOut
  <2>2. /\ seeker'.id = seeker.id /\ seeker'.answered = seeker.answered
        /\ seeker'.isComplete = seeker.isComplete /\ seeker'.step = seeker.step
        /\ seeker'.data = seeker.data
    BY <1>0, <2>1 DEF Profile
  <2>3. Fuller(seeker, seeker')
    BY <2>2, GotGrowsPlainly DEF Fuller
  <2>. QED
    BY <1>1, <1>r, <2>2, <2>3, RowStays DEF SetOptOut
<1>2. CASE Delete(c)
  <2>1. seeker' = NoProfile /\ seeker'.id = 0 /\ Done(c)
    BY <1>2 DEF Delete, NoProfile, NewProfile
  <2>2. RowRight(NoProfile)
    BY NewRow DEF NoProfile
  <2>. QED
    BY <2>1, <2>2
<1>3. CASE AskAgain(c) \/ ReviewHelp(c) \/ Help(c) \/ PromptSession(c)
  <2>1. seeker' = seeker /\ Done(c)
    BY <1>3 DEF AskAgain, ReviewHelp, Help, PromptSession, Nothing
  <2>. QED
    BY <2>1, RowUntouched
<1>4. CASE MoveOn(c) \/ ReviewExpired(c)
  <2>1. Done(c) /\ (\/ seeker' = [seeker EXCEPT !.step = "awaiting_resume"]
                    \/ seeker' = [seeker EXCEPT !.step = Questions[1]])
    BY <1>4 DEF MoveOn, ReviewExpired
  <2>2. "awaiting_resume" \in Steps \ Asked /\ Questions[1] \in Steps
    BY QuestionSteps, CareerConstants DEF Steps
  <2>. QED
    BY <1>0, <1>r, <2>1, <2>2, StepWritten
<1>5. CASE AwaitResume(c)
  <2>. DEFINE d == [seeker.data EXCEPT !.reuploadPending = TRUE]
  <2>1. work[c] # Idle /\ work[c].at = "resume" /\ Done(c)
    BY <1>5 DEF AwaitResume, Writes, At
  <2>2. "resume" \in setting.words
    <3>1. May(c, work[c])
      BY <1>0, <2>1, Typed
    <3>. QED
      BY <2>1, <3>1 DEF May
  <2>3. NoReset
    BY <2>2 DEF Sound, NoReset
  <2>4. seeker' = [seeker EXCEPT !.data = d]
    BY <1>5 DEF AwaitResume, Merge
  <2>5. d \in Data /\ d.experience = seeker.data.experience
        /\ d.parseReview = seeker.data.parseReview
    BY <1>0 DEF Data
  <2>. HIDE DEF d
  <2>6. /\ seeker'.id = seeker.id /\ seeker'.answered = seeker.answered
        /\ seeker'.isComplete = seeker.isComplete /\ seeker'.step = seeker.step
        /\ seeker'.data = d
    BY <1>0, <2>4, <2>5 DEF Profile
  <2>7. Got(seeker') = Got(seeker)
    BY <2>5, <2>6 DEF Got, Answered
  <2>8. RowRight(seeker') /\ Fuller(seeker, seeker')
    BY <1>r, <2>3, <2>5, <2>6, <2>7 DEF RowRight, Fuller
  <2>. QED
    BY <2>1, <2>8
<1>6. CASE StartInterview(c) \/ BeginSession(c) \/ CancelSession(c) \/ FinishSession(c)
  <2>1. \/ \E d \in Data : /\ seeker' = [seeker EXCEPT !.data = d]
                           /\ d.experience = seeker.data.experience
                           /\ d.parseReview = seeker.data.parseReview
                           /\ d.reuploadPending = seeker.data.reuploadPending
        \/ seeker' = seeker
    <3>1. /\ [stage |-> "choosing_type", answers |-> 0] \in Session
          /\ [stage |-> "active", answers |-> 0] \in Session /\ NoSession \in Session
      BY CareerConstants DEF Session, NoSession
    <3>2. ASSUME NEW s \in Session,
                 seeker' = [seeker EXCEPT !.data = [@ EXCEPT !["session"] = s]]
          PROVE  \E d \in Data : /\ seeker' = [seeker EXCEPT !.data = d]
                                 /\ d.experience = seeker.data.experience
                                 /\ d.parseReview = seeker.data.parseReview
                                 /\ d.reuploadPending = seeker.data.reuploadPending
      <4>. DEFINE d == [seeker.data EXCEPT !.session = s]
      <4>1. /\ d \in Data /\ d.experience = seeker.data.experience
            /\ d.parseReview = seeker.data.parseReview
            /\ d.reuploadPending = seeker.data.reuploadPending
        BY <1>0 DEF Data
      <4>2. seeker' = [seeker EXCEPT !.data = d]
        BY <3>2
      <4>. HIDE DEF d
      <4>. QED
        BY <4>1, <4>2
    <3>3. CASE FinishSession(c)
      <4>. DEFINE h == IF seeker.data.history < MaxInterviews THEN seeker.data.history + 1
                       ELSE seeker.data.history
                  d == [seeker.data EXCEPT !.session = NoSession, !.history = h]
      <4>1. h \in 0 .. MaxInterviews
        BY <1>0, CareerConstants DEF Data
      <4>2. seeker' = [seeker EXCEPT !.data = d]
        BY <3>3 DEF FinishSession
      <4>. HIDE DEF h
      <4>3. /\ d \in Data /\ d.experience = seeker.data.experience
            /\ d.parseReview = seeker.data.parseReview
            /\ d.reuploadPending = seeker.data.reuploadPending
        BY <1>0, <3>1, <4>1 DEF Data
      <4>. HIDE DEF d
      <4>. QED
        BY <4>2, <4>3
    <3>. QED
      BY <1>6, <3>1, <3>2, <3>3 DEF StartInterview, BeginSession, CancelSession, Merge
  <2>2. Done(c)
    BY <1>6 DEF StartInterview, BeginSession, CancelSession, FinishSession
  <2>3. RowRight(seeker') /\ Fuller(seeker, seeker')
    BY <1>0, <1>r, <2>1, DataWritten, RowUntouched
  <2>. QED
    BY <2>2, <2>3
<1>. QED
  BY <1>1, <1>2, <1>3, <1>4, <1>5, <1>6

(* The empty profile of a reset.                                             *)
LEMMA ResetKnown ==
  ASSUME WellFormed, Questioned, setting' = setting, NEW c \in Chats, Reset(c)
  PROVE  Questioned'
<1>0. c \in Workers /\ seeker \in Profile /\ c \notin Tasks
  BY Typed, CareerConstants DEF Workers
<1>1. CASE Writes(c, "restart")
  <2>1. seeker' = [seeker EXCEPT !.step = "awaiting_resume"] /\ Done(c)
    BY <1>1 DEF Reset, Writes, At
  <2>2. "awaiting_resume" \in Steps \ Asked
    BY CareerConstants DEF Steps
  <2>3. Questioned => (Sound => RowRight(seeker))
    BY DEF Questioned
  <2>. QED
    BY <1>0, <2>1, <2>2, <2>3, StepWritten, DoneKnown
<1>2. CASE Writes(c, "reset")
  <2>. DEFINE b == [work[c] EXCEPT !.at = "restart"]
              s == [seeker EXCEPT !.step = "welcome", !.isComplete = FALSE,
                      !.answered = {}, !.data = NoData]
  <2>1. work[c] # Idle /\ work[c].at = "reset" /\ seeker' = s /\ work' = [work EXCEPT ![c] = b]
    BY <1>2 DEF Reset, Writes, At, Goto
  <2>2. SUFFICES ASSUME Sound
                 PROVE  /\ RowRight(s)
                        /\ \A v \in Workers : work'[v] # Idle => Know(v, work'[v], s)
    <3>1. ASSUME RowRight(s), \A v \in Workers : work'[v] # Idle => Know(v, work'[v], s)
          PROVE  Questioned'
      BY <2>1, <3>1, RowRightAlways, KnowAlways DEF Questioned
    <3>2. ~Sound => Questioned'
      BY DEF Questioned, Sound, OneChat
    <3>. QED
      BY <3>1, <3>2
  <2>3. work[c] \in Activity /\ May(c, work[c])
    BY <1>0, <2>1, Typed
  <2>4. c \in setting.chats /\ "reset" \in setting.words /\ ~NoReset /\ OneChat
    BY <2>1, <2>2, <2>3 DEF May, Sound, NoReset
  <2>5. /\ s.isComplete = FALSE /\ s.step = "welcome" /\ s.data = NoData
    BY <1>0 DEF Profile
  <2>6. RowRight(s)
    <3>1. \A i \in 1 .. Len(Questions) : s.step # Questions[i]
      BY <2>5, CareerConstants DEF Asked
    <3>2. s.data.parseReview.reupload = FALSE /\ s.data.reuploadPending = FALSE
      BY <2>5 DEF NoData, NoReview
    <3>. HIDE DEF s
    <3>. QED
      BY <2>5, <3>1, <3>2 DEF RowRight
  <2>. HIDE DEF s
  <2>7. ASSUME NEW v \in Workers, work'[v] # Idle
        PROVE  Know(v, work'[v], s)
    <3>1. CASE v = c
      <4>1. work'[v] = b
        BY <2>1, <3>1 DEF WellFormed, TypeOK
      <4>2. /\ b.row = work[c].row /\ b.word = work[c].word /\ b.review = work[c].review
            /\ b.at = "restart"
        BY <2>3 DEF Activity
      <4>3. Know(c, work[c], seeker) /\ RowRight(work[c].row)
        BY <2>1, <2>2, ChatKnows
      <4>. HIDE DEF b
      <4>4. Know(c, b, s)
        BY <1>0, <2>4, <4>2, <4>3 DEF Know, Reads, Waits
      <4>. QED
        BY <3>1, <4>1, <4>4
    <3>2. CASE v # c
      <4>1. work'[v] = work[v] /\ work[v] # Idle
        BY <2>1, <2>7, <3>2 DEF WellFormed, TypeOK
      <4>2. Know(v, work[v], seeker)
        BY <2>2, <4>1 DEF Questioned
      <4>3. v \notin Chats
        <5>1. SUFFICES ASSUME v \in Chats PROVE FALSE
          OBVIOUS
        <5>2. v \in setting.chats
          BY <4>1, <5>1, Typed DEF May
        <5>3. IsFiniteSet(setting.chats)
          BY Typed, CareerConstants, FS_Subset DEF Setting
        <5>4. PICK x : setting.chats = {x}
          BY <2>4, <5>3, FS_Singleton DEF OneChat
        <5>. QED
          BY <2>4, <3>2, <5>2, <5>4
      <4>4. Know(v, work[v], s)
        BY <2>4, <4>2, <4>3 DEF Know
      <4>. QED
        BY <4>1, <4>4
    <3>. QED
      BY <3>1, <3>2
  <2>. QED
    BY <2>6, <2>7
<1>. QED
  BY <1>1, <1>2 DEF Reset

(* A task starts with what the chat knew.                                    *)
LEMMA EnqueuedKnown ==
  ASSUME WellFormed, Questioned, setting' = setting, NEW c \in Chats, Upload(c) \/ AskForLetter(c)
  PROVE  Questioned'
<1>0. c \in Workers /\ c \notin Tasks /\ seeker' = seeker
  BY CareerConstants DEF Workers, Upload, AskForLetter, Nothing
<1>1. work'[c] = Idle
  <2>. work \in [Workers -> Activity \cup {Idle}]
    BY DEF WellFormed, TypeOK
  <2>1. ASSUME NEW a, Enqueue(c, a)
        PROVE  work'[c] = Idle
    BY <1>0, <2>1 DEF Enqueue
  <2>. QED
    BY <1>0, <2>1 DEF Upload, AskForLetter, Done
<1>2. ASSUME Sound, NEW v \in Workers, v # c, work'[v] # work[v]
      PROVE  Know(v, work'[v], seeker)
  <2>1. CASE /\ v \in Tasks /\ Upload(c) /\ work'[v] = UploadTask
    <3>1. /\ UploadTask.at = "queued" /\ UploadTask.word = "parse_resume"
          /\ UploadTask.review.reupload = seeker.data.reuploadPending
      BY DEF UploadTask, Starting, NoReview
    <3>2. seeker.data.reuploadPending => NoReset
      BY <1>2 DEF Questioned, RowRight
    <3>3. Know(v, UploadTask, seeker)
      BY <2>1, <3>1, <3>2 DEF Know, Waits, Reads, ReadSteps
    <3>. QED
      BY <2>1, <3>3
  <2>2. CASE /\ v \in Tasks /\ At(c, "cover")
             /\ work'[v] = Starting("queued", "generate_cover_letter", work[c].row)
    <3>. DEFINE b == Starting("queued", "generate_cover_letter", work[c].row)
    <3>1. /\ b.at = "queued" /\ b.word = "generate_cover_letter" /\ b.row = work[c].row
          /\ b.review.reupload = FALSE
      BY DEF Starting, NoReview
    <3>2. /\ Know(c, work[c], seeker) /\ RowRight(work[c].row) /\ work[c].at = "cover"
          /\ ~Reads(c, work[c]) /\ ~Waits(c, work[c])
      BY <1>2, <2>2, ChatKnows DEF At
    <3>. HIDE DEF b
    <3>3. Know(v, b, seeker)
      BY <1>0, <3>1, <3>2 DEF Know, Waits, Reads
    <3>. QED
      BY <2>2, <3>3 DEF b
  <2>. QED
    BY <1>2, <2>1, <2>2, ChatMoves DEF Converse
<1>3. Sound => RowRight(seeker') /\ Fuller(seeker, seeker')
  BY <1>0, RowUntouched
<1>. QED
  BY <1>0, <1>1, <1>2, <1>3, QuestionedKept

(* The questions that are passed over, and what else goes on.                *)
LEMMA ChatTurnsKnown ==
  ASSUME WellFormed, Questioned, setting' = setting, NEW c \in Chats,
         ReviewAnyway(c) \/ Apply(c) \/ EvaluateAnswer(c) \/ SaveAnswer(c) \/ Confirm(c)
  PROVE  Questioned'
<1>0. c \in Workers /\ seeker \in Profile /\ seeker.data \in Data /\ c \notin Tasks
  BY Typed, CareerConstants DEF Workers, Profile
<1>. DEFINE a == work[c]
<1>a. a # Idle => a \in Activity
  BY <1>0, Typed
<1>b. a = work[c]
  OBVIOUS
<1>. HIDE DEF a
<1>c. Sound /\ a # Idle => /\ Know(c, a, seeker) /\ RowRight(a.row) /\ RowRight(seeker)
                           /\ \A x : ~Reads(c, x) /\ ~Waits(c, x)
  BY <1>b, ChatKnows
<1>1. CASE ReviewAnyway(c)
  <2>. DEFINE b == [a EXCEPT !.at = "review"]
  <2>1. a # Idle /\ a.at = "onboard" /\ seeker' = seeker /\ work' = [work EXCEPT ![c] = b]
    BY <1>b, <1>1 DEF ReviewAnyway, At, Goto, Nothing
  <2>2. b.at = "review" /\ b.row = a.row /\ b.word = a.word /\ b.review = a.review
    BY <1>a, <2>1 DEF Activity
  <2>. HIDE DEF b
  <2>3. Sound => Know(c, b, seeker)
    BY <1>0, <1>c, <2>1, <2>2, KnowsThere
  <2>. QED
    BY <1>0, <2>1, <2>3, RowUntouched, GoesKnown
<1>2. CASE Apply(c)
  <2>1. a # Idle /\ a.at \in {"apply", "dismiss"} /\ seeker' = seeker
    BY <1>b, <1>2 DEF Apply, Writes, At, Nothing
  <2>2. CASE Done(c)
    BY <1>0, <2>1, <2>2, RowUntouched, DoneKnown
  <2>3. ASSUME NEW j, work' = [work EXCEPT ![c].at = "learn", ![c].list = <<j>>]
        PROVE  Questioned'
    <3>. DEFINE b == [a EXCEPT !.at = "learn", !.list = <<j>>]
    <3>1. work' = [work EXCEPT ![c] = b]
      BY <1>b, <2>3
    <3>2. b.at = "learn" /\ b.row = a.row /\ b.word = a.word /\ b.review = a.review
      BY <1>a, <2>1 DEF Activity
    <3>. HIDE DEF b
    <3>3. Sound => a.row.isComplete
      BY <1>c, <2>1 DEF Know
    <3>4. Sound => Know(c, b, seeker)
      BY <1>0, <1>c, <2>1, <3>2, <3>3, KnowsThere
    <3>. QED
      BY <1>0, <2>1, <3>1, <3>4, RowUntouched, GoesKnown
  <2>. QED
    BY <1>2, <2>2, <2>3 DEF Apply
<1>3. CASE EvaluateAnswer(c)
  <2>. DEFINE n == seeker.data.session.answers + 1
              b == [a EXCEPT !.at = "score", !.n = n]
  <2>1. a # Idle /\ a.at = "session" /\ seeker' = seeker /\ work' = [work EXCEPT ![c] = b]
    BY <1>b, <1>3 DEF EvaluateAnswer, Writes, At, Nothing
  <2>. HIDE DEF n
  <2>2. b.at = "score" /\ b.row = a.row /\ b.word = a.word /\ b.review = a.review
    BY <1>a, <2>1 DEF Activity
  <2>. HIDE DEF b
  <2>3. Sound => Know(c, b, seeker)
    BY <1>0, <1>c, <2>1, <2>2, KnowsThere
  <2>. QED
    BY <1>0, <2>1, <2>3, RowUntouched, GoesKnown
<1>4. CASE SaveAnswer(c)
  <2>. DEFINE s == [stage |-> "active", answers |-> a.n]
              d == [seeker.data EXCEPT !.session = s]
  <2>1. a # Idle /\ a.at = "score" /\ seeker' = [seeker EXCEPT !.data = d]
    BY <1>b, <1>4 DEF SaveAnswer, Writes, At, Merge
  <2>2. s \in Session
    <3>1. May(c, a)
      BY <1>0, <1>b, <2>1, Typed
    <3>. QED
      BY <1>a, <2>1, <3>1 DEF May, Session, Activity
  <2>. HIDE DEF s
  <2>3. /\ d \in Data /\ d.experience = seeker.data.experience
        /\ d.parseReview = seeker.data.parseReview /\ d.reuploadPending = seeker.data.reuploadPending
    BY <1>0, <2>2 DEF Data
  <2>. HIDE DEF d
  <2>4. Sound => RowRight(seeker') /\ Fuller(seeker, seeker')
    BY <1>0, <1>c, <2>1, <2>3, DataWritten
  <2>5. CASE Done(c)
    BY <1>0, <2>4, <2>5, DoneKnown
  <2>6. CASE Goto(c, "record")
    <3>. DEFINE b == [a EXCEPT !.at = "record"]
    <3>1. work' = [work EXCEPT ![c] = b]
      BY <1>b, <2>6 DEF Goto
    <3>2. b.at = "record" /\ b.row = a.row /\ b.word = a.word /\ b.review = a.review
          /\ b \in Activity
      BY <1>a, <2>1 DEF Activity, Places, ChatSteps
    <3>. HIDE DEF b
    <3>3. Sound => Know(c, b, seeker)
      BY <1>0, <1>c, <2>1, <3>2, KnowsThere
    <3>4. b.row.id <= created
      BY <1>0, <1>b, <2>1, <3>2, Typed
    <3>5. Sound => Know(c, b, seeker')
      BY <1>0, <2>4, <3>2, <3>3, <3>4, KnowsStill
    <3>. QED
      BY <1>0, <2>4, <3>1, <3>5, GoesKnown
  <2>. QED
    BY <1>4, <2>5, <2>6 DEF SaveAnswer
<1>5. CASE Confirm(c)
  <2>. DEFINE r == a.row.data.parseReview
              b == [a EXCEPT !.at = "fill", !.review = r]
              d == [seeker.data EXCEPT !.reuploadPending = FALSE]
  <2>1. a # Idle /\ a.at = "review" /\ work' = [work EXCEPT ![c] = b]
        /\ (seeker' = [seeker EXCEPT !.data = d] \/ seeker' = seeker)
    BY <1>b, <1>5 DEF Confirm, Writes, At, Merge
  <2>2. /\ d \in Data /\ d.experience = seeker.data.experience
        /\ d.parseReview = seeker.data.parseReview /\ d.reuploadPending = FALSE
    BY <1>0 DEF Data
  <2>. HIDE DEF d
  <2>3. Sound => RowRight(seeker') /\ Fuller(seeker, seeker')
    BY <1>0, <1>c, <2>1, <2>2, DataWritten, RowUntouched
  <2>4. r \in Review
    BY <1>a, <2>1 DEF Activity, Profile, Data
  <2>5. Sound => (r.reupload => NoReset /\ a.row.isComplete)
    BY <1>c, <2>1 DEF RowRight
  <2>. HIDE DEF r
  <2>6. b.at = "fill" /\ b.row = a.row /\ b.word = a.word /\ b.review = r
    BY <1>a, <2>1 DEF Activity
  <2>. HIDE DEF b
  <2>7. Sound => Know(c, a, seeker')
    <3>1. a.row.id <= created
      BY <1>0, <1>b, <2>1, Typed
    <3>. QED
      BY <1>0, <1>a, <1>c, <2>1, <2>3, <3>1, KnowsStill
  <2>8. Sound => Know(c, b, seeker')
    BY <1>0, <1>c, <2>1, <2>5, <2>6, <2>7 DEF Know, Reads, Waits
  <2>. QED
    BY <1>0, <2>1, <2>3, <2>8, GoesKnown
<1>. QED
  BY <1>1, <1>2, <1>3, <1>4, <1>5

(* Passing over questions, and answering one.                                *)
LEMMA AnswerKnown ==
  ASSUME WellFormed, Questioned, setting' = setting, NEW c \in Chats, SkipAnswered(c) \/ Answer(c)
  PROVE  Questioned'
<1>0. c \in Workers /\ seeker \in Profile /\ seeker.data \in Data /\ c \notin Tasks
  BY Typed, CareerConstants DEF Workers, Profile
<1>. DEFINE a == work[c]
            q == a.row.step
<1>a. a # Idle => a \in Activity /\ a.row \in Profile /\ a.row.id <= created
  BY <1>0, Typed
<1>b. a = work[c]
  OBVIOUS
<1>. HIDE DEF a
<1>1. a # Idle /\ q \in Asked /\ a.at \in {"onboard", "skip"} /\ SameRow(a.row)
  BY <1>b DEF SkipAnswered, Answer, Writes, At
<1>2. Sound => /\ Know(c, a, seeker) /\ RowRight(a.row) /\ RowRight(seeker)
               /\ Got(a.row) \subseteq Got(seeker)
               /\ \A x : ~Reads(c, x) /\ ~Waits(c, x)
  BY <1>1, <1>b, ChatKnows
<1>3. After(q) \in Steps
  BY <1>1, QuestionSteps
<1>4. ASSUME NEW at \in {"finish", "skip"}, seeker' \in Profile,
             work' = [work EXCEPT ![c].at = at, ![c].row = seeker'],
             Sound => RowRight(seeker') /\ Fuller(seeker, seeker'),
             Sound /\ at = "finish" => Got(seeker') = Asked
      PROVE  Questioned'
  <2>. DEFINE b == [a EXCEPT !.at = at, !.row = seeker']
  <2>1. work' = [work EXCEPT ![c] = b]
    BY <1>b, <1>4
  <2>2. b.at = at /\ b.row = seeker' /\ b.review = a.review
    BY <1>a, <1>1 DEF Activity
  <2>. HIDE DEF b
  <2>3. Sound => Know(c, b, seeker')
    BY <1>0, <1>2, <1>4, <2>2 DEF Know, Reads, Waits
  <2>. QED
    BY <1>0, <1>4, <2>1, <2>3, GoesKnown
<1>5. CASE SkipAnswered(c)
  <2>1. CASE Done(c) /\ seeker' = seeker
    BY <1>0, <2>1, RowUntouched, DoneKnown
  <2>2. CASE /\ Answered(a.row, q)
             /\ seeker' = [seeker EXCEPT !.step = After(q)]
             /\ GotoWith(c, IF After(q) = "complete" THEN "finish" ELSE "skip", seeker')
    <3>1. Sound => q \in Got(seeker)
      BY <1>1, <1>2, <2>2 DEF Got
    <3>2. seeker' \in Profile
      BY <1>0, <1>3, <2>2, Rows
    <3>3. Sound => /\ Fuller(seeker, seeker') /\ Got(seeker') = Got(seeker)
                   /\ seeker'.step = After(q) /\ seeker'.isComplete = seeker.isComplete
                   /\ seeker'.data = seeker.data
      BY <1>0, <1>2, <1>3, <2>2, StepWritten
    <3>4. Sound => /\ \A i \in 1 .. Len(Questions) : After(q) = Questions[i] =>
                        \A k \in 1 .. i - 1 : Questions[k] \in Got(seeker)
                   /\ After(q) = "complete" => Got(seeker) = Asked
      BY <1>1, <1>2, <3>1, NextQuestion
    <3>5. Sound => RowRight(seeker')
      BY <1>2, <3>3, <3>4 DEF RowRight
    <3>6. CASE After(q) = "complete"
      BY <1>4, <2>2, <3>2, <3>3, <3>4, <3>5, <3>6 DEF GotoWith
    <3>7. CASE After(q) # "complete"
      BY <1>4, <2>2, <3>2, <3>3, <3>5, <3>7 DEF GotoWith
    <3>. QED
      BY <3>6, <3>7
  <2>. QED
    BY <1>b, <1>5, <2>1, <2>2 DEF SkipAnswered
<1>6. CASE Answer(c)
  <2>1. CASE Merge("experience", TRUE) /\ UNCHANGED work
    <3>. DEFINE d == [seeker.data EXCEPT !.experience = TRUE]
    <3>1. seeker' = [seeker EXCEPT !.data = d]
      BY <2>1 DEF Merge
    <3>2. /\ d \in Data /\ d.experience = TRUE
          /\ d.parseReview = seeker.data.parseReview /\ d.reuploadPending = seeker.data.reuploadPending
      BY <1>0 DEF Data
    <3>. HIDE DEF d
    <3>3. Sound => RowRight(seeker') /\ Fuller(seeker, seeker')
      BY <1>0, <1>2, <3>1, <3>2, DataWritten
    <3>4. Sound => Know(c, a, seeker')
      BY <1>0, <1>a, <1>1, <1>2, <3>3, KnowsStill
    <3>5. work' = [work EXCEPT ![c] = a]
      BY <1>b, <2>1 DEF WellFormed, TypeOK
    <3>. QED
      BY <1>0, <3>3, <3>4, <3>5, GoesKnown
  <2>2. CASE /\ q = Experience => seeker.data.experience
             /\ seeker' = [seeker EXCEPT !.step = After(q),
                             !.answered = @ \cup ({q} \ {Experience})]
             /\ IF After(q) = "complete" THEN GotoWith(c, "finish", seeker') ELSE Done(c)
    <3>. DEFINE s == seeker.answered \cup ({q} \ {Experience})
    <3>0. s \in SUBSET Asked /\ seeker.answered \subseteq s /\ (q # Experience => q \in s)
      BY <1>0, <1>1 DEF Profile
    <3>1. seeker' = [seeker EXCEPT !.step = After(q), !.answered = s]
      BY <2>2
    <3>. HIDE DEF s
    <3>2. /\ seeker' \in Profile /\ seeker'.id = seeker.id /\ seeker'.answered = s
          /\ seeker'.step = After(q) /\ seeker'.isComplete = seeker.isComplete
          /\ seeker'.data = seeker.data
      BY <1>0, <1>3, <3>0, <3>1 DEF Profile
    <3>3. Got(seeker) \subseteq Got(seeker')
      BY <3>0, <3>2, GotGrowsPlainly
    <3>4. q \in Got(seeker')
      BY <1>1, <2>2, <3>0, <3>2 DEF Got, Answered
    <3>5. Fuller(seeker, seeker')
      BY <3>2, <3>3 DEF Fuller
    <3>6. Sound => /\ \A i \in 1 .. Len(Questions) : After(q) = Questions[i] =>
                        \A k \in 1 .. i - 1 : Questions[k] \in Got(seeker')
                   /\ After(q) = "complete" => Got(seeker') = Asked
      BY <1>1, <1>2, <3>3, <3>4, NextQuestion
    <3>7. Sound => RowRight(seeker')
      <4>1. Sound /\ seeker'.isComplete => Got(seeker') = Asked
        BY <1>2, <3>2, <3>3 DEF RowRight, Got
      <4>. QED
        BY <1>2, <3>2, <3>6, <4>1 DEF RowRight
    <3>8. CASE After(q) = "complete"
      BY <1>4, <2>2, <3>2, <3>5, <3>6, <3>7, <3>8 DEF GotoWith
    <3>9. CASE After(q) # "complete"
      BY <1>0, <2>2, <3>5, <3>7, <3>9, DoneKnown
    <3>. QED
      BY <3>8, <3>9
  <2>. QED
    BY <1>b, <1>6, <2>1, <2>2 DEF Answer
<1>. QED
  BY <1>5, <1>6

(* A task asked for a letter runs where no reset is sent, and one that takes *)
(* a resume over unasked as well.                                            *)
LEMMA TaskSettings ==
  ASSUME WellFormed, Sound, NEW t \in Tasks, work[t] # Idle
  PROVE  /\ work[t].word = "generate_cover_letter" => NoReset
         /\ work[t].at \in FillSteps => NoReset
<1>1. May(t, work[t]) /\ t \in Workers
  BY Typed DEF Workers
<1>. QED
  BY <1>1, TaskIs DEF May, Sound, NoReset, ReadSteps, FillSteps

(* Reading a resume up to its parsing.                                       *)
LEMMA TaskKnown ==
  ASSUME WellFormed, Questioned, setting' = setting, NEW t \in Tasks,
         Load(t) \/ ReadFile(t) \/ CreateResume(t) \/ Adopt(t) \/ WriteLetter(t)
  PROVE  Questioned'
<1>0. t \in Workers /\ seeker \in Profile /\ seeker.id \in 0 .. MaxProfiles
  BY Typed DEF Workers, Profile
<1>. DEFINE a == work[t]
<1>a. a # Idle => a \in Activity /\ a.row \in Profile /\ a.row.id <= created
  BY <1>0, Typed
<1>b. a = work[t]
  OBVIOUS
<1>. HIDE DEF a
<1>c. Sound /\ a # Idle => Know(t, a, seeker)
  BY <1>0, <1>b DEF Questioned
<1>1. CASE Load(t)
  <2>1. a # Idle /\ a.at = "queued" /\ seeker' = seeker
    BY <1>b, <1>1 DEF Load, At, Nothing
  <2>2. CASE Done(t)
    BY <1>0, <2>1, <2>2, RowUntouched, DoneKnown
  <2>3. CASE /\ a.word = "parse_resume"
             /\ GotoWith(t, "read", [NewProfile(seeker.id) EXCEPT !.isComplete = seeker.isComplete])
    <3>. DEFINE r == [NewProfile(seeker.id) EXCEPT !.isComplete = seeker.isComplete]
                b == [a EXCEPT !.at = "read", !.row = r]
    <3>1. /\ r.answered = {} /\ r.data = NoData /\ r.isComplete = seeker.isComplete
          /\ Got(r) = {}
      BY DEF NewProfile, Got, Answered, NoData
    <3>2. work' = [work EXCEPT ![t] = b]
      BY <1>b, <2>3 DEF GotoWith
    <3>. HIDE DEF r
    <3>3. b.at = "read" /\ b.row = r /\ b.word = a.word /\ b.review = a.review
      BY <1>a, <2>1 DEF Activity
    <3>. HIDE DEF b
    <3>4. Reads(t, b) /\ ~Waits(t, b)
      BY <2>3, <3>3 DEF Reads, Waits, ReadSteps
    <3>5. Sound => Know(t, b, seeker)
      BY <1>c, <2>1, <2>3, <3>1, <3>3, <3>4 DEF Know
    <3>. QED
      BY <1>0, <2>1, <3>2, <3>5, RowUntouched, GoesKnown
  <2>4. CASE a.word # "parse_resume" /\ SameRow(a.row) /\ GotoWith(t, "letter", seeker)
    <3>. DEFINE b == [a EXCEPT !.at = "letter", !.row = seeker]
    <3>1. work' = [work EXCEPT ![t] = b]
      BY <1>b, <2>4 DEF GotoWith
    <3>2. b.at = "letter" /\ b.row = seeker /\ b.word = a.word /\ b.review = a.review
      BY <1>a, <2>1 DEF Activity
    <3>. HIDE DEF b
    <3>3. a.word = "generate_cover_letter"
      BY <1>b, <2>1, <2>4, TaskIs
    <3>4. Sound => NoReset /\ seeker.isComplete /\ RowRight(seeker)
      <4>1. Sound => NoReset
        BY <1>b, <2>1, <3>3, TaskSettings
      <4>2. ~Waits(t, a) /\ Same(a.row, seeker)
        BY <2>4, <3>3 DEF Waits, SameRow, Has, Same
      <4>3. Sound => a.row.isComplete
        BY <1>c, <2>1, <3>3 DEF Know
      <4>. QED
        BY <1>c, <2>1, <4>1, <4>2, <4>3 DEF Know, Questioned
    <3>5. Sound => Know(t, b, seeker)
      BY <1>c, <2>1, <3>2, <3>3, <3>4 DEF Know, Reads, Waits
    <3>. QED
      BY <1>0, <2>1, <3>1, <3>5, RowUntouched, GoesKnown
  <2>. QED
    BY <1>1, <1>b, <2>2, <2>3, <2>4 DEF Load
<1>2. CASE ReadFile(t) \/ CreateResume(t) \/ Adopt(t)
  <2>1. a # Idle /\ a.at \in {"read", "create", "adopt"}
    BY <1>b, <1>2 DEF ReadFile, CreateResume, Adopt, Writes, At
  <2>2. a.word = "parse_resume"
    BY <1>b, <2>1, TaskIs DEF ReadSteps
  <2>3. Sound => RowRight(seeker') /\ Fuller(seeker, seeker')
    <3>1. CASE seeker' = seeker
      BY <3>1, RowUntouched
    <3>2. CASE Adopt(t)
      <4>1. PICK p \in {seeker.step, "parsing_resume"} :
              seeker' = [seeker EXCEPT !.step = p]
        BY <3>2 DEF Adopt
      <4>2. p \in Steps
        BY <1>0 DEF Profile, Steps
      <4>3. /\ seeker'.id = seeker.id /\ seeker'.answered = seeker.answered
            /\ seeker'.isComplete = seeker.isComplete /\ seeker'.step = p
            /\ seeker'.data = seeker.data
        BY <1>0, <4>1, <4>2 DEF Profile
      <4>4. "parsing_resume" \notin Asked
        BY CareerConstants
      <4>5. Fuller(seeker, seeker')
        BY <4>3, GotGrowsPlainly DEF Fuller
      <4>6. Sound => RowRight(seeker)
        BY DEF Questioned
      <4>. QED
        BY <4>3, <4>4, <4>5, <4>6, RowStays
    <3>. QED
      BY <1>2, <3>1, <3>2 DEF ReadFile, CreateResume
  <2>4. CASE Done(t)
    BY <1>0, <2>3, <2>4, DoneKnown
  <2>5. ASSUME NEW at \in {"create", "adopt", "parse"}, Goto(t, at)
        PROVE  Questioned'
    <3>. DEFINE b == [a EXCEPT !.at = at]
    <3>1. work' = [work EXCEPT ![t] = b]
      BY <1>b, <2>5 DEF Goto
    <3>2. b.at = at /\ b.row = a.row /\ b.word = a.word /\ b.review = a.review /\ b \in Activity
      BY <1>a, <2>1, <2>5 DEF Activity, Places, ReadSteps
    <3>. HIDE DEF b
    <3>3. Reads(t, a) /\ Reads(t, b) /\ ~Waits(t, a) /\ ~Waits(t, b)
      BY <2>1, <2>2, <3>2 DEF Reads, Waits, ReadSteps
    <3>4. Sound => Know(t, b, seeker)
      BY <1>0, <1>c, <2>1, <3>2, <3>3, KnowsThere
    <3>5. Sound => Know(t, b, seeker')
      BY <1>0, <1>a, <2>1, <2>3, <3>2, <3>4, KnowsStill
    <3>. QED
      BY <1>0, <2>3, <3>1, <3>5, GoesKnown
  <2>. QED
    BY <1>2, <2>4, <2>5 DEF ReadFile, CreateResume, Adopt
<1>3. CASE WriteLetter(t)
  <2>1. a # Idle /\ a.at = "letter" /\ seeker' = seeker
    BY <1>b, <1>3 DEF WriteLetter, Writes, At, Nothing
  <2>2. CASE Done(t)
    BY <1>0, <2>1, <2>2, RowUntouched, DoneKnown
  <2>3. CASE Goto(t, "learn")
    <3>. DEFINE b == [a EXCEPT !.at = "learn"]
    <3>1. work' = [work EXCEPT ![t] = b]
      BY <1>b, <2>3 DEF Goto
    <3>2. b.at = "learn" /\ b.row = a.row /\ b.word = a.word /\ b.review = a.review
      BY <1>a, <2>1 DEF Activity
    <3>. HIDE DEF b
    <3>3. a.word = "generate_cover_letter"
      BY <1>b, <2>1, TaskIs
    <3>4. ~Reads(t, a) /\ ~Reads(t, b) /\ ~Waits(t, a) /\ ~Waits(t, b)
      BY <3>2, <3>3 DEF Reads, Waits
    <3>5. Sound => a.row.isComplete
      BY <1>c, <2>1 DEF Know
    <3>6. Sound => Know(t, b, seeker)
      BY <1>0, <1>c, <2>1, <3>2, <3>4, <3>5, KnowsThere
    <3>. QED
      BY <1>0, <2>1, <3>1, <3>6, RowUntouched, GoesKnown
  <2>. QED
    BY <1>3, <2>2, <2>3 DEF WriteLetter
<1>. QED
  BY <1>1, <1>2, <1>3

(* What was read is staged or taken over.                                    *)
LEMMA ParseKnown ==
  ASSUME WellFormed, Questioned, setting' = setting, NEW t \in Tasks, Parse(t) \/ ParseFailed(t)
  PROVE  Questioned'
<1>0. t \in Workers /\ seeker \in Profile /\ seeker.data \in Data
  BY Typed DEF Workers, Profile
<1>. DEFINE a == work[t]
            d == [seeker.data EXCEPT !.reuploadPending = FALSE]
<1>a. a # Idle => a \in Activity /\ a.row \in Profile /\ a.row.id <= created
  BY <1>0, Typed
<1>b. a = work[t]
  OBVIOUS
<1>. HIDE DEF a
<1>1. a # Idle /\ a.at = "parse" /\ SameRow(a.row)
  BY <1>b DEF Parse, ParseFailed, Writes, At
<1>2. a.word = "parse_resume"
  BY <1>b, <1>1, TaskIs DEF ReadSteps
<1>3. Sound => Know(t, a, seeker) /\ RowRight(seeker)
  BY <1>0, <1>1, <1>b DEF Questioned
<1>4. ASSUME Update(t), Sound
      PROVE  NoReset /\ a.row.isComplete /\ seeker.isComplete
  <2>1. NoReset /\ a.row.isComplete
    BY <1>3, <1>4, <1>b DEF Know, Update
  <2>2. ~Waits(t, a) /\ Same(a.row, seeker)
    BY <1>1 DEF Waits, SameRow, Has, Same
  <2>. QED
    BY <1>3, <1>4, <2>1, <2>2 DEF Know
<1>5. /\ d \in Data /\ d.experience = seeker.data.experience
      /\ d.parseReview = seeker.data.parseReview /\ d.reuploadPending = FALSE
  BY <1>0 DEF Data
<1>. HIDE DEF d
<1>6. ASSUME Merge("reuploadPending", FALSE) \/ UNCHANGED seeker, Sound
      PROVE  RowRight(seeker') /\ Fuller(seeker, seeker')
  <2>1. seeker' = [seeker EXCEPT !.data = d] \/ seeker' = seeker
    BY <1>6 DEF Merge, d
  <2>. QED
    BY <1>0, <1>3, <1>5, <1>6, <2>1, DataWritten, RowUntouched
<1>7. CASE Parse(t)
  <2>1. PICK answers \in Readable :
          LET found == [staged |-> setting.confirm, answers |-> answers, reupload |-> Update(t)]
          IN  \/ /\ setting.confirm
                 /\ seeker' = [seeker EXCEPT !.step = "parse_review", !.data.parseReview = found]
                 /\ Done(t)
              \/ /\ ~setting.confirm
                 /\ IF Update(t) THEN Merge("reuploadPending", FALSE) ELSE UNCHANGED seeker
                 /\ work' = [work EXCEPT ![t].at = "fill", ![t].review = found]
    BY <1>7 DEF Parse
  <2>. DEFINE found == [staged |-> setting.confirm, answers |-> answers, reupload |-> Update(t)]
  <2>2. found.reupload = Update(t)
    OBVIOUS
  <2>3. CASE /\ seeker' = [seeker EXCEPT !.step = "parse_review", !.data.parseReview = found]
             /\ Done(t)
    <3>. DEFINE e == [seeker.data EXCEPT !.parseReview = found]
    <3>. HIDE DEF found
    <3>1. seeker' = [seeker EXCEPT !.step = "parse_review", !.data = e]
      BY <2>3
    <3>2. /\ e.parseReview = found /\ e.experience = seeker.data.experience
          /\ e.reuploadPending = seeker.data.reuploadPending
      BY <1>0 DEF Data
    <3>. HIDE DEF e
    <3>3. /\ seeker'.id = seeker.id /\ seeker'.answered = seeker.answered
          /\ seeker'.isComplete = seeker.isComplete /\ seeker'.step = "parse_review"
          /\ seeker'.data = e
      BY <1>0, <3>1 DEF Profile
    <3>4. Got(seeker') = Got(seeker)
      BY <3>2, <3>3 DEF Got, Answered
    <3>5. \A i \in 1 .. Len(Questions) : seeker'.step # Questions[i]
      BY <3>3, CareerConstants DEF Asked
    <3>6. Sound => RowRight(seeker') /\ Fuller(seeker, seeker')
      BY <1>3, <1>4, <2>2, <3>2, <3>3, <3>4, <3>5 DEF RowRight, Fuller
    <3>. QED
      BY <1>0, <2>3, <3>6, DoneKnown
  <2>4. CASE /\ Merge("reuploadPending", FALSE) \/ UNCHANGED seeker
             /\ work' = [work EXCEPT ![t].at = "fill", ![t].review = found]
    <3>. DEFINE b == [a EXCEPT !.at = "fill", !.review = found]
    <3>. HIDE DEF found
    <3>1. work' = [work EXCEPT ![t] = b]
      BY <1>b, <2>4
    <3>2. b.at = "fill" /\ b.row = a.row /\ b.word = a.word /\ b.review = found
      BY <1>a, <1>1 DEF Activity
    <3>. HIDE DEF b
    <3>3. Sound => Know(t, a, seeker')
      BY <1>0, <1>a, <1>1, <1>3, <1>6, <2>4, KnowsStill
    <3>4. Reads(t, a) /\ Reads(t, b) /\ ~Waits(t, a) /\ ~Waits(t, b)
      BY <1>1, <1>2, <3>2 DEF Reads, Waits, ReadSteps
    <3>5. Sound => Know(t, b, seeker')
      BY <1>1, <1>2, <1>4, <2>2, <3>2, <3>3, <3>4 DEF Know
    <3>. QED
      BY <1>0, <1>6, <2>4, <3>1, <3>5, GoesKnown
  <2>. QED
    BY <2>1, <2>3, <2>4
<1>8. CASE ParseFailed(t)
  <2>1. /\ Done(t)
        /\ \/ Merge("reuploadPending", FALSE)
           \/ seeker' = [seeker EXCEPT !.step = Questions[1]]
    BY <1>8 DEF ParseFailed
  <2>2. Questions[1] \in Steps
    BY QuestionSteps
  <2>3. Sound => RowRight(seeker') /\ Fuller(seeker, seeker')
    BY <1>0, <1>3, <1>6, <2>1, <2>2, StepWritten
  <2>. QED
    BY <1>0, <2>1, <2>3, DoneKnown
<1>. QED
  BY <1>7, <1>8

(* Whoever is filling in, or showing, a resume or a list knows the row.      *)
LEMMA SharerKnows ==
  ASSUME WellFormed, Questioned, Sound, NEW w \in Workers, work[w] # Idle,
         work[w].at \in FillSteps \cup {"find", "learn", "guidance", "rematch", "sent"},
         SameRow(work[w].row)
  PROVE  /\ Know(w, work[w], seeker) /\ RowRight(seeker) /\ ~Waits(w, work[w])
         /\ Same(work[w].row, seeker)
         /\ work[w].at # "fill" =>
              RowRight(work[w].row) /\ \A b : b.at # "queued" /\ b.at \notin ReadSteps \cup {"fill"}
                                         => ~Reads(w, b) /\ ~Waits(w, b)
         /\ work[w].at \in FillSteps => Got(work[w].row) \subseteq Got(seeker)
         /\ NoReset /\ work[w].row.isComplete => seeker.isComplete
<1>. DEFINE a == work[w]
<1>1. /\ Know(w, a, seeker) /\ RowRight(seeker) /\ Same(a.row, seeker)
      BY DEF Questioned, SameRow, Has, Same
<1>2. ~Waits(w, a) /\ a.at # "restart"
  BY DEF Waits, FillSteps
<1>3. a.at \in FillSteps => w \in Chats \/ NoReset
  <2>1. SUFFICES ASSUME a.at \in FillSteps, w \notin Chats
                 PROVE  NoReset
    OBVIOUS
  <2>2. w \notin Senders
    <3>1. SUFFICES ASSUME w \in Senders PROVE FALSE
      OBVIOUS
    <3>2. a.at \in {"send", "sent"}
      BY <3>1, Typed DEF May
    <3>. QED
      BY <2>1, <3>2 DEF FillSteps
  <2>3. w \in Tasks
    BY <2>1, <2>2 DEF Workers
  <2>. QED
    BY <2>1, <2>3, TaskSettings
<1>4. a.at # "fill" => ~Reads(w, a)
  BY DEF Reads, FillSteps, ReadSteps
<1>. HIDE DEF a
<1>5. a.at # "fill" => RowRight(a.row)
  BY <1>1, <1>2, <1>4 DEF Know
<1>6. \A b : b.at # "queued" /\ b.at \notin ReadSteps \cup {"fill"} => ~Reads(w, b) /\ ~Waits(w, b)
  BY DEF Reads, Waits
<1>7. a.at \in FillSteps => Got(a.row) \subseteq Got(seeker)
  BY <1>1, <1>2, <1>3 DEF Know
<1>8. NoReset /\ a.row.isComplete => seeker.isComplete
  BY <1>1, <1>2 DEF Know
<1>. QED
  BY <1>1, <1>2, <1>5, <1>6, <1>7, <1>8 DEF a

(* Goes on with the row as it was just written.                              *)
LEMMA GoesWithRow ==
  ASSUME WellFormed, Questioned, setting' = setting, NEW w \in Workers, work[w] \in Activity,
         work[w] # Idle, work[w].at \in FillSteps,
         NEW at, GotoWith(w, at, seeker'), at \in {"advance", "match", "finish"},
         Sound => /\ RowRight(seeker') /\ Fuller(seeker, seeker')
                  /\ at \in {"match", "finish"} => Got(seeker') = Asked
                  /\ work[w].review.reupload => NoReset
  PROVE  Questioned'
<1>. DEFINE b == [work[w] EXCEPT !.at = at, !.row = seeker']
<1>1. work' = [work EXCEPT ![w] = b]
  BY DEF GotoWith
<1>2. b.at = at /\ b.row = seeker' /\ b.review = work[w].review /\ b.word = work[w].word
  BY DEF Activity
<1>3. Sound => Know(w, b, seeker')
  <2>. HIDE DEF b
  <2>1. SUFFICES ASSUME Sound PROVE Know(w, b, seeker')
    OBVIOUS
  <2>2. ~Reads(w, b)
    BY <1>2 DEF Reads, ReadSteps
  <2>3. w \in Tasks => b.word # "generate_cover_letter"
    BY <1>2, TaskIs
  <2>. QED
    BY <1>2, <2>1, <2>2, <2>3 DEF Know
<1>. HIDE DEF b
<1>. QED
  BY <1>1, <1>3, GoesKnown

LEMMA ListedKeeps ==
  ASSUME NEW d \in Data, NEW list \in Lists
  PROVE  /\ Listed(d, list) \in Data /\ Listed(d, list).experience = d.experience
         /\ Listed(d, list).parseReview = d.parseReview
         /\ Listed(d, list).reuploadPending = d.reuploadPending
         /\ Listed(d, list).session = d.session /\ Listed(d, list).history = d.history
         /\ Listed(d, list).jobSession = list
<1>1. Listed(d, list) \in Data
  BY Columns
<1>2. /\ Listed(d, list).experience = d.experience
      /\ Listed(d, list).parseReview = d.parseReview
      /\ Listed(d, list).reuploadPending = d.reuploadPending
      /\ Listed(d, list).session = d.session /\ Listed(d, list).history = d.history
      /\ Listed(d, list).jobSession = list
  BY DEF Listed, Data
<1>. QED
  BY <1>1, <1>2

(* The answers of a resume come in, and then the step.                       *)
LEMMA FillKnown ==
  ASSUME WellFormed, Questioned, setting' = setting, NEW w \in Workers,
         Fill(w) \/ Advance(w) \/ Finish(w)
  PROVE  Questioned'
<1>0. seeker \in Profile /\ seeker.data \in Data
  BY Typed DEF Profile
<1>. DEFINE a == work[w]
<1>a. a # Idle => a \in Activity /\ a.row \in Profile /\ a.row.id <= created
  BY Typed
<1>b. a = work[w]
  OBVIOUS
<1>. HIDE DEF a
<1>1. a # Idle /\ a.at \in {"fill", "advance", "finish"} /\ SameRow(a.row)
  BY <1>b DEF Fill, Advance, Finish, Writes, At
<1>2. Sound => /\ Know(w, a, seeker) /\ RowRight(seeker) /\ ~Waits(w, a) /\ Same(a.row, seeker)
               /\ a.at # "fill" =>
                    RowRight(a.row) /\ \A b : b.at # "queued" /\ b.at \notin ReadSteps \cup {"fill"}
                                               => ~Reads(w, b) /\ ~Waits(w, b)
               /\ Got(a.row) \subseteq Got(seeker)
               /\ NoReset /\ a.row.isComplete => seeker.isComplete
  BY <1>1, <1>b, SharerKnows DEF FillSteps
<1>3. CASE Fill(w)
  <2>. DEFINE review == a.review
              f == Filled(seeker, review)
              d == [seeker.data EXCEPT !.parseReview = NoReview]
  <2>1. review \in Review /\ a.at = "fill"
    BY <1>a, <1>b, <1>1, <1>3 DEF Activity, Fill, Writes, At
  <2>2. /\ \/ /\ review.reupload /\ GotoWith(w, "match", seeker')
              /\ seeker' = [f EXCEPT !.isComplete = TRUE, !.step = "complete",
                                     !.data.parseReview = NoReview]
           \/ /\ ~review.reupload /\ GotoWith(w, "advance", seeker')
              /\ seeker' = [f EXCEPT !.data.parseReview = NoReview] \/ seeker' = f
    BY <1>b, <1>3 DEF Fill
  <2>. HIDE DEF review
  <2>3. /\ f \in Profile /\ f.id = seeker.id /\ f.data = seeker.data
        /\ f.answered = seeker.answered \cup review.answers
        /\ f.step = seeker.step /\ f.isComplete = seeker.isComplete
    BY <1>0, <2>1, FilledTyped
  <2>. HIDE DEF f
  <2>4. /\ d \in Data /\ d.experience = seeker.data.experience
        /\ d.parseReview.reupload = FALSE /\ d.reuploadPending = seeker.data.reuploadPending
    <3>1. NoReview \in Review /\ NoReview.reupload = FALSE
      BY DEF NoReview, Review
    <3>. QED
      BY <1>0, <3>1 DEF Data
  <2>5. CASE review.reupload
    <3>1. GotoWith(w, "match", seeker')
          /\ seeker' = [f EXCEPT !.isComplete = TRUE, !.step = "complete", !.data = d]
      BY <2>2, <2>3, <2>5
    <3>. HIDE DEF d
    <3>2. /\ seeker'.id = seeker.id /\ seeker'.answered = f.answered
          /\ seeker'.isComplete = TRUE /\ seeker'.step = "complete" /\ seeker'.data = d
      BY <2>3, <3>1 DEF Profile
    <3>3. seeker.answered \subseteq seeker'.answered
      BY <2>3, <3>2
    <3>4. Fuller(seeker, seeker')
      BY <2>4, <3>2, <3>3, GotGrowsPlainly DEF Fuller
    <3>5. Sound => NoReset /\ seeker.isComplete
      BY <1>2, <2>1, <2>5 DEF Know, review
    <3>6. Sound => Got(seeker') = Asked
      BY <1>2, <3>4, <3>5 DEF RowRight, Fuller, Got
    <3>7. \A i \in 1 .. Len(Questions) : seeker'.step # Questions[i]
      BY <3>2, CareerConstants DEF Asked
    <3>8. Sound => RowRight(seeker')
      BY <1>2, <2>4, <3>2, <3>5, <3>6, <3>7 DEF RowRight
    <3>. QED
      BY <1>a, <1>b, <1>1, <2>1, <3>1, <3>4, <3>5, <3>6, <3>8, GoesWithRow DEF FillSteps
  <2>6. CASE ~review.reupload
    <3>1. GotoWith(w, "advance", seeker') /\ (seeker' = [f EXCEPT !.data = d] \/ seeker' = f)
      BY <2>2, <2>3, <2>6
    <3>. HIDE DEF d
    <3>2. /\ seeker'.id = seeker.id /\ seeker'.answered = f.answered
          /\ seeker'.isComplete = seeker.isComplete /\ seeker'.step = seeker.step
          /\ seeker'.data = d \/ seeker'.data = seeker.data
      BY <2>3, <3>1 DEF Profile
    <3>3. seeker.answered \subseteq seeker'.answered
      BY <2>3, <3>2
    <3>4. Fuller(seeker, seeker')
      BY <2>4, <3>2, <3>3, GotGrowsPlainly DEF Fuller
    <3>5. Sound => RowRight(seeker')
      BY <1>2, <2>4, <3>2, <3>4, RowStays
    <3>6. ~a.review.reupload
      BY <2>6 DEF review
    <3>. QED
      BY <1>a, <1>b, <1>1, <2>1, <3>1, <3>4, <3>5, <3>6, GoesWithRow DEF FillSteps
  <2>. QED
    BY <2>5, <2>6
<1>4. CASE Advance(w)
  <2>. DEFINE q == FirstOpen(a.row)
  <2>1. /\ seeker' = [seeker EXCEPT !.step = q] /\ a.at = "advance"
        /\ \/ GotoWith(w, "finish", seeker') /\ seeker'.step = "complete"
           \/ Done(w)
    BY <1>b, <1>4 DEF Advance, Writes, At
  <2>2. q \in Steps
    BY QuestionSteps
  <2>. HIDE DEF q
  <2>3. Sound => /\ Fuller(seeker, seeker') /\ Got(seeker') = Got(seeker) /\ seeker'.step = q
                 /\ seeker'.isComplete = seeker.isComplete /\ seeker'.data = seeker.data
    BY <1>0, <1>2, <2>1, <2>2, StepWritten
  <2>4. Sound => /\ \A i \in 1 .. Len(Questions) : q = Questions[i] =>
                      \A k \in 1 .. i - 1 : Questions[k] \in Got(seeker)
                 /\ q = "complete" => Got(seeker) = Asked
    BY <1>2, FirstOpenQuestion DEF q
  <2>5. Sound => RowRight(seeker')
    BY <1>2, <2>3, <2>4 DEF RowRight
  <2>6. CASE Done(w)
    BY <2>3, <2>5, <2>6, DoneKnown
  <2>7. CASE GotoWith(w, "finish", seeker') /\ seeker'.step = "complete"
    <3>1. Sound => Got(seeker') = Asked
      BY <2>3, <2>4, <2>7
    <3>2. Sound => (a.review.reupload => NoReset)
      BY <1>2 DEF Know
    <3>. QED
      BY <1>a, <1>b, <1>1, <2>1, <2>3, <2>5, <2>7, <3>1, <3>2, GoesWithRow DEF FillSteps
  <2>. QED
    BY <2>1, <2>6, <2>7
<1>5. CASE Finish(w)
  <2>. DEFINE b == [a EXCEPT !.at = "match"]
  <2>1. /\ seeker' = [seeker EXCEPT !.isComplete = TRUE, !.step = "complete"]
        /\ work' = [work EXCEPT ![w] = b] /\ a.at = "finish"
    BY <1>b, <1>5 DEF Finish, Goto, Writes, At
  <2>2. /\ seeker'.id = seeker.id /\ seeker'.answered = seeker.answered
        /\ seeker'.isComplete = TRUE /\ seeker'.step = "complete" /\ seeker'.data = seeker.data
    BY <1>0, <2>1 DEF Profile
  <2>3. Got(seeker') = Got(seeker) /\ Fuller(seeker, seeker')
    BY <2>2 DEF Got, Answered, Fuller
  <2>4. Sound => Got(a.row) = Asked /\ Got(seeker') = Asked
    BY <1>2, <2>1, <2>3 DEF Know, Got
  <2>5. \A i \in 1 .. Len(Questions) : seeker'.step # Questions[i]
    BY <2>2, CareerConstants DEF Asked
  <2>6. Sound => RowRight(seeker')
    BY <1>2, <2>2, <2>4, <2>5 DEF RowRight
  <2>7. b.at = "match" /\ b.row = a.row /\ b.word = a.word /\ b.review = a.review /\ b \in Activity
    BY <1>a, <1>1 DEF Activity, Places, ChatSteps, FillSteps
  <2>. HIDE DEF b
  <2>8. Sound => ~Reads(w, b) /\ ~Waits(w, b) /\ ~Reads(w, a)
    BY <2>1, <2>7 DEF Reads, Waits, ReadSteps
  <2>9. Sound => Know(w, b, seeker)
    BY <1>2, <2>1, <2>4, <2>7, <2>8, KnowsThere
  <2>10. Sound => Know(w, b, seeker')
    BY <1>1, <1>a, <2>3, <2>7, <2>9, KnowsStill
  <2>. QED
    BY <2>1, <2>3, <2>6, <2>10, GoesKnown
<1>. QED
  BY <1>3, <1>4, <1>5

(* A list is written back with the column it was found with.                 *)
LEMMA ListKnown ==
  ASSUME WellFormed, Questioned, setting' = setting, NEW w \in Workers,
         Match(w) \/ SaveJobSession(w) \/ PresentTopJobs(w) \/ Learn(w) \/ SaveAlert(w)
  PROVE  Questioned'
<1>0. seeker \in Profile /\ seeker.data \in Data
  BY Typed DEF Profile
<1>. DEFINE a == work[w]
<1>a. a # Idle => a \in Activity /\ a.row \in Profile /\ a.row.id <= created /\ a.row.data \in Data
                  /\ May(w, a)
  BY Typed DEF Profile
<1>b. a = work[w]
  OBVIOUS
<1>. HIDE DEF a
<1>c. ASSUME a # Idle, a.at \in {"match", "find", "list", "learn", "guidance", "rematch", "sent"},
             SameRow(a.row), Sound
      PROVE  /\ Know(w, a, seeker) /\ RowRight(seeker) /\ RowRight(a.row)
             /\ Got(a.row) = Asked
             /\ NoReset /\ a.row.isComplete => seeker.isComplete
             /\ \A b : b.at # "queued" /\ b.at \notin ReadSteps \cup {"fill"}
                         => ~Reads(w, b) /\ ~Waits(w, b)
  <2>1. /\ Know(w, a, seeker) /\ RowRight(seeker) /\ RowRight(a.row)
        /\ NoReset /\ a.row.isComplete => seeker.isComplete
        /\ \A b : b.at # "queued" /\ b.at \notin ReadSteps \cup {"fill"}
                    => ~Reads(w, b) /\ ~Waits(w, b)
    BY <1>c, <1>b, SharerKnows DEF FillSteps
  <2>2. Got(a.row) = Asked
    BY <1>c, <2>1 DEF Know, RowRight
  <2>. QED
    BY <2>1, <2>2
(* The column is written back from the copy: everything was answered in it.  *)
<1>d. ASSUME a # Idle, a.at \in {"list", "learn", "guidance", "sent"}, SameRow(a.row), Sound,
             NEW d \in Data, seeker' = [seeker EXCEPT !.data = d],
             d.experience = a.row.data.experience, d.parseReview = a.row.data.parseReview,
             d.reuploadPending = a.row.data.reuploadPending
      PROVE  RowRight(seeker') /\ Fuller(seeker, seeker')
  <2>1. /\ RowRight(seeker) /\ RowRight(a.row) /\ Got(a.row) = Asked
        /\ NoReset /\ a.row.isComplete => seeker.isComplete
    BY <1>c, <1>d
  <2>2. /\ seeker'.id = seeker.id /\ seeker'.answered = seeker.answered
        /\ seeker'.isComplete = seeker.isComplete /\ seeker'.step = seeker.step
        /\ seeker'.data = d
    BY <1>0, <1>d DEF Profile
  <2>3. Experience \in Got(seeker) => seeker'.data.experience
    BY <1>d, <2>1, <2>2 DEF Got, Answered
  <2>4. Got(seeker) \subseteq Got(seeker')
    BY <2>2, <2>3, GotGrows
  <2>5. Got(seeker) = Asked => Got(seeker') = Asked
    BY <2>4 DEF Got
  <2>6. seeker'.data.parseReview.reupload => seeker'.isComplete /\ NoReset
    BY <1>d, <2>1, <2>2 DEF RowRight
  <2>7. seeker'.data.reuploadPending => NoReset
    BY <1>d, <2>1, <2>2 DEF RowRight
  <2>. QED
    BY <2>1, <2>2, <2>4, <2>5, <2>6, <2>7 DEF RowRight, Fuller
<1>e. ASSUME a # Idle, a.at \in {"match", "find", "list", "learn", "guidance"}, SameRow(a.row),
             NEW b \in Activity, work' = [work EXCEPT ![w] = b],
             b.row = a.row, b.word = a.word, b.review = a.review,
             b.at \in {"list", "present", "rematch"},
              b.at = "rematch" => a.at \in {"learn", "guidance"},
             Sound => RowRight(seeker') /\ Fuller(seeker, seeker')
      PROVE  Questioned'
  <2>1. SUFFICES ASSUME Sound PROVE Know(w, b, seeker')
    BY <1>e, GoesKnown
  <2>2. /\ Know(w, a, seeker) /\ Got(a.row) = Asked
        /\ \A x : x.at # "queued" /\ x.at \notin ReadSteps \cup {"fill"}
                    => ~Reads(w, x) /\ ~Waits(w, x)
    BY <1>c, <1>e, <2>1
  <2>3. ~Reads(w, a) /\ ~Waits(w, a) /\ ~Reads(w, b) /\ ~Waits(w, b)
    BY <1>e, <2>2 DEF ReadSteps
  <2>4. b.at = "rematch" => a.row.isComplete
    BY <1>e, <2>2 DEF Know
  <2>5. Know(w, b, seeker)
    BY <1>e, <2>2, <2>3, <2>4, KnowsThere
  <2>. QED
    BY <1>a, <1>e, <2>1, <2>5, KnowsStill
<1>1. CASE Match(w)
  <2>1. seeker' = seeker
    BY <1>1 DEF Match
  <2>2. Sound => RowRight(seeker') /\ Fuller(seeker, seeker')
    BY <2>1, RowUntouched
  <2>3. CASE Done(w)
    BY <2>2, <2>3, DoneKnown
  <2>4. ASSUME NEW list \in Lists \cup {<<>>}, Writes(w, "match") \/ Writes(w, "find"),
               work' = [work EXCEPT ![w].at = "list", ![w].list = list]
        PROVE  Questioned'
    <3>. DEFINE b == [a EXCEPT !.at = "list", !.list = list]
    <3>1. a # Idle /\ a.at \in {"match", "find"} /\ SameRow(a.row) /\ work' = [work EXCEPT ![w] = b]
      BY <1>b, <2>4 DEF Writes, At
    <3>2. list \in Seq(Jobs)
      BY ListsOfJobs
    <3>3. b \in Activity /\ b.at = "list" /\ b.row = a.row /\ b.word = a.word /\ b.review = a.review
      BY <1>a, <3>1, <3>2 DEF Activity, Places, ChatSteps, FillSteps
    <3>. HIDE DEF b
    <3>. QED
      BY <1>e, <2>2, <3>1, <3>3
  <2>. QED
    BY <1>1, <2>3, <2>4 DEF Match
<1>2. CASE SaveJobSession(w)
  <2>. DEFINE b == [a EXCEPT !.at = "present"]
              d == Listed(a.row.data, a.list)
  <2>1. /\ a # Idle /\ a.at = "list" /\ SameRow(a.row) /\ work' = [work EXCEPT ![w] = b]
        /\ seeker' = [seeker EXCEPT !.data = d]
    BY <1>b, <1>2 DEF SaveJobSession, Writes, At, Goto, WriteBack
  <2>2. a.list \in Lists
    BY <1>a, <2>1 DEF May, FillSteps, ReadSteps, Workers
  <2>3. /\ d \in Data /\ d.experience = a.row.data.experience
        /\ d.parseReview = a.row.data.parseReview
        /\ d.reuploadPending = a.row.data.reuploadPending
    BY <1>a, <2>1, <2>2, ListedKeeps
  <2>. HIDE DEF d
  <2>4. /\ b \in Activity /\ b.at = "present" /\ b.row = a.row /\ b.word = a.word
        /\ b.review = a.review
    BY <1>a, <2>1 DEF Activity, Places, ChatSteps, FillSteps
  <2>. HIDE DEF b
  <2>5. Sound => RowRight(seeker') /\ Fuller(seeker, seeker')
    BY <1>d, <2>1, <2>3
  <2>. QED
    BY <1>e, <2>1, <2>4, <2>5
<1>3. CASE PresentTopJobs(w)
  <2>1. seeker' = seeker /\ Done(w)
    BY <1>3 DEF PresentTopJobs
  <2>. QED
    BY <2>1, RowUntouched, DoneKnown
<1>4. CASE Learn(w)
  <2>1. /\ a # Idle /\ a.at \in {"learn", "guidance"} /\ SameRow(a.row)
        /\ seeker' = [seeker EXCEPT !.data = a.row.data]
        /\ Goto(w, "rematch") \/ Done(w)
    BY <1>b, <1>4 DEF Learn, Writes, At, WriteBack
  <2>2. Sound => RowRight(seeker') /\ Fuller(seeker, seeker')
    BY <1>a, <1>d, <2>1
  <2>3. CASE Done(w)
    BY <2>2, <2>3, DoneKnown
  <2>4. CASE Goto(w, "rematch")
    <3>. DEFINE b == [a EXCEPT !.at = "rematch"]
    <3>1. work' = [work EXCEPT ![w] = b]
      BY <1>b, <2>4 DEF Goto
    <3>2. b \in Activity /\ b.at = "rematch" /\ b.row = a.row /\ b.word = a.word
          /\ b.review = a.review
      BY <1>a, <2>1 DEF Activity, Places, ChatSteps
    <3>. HIDE DEF b
    <3>. QED
      BY <1>e, <2>1, <2>2, <3>1, <3>2
  <2>. QED
    BY <2>1, <2>3, <2>4
<1>5. CASE SaveAlert(w)
  <2>. DEFINE d == Listed(a.row.data, a.list)
  <2>1. /\ a # Idle /\ a.at = "sent" /\ SameRow(a.row) /\ Done(w)
        /\ seeker' = [seeker EXCEPT !.data = d]
    BY <1>b, <1>5 DEF SaveAlert, Writes, At, WriteBack
  <2>2. a.list \in Lists
    BY <1>a, <2>1 DEF May
  <2>3. /\ d \in Data /\ d.experience = a.row.data.experience
        /\ d.parseReview = a.row.data.parseReview
        /\ d.reuploadPending = a.row.data.reuploadPending
    BY <1>a, <2>1, <2>2, ListedKeeps
  <2>. HIDE DEF d
  <2>4. Sound => RowRight(seeker') /\ Fuller(seeker, seeker')
    BY <1>d, <2>1, <2>3
  <2>. QED
    BY <2>1, <2>4, DoneKnown
<1>. QED
  BY <1>1, <1>2, <1>3, <1>4, <1>5

(* A task that is tried again knows what it knew.                            *)
LEMMA FailKnown ==
  ASSUME WellFormed, Questioned, setting' = setting, NEW w \in Workers, Throw(w) \/ Crash(w)
  PROVE  Questioned'
<1>. DEFINE a == work[w]
            b == [a EXCEPT !.at = "queued", !.tries = a.tries + 1]
<1>1. a # Idle /\ seeker' = seeker /\ (Done(w) \/ Fail(w))
  BY DEF Throw, Crash, Nothing
<1>2. (work' = [work EXCEPT ![w] = b] /\ w \in Tasks) \/ Done(w)
  <2>1. Fail(w) => work' = [work EXCEPT ![w] = IF w \in Tasks /\ a.tries < Retries THEN b ELSE Idle]
    BY DEF Fail
  <2>. HIDE DEF a, b
  <2>2. CASE w \in Tasks /\ a.tries < Retries
    BY <1>1, <2>1, <2>2
  <2>3. CASE ~(w \in Tasks /\ a.tries < Retries)
    BY <1>1, <2>1, <2>3 DEF Done
  <2>. QED
    BY <2>2, <2>3
<1>3. CASE Done(w)
  BY <1>1, <1>3, RowUntouched, DoneKnown
<1>4. CASE work' = [work EXCEPT ![w] = b] /\ w \in Tasks
  <2>1. a \in Activity
    BY <1>1, Typed
  <2>2. b.at = "queued" /\ b.row = a.row /\ b.word = a.word /\ b.review = a.review
    BY <2>1 DEF Activity
  <2>3. a.word = "parse_resume" \/ a.word = "generate_cover_letter"
    BY <1>1, <1>4, Typed DEF May
  <2>4. Sound => Know(w, a, seeker)
    BY <1>1 DEF Questioned
  <2>5. w \notin Chats
    BY <1>4, CareerConstants
  <2>6. a.word = "generate_cover_letter" => a.at \in {"queued", "letter", "learn"}
    BY <1>1, <1>4, Typed DEF May
  <2>. HIDE DEF a, b
  <2>7. Sound => Know(w, b, seeker)
    <3>1. CASE a.word = "parse_resume"
      <4>1. Waits(w, b) /\ ~Reads(w, b)
        BY <1>4, <2>2, <3>1 DEF Waits, Reads, ReadSteps
      <4>. QED
        BY <2>2, <2>4, <3>1, <4>1 DEF Know
    <3>2. CASE a.word = "generate_cover_letter"
      <4>1. ~Waits(w, b) /\ ~Reads(w, b) /\ ~Waits(w, a) /\ ~Reads(w, a)
        BY <2>2, <3>2 DEF Waits, Reads
      <4>. QED
        BY <2>2, <2>4, <2>6, <3>2, <4>1, KnowsThere
    <3>. QED
      BY <2>3, <3>1, <3>2
  <2>. QED
    BY <1>1, <1>4, <2>7, RowUntouched, GoesKnown
<1>. QED
  BY <1>2, <1>3, <1>4

(* Alerts start with the row as it is.                                       *)
LEMMA SenderKnown ==
  ASSUME WellFormed, Questioned, setting' = setting, NEW s \in Senders,
         BeginAlert(s) \/ BeginDigest(s) \/ SendAlert(s)
  PROVE  Questioned'
<1>0. s \in Workers /\ s \notin Tasks /\ s \notin Chats
  BY CareerConstants DEF Workers
<1>1. \A x : ~Waits(s, x) /\ ~Reads(s, x)
  BY <1>0 DEF Waits, Reads
<1>2. CASE BeginAlert(s) \/ BeginDigest(s)
  <2>1. PICK list \in Lists : BeginSending(s, list)
    BY <1>2 DEF BeginAlert, BeginDigest
  <2>. DEFINE b == [Starting("send", "alert", seeker) EXCEPT !.list = list]
  <2>2. work' = [work EXCEPT ![s] = b] /\ seeker' = seeker /\ seeker.isComplete
    BY <2>1 DEF BeginSending
  <2>3. b.at = "send" /\ b.row = seeker /\ b.review = NoReview
    BY DEF Starting
  <2>. HIDE DEF b
  <2>4. Sound => Know(s, b, seeker)
    BY <1>0, <1>1, <2>2, <2>3 DEF Know, Questioned, NoReview
  <2>. QED
    BY <1>0, <2>2, <2>4, RowUntouched, GoesKnown
<1>3. CASE SendAlert(s)
  <2>. DEFINE a == work[s]
              b == [a EXCEPT !.at = "sent"]
  <2>1. a # Idle /\ a.at = "send" /\ work' = [work EXCEPT ![s] = b] /\ seeker' = seeker
    BY <1>3 DEF SendAlert, At, Goto
  <2>2. a \in Activity
    BY <1>0, <2>1, Typed
  <2>3. b.at = "sent" /\ b.row = a.row /\ b.word = a.word /\ b.review = a.review
    BY <2>2 DEF Activity
  <2>4. Sound => Know(s, a, seeker)
    BY <1>0, <2>1 DEF Questioned
  <2>. HIDE DEF a, b
  <2>5. Sound => a.row.isComplete
    BY <2>1, <2>4 DEF Know
  <2>6. Sound => Know(s, b, seeker)
    BY <1>0, <1>1, <2>1, <2>3, <2>4, <2>5, KnowsThere
  <2>. QED
    BY <1>0, <2>1, <2>6, RowUntouched, GoesKnown
<1>. QED
  BY <1>2, <1>3

(* A message starts with the row as it is.                                   *)
LEMMA HearKnown ==
  ASSUME WellFormed, Questioned, setting' = setting,
         NEW c \in Chats, NEW word \in Words, NEW n \in 1 .. 2, Hear(c, word, n)
  PROVE  Questioned'
<1>0. c \in Workers /\ c \notin Tasks /\ seeker \in Profile /\ created \in Nat
  BY Typed, CareerConstants DEF Workers
<1>. DEFINE m == IF n <= Len(shown) THEN {shown[n]} ELSE {}
            t == Starting(Route(seeker', word), word, seeker')
            b == [t EXCEPT !.n = n, !.meant = m]
<1>1. work' = [work EXCEPT ![c] = b]
  BY DEF Hear
<1>. HIDE DEF m
<1>2. b.at = Route(seeker', word) /\ b.row = seeker' /\ b.word = word /\ b.review = NoReview
  BY DEF Starting
<1>. HIDE DEF b
<1>3. \/ seeker' = seeker
      \/ seeker.id = 0 /\ seeker' = NewProfile(created + 1) /\ seeker'.id = created + 1
  BY DEF Hear, Has, NewProfile
<1>4. Sound => RowRight(seeker')
  BY <1>3, NewRow, RowUntouched
<1>5. \A x : ~Waits(c, x) /\ ~Reads(c, x)
  BY <1>0 DEF Waits, Reads
<1>6. /\ b.at \notin {"finish", "match", "list", "fill"}
      /\ b.at \in {"find", "apply", "dismiss", "cover", "guidance", "learn", "rematch",
                   "letter", "send", "sent"} => seeker'.isComplete
  BY <1>2 DEF Route, Command
<1>7. Sound => Know(c, b, seeker')
  BY <1>0, <1>2, <1>4, <1>5, <1>6 DEF Know, NoReview
<1>8. \/ Fuller(seeker, seeker')
      \/ seeker.id = 0 /\ seeker'.id = created + 1
  BY <1>3 DEF Fuller
<1>9. work'[c] = b /\ \A v \in Workers : v # c => work'[v] = work[v]
  BY <1>0, <1>1 DEF WellFormed, TypeOK
<1>. QED
  BY <1>0, <1>4, <1>7, <1>8, <1>9, QuestionedKept

LEMMA QuestionedInitially ==
  ASSUME Init
  PROVE  Questioned
<1>1. \A w \in Workers : work[w] = Idle
  BY DEF Init
<1>2. setting.joined \in BOOLEAN
  BY CareerConstants DEF Init, Setting
<1>3. Sound => RowRight(NoProfile)
  BY NewRow DEF NoProfile
<1>4. RowRight(Joined)
  <2>1. /\ Joined.isComplete /\ Joined.step = "complete" /\ Joined.data.experience
        /\ Joined.answered = Asked \ {Experience} /\ ~Joined.data.reuploadPending
        /\ ~Joined.data.parseReview.reupload
    BY DEF Joined, NewProfile, NoData, NoReview
  <2>2. Got(Joined) = Asked
    BY <2>1 DEF Got, Answered
  <2>3. \A i \in 1 .. Len(Questions) : Joined.step # Questions[i]
    BY <2>1, CareerConstants DEF Asked
  <2>. QED
    BY <2>1, <2>2, <2>3 DEF RowRight
<1>. QED
  BY <1>1, <1>2, <1>3, <1>4 DEF Init, Questioned

LEMMA QuestionedStep ==
  ASSUME WellFormed, Questioned, [Next]_vars
  PROVE  Questioned'
<1>0. setting' = setting
  BY Numbers
<1>1. CASE UNCHANGED vars
  BY <1>1 DEF vars, Questioned, Sound, OneChat, RowRight, Know, NoReset, Got, Answered, Reads,
              Waits, Same
<1>2. ASSUME NEW c \in Chats, Converse(c)
      PROVE  Questioned'
  BY <1>0, <1>2, ChatStopsKnown, ResetKnown, EnqueuedKnown, ChatTurnsKnown, AnswerKnown
     DEF Converse
<1>3. ASSUME NEW c \in Chats, NEW word \in Words, NEW n \in 1 .. 2, Hear(c, word, n)
      PROVE  Questioned'
  BY <1>0, <1>3, HearKnown
<1>4. ASSUME NEW t \in Tasks, Prepare(t)
      PROVE  Questioned'
  BY <1>0, <1>4, TaskKnown, ParseKnown DEF Prepare
<1>5. ASSUME NEW s \in Senders, BeginAlert(s) \/ BeginDigest(s) \/ SendAlert(s) \/ SaveAlert(s)
      PROVE  Questioned'
  BY <1>0, <1>5, SenderKnown, ListKnown DEF Workers
<1>6. ASSUME NEW w \in Workers, Share(w) \/ Crash(w)
      PROVE  Questioned'
  BY <1>0, <1>6, FillKnown, ListKnown, FailKnown DEF Share
<1>. QED
  BY <1>1, <1>2, <1>3, <1>4, <1>5, <1>6 DEF Next

(* A complete profile has an answer to every question: whatever alerts and   *)
(* letters write back, however many resumes are read and confirmed, and also *)
(* after a reset, where one chat at a time updates no resume and asks for no *)
(* letter, and what was read is confirmed.                                   *)
THEOREM CompleteProfilesHaveAnswers == Spec => []CompleteMeansAnswered
<1>1. Init => WellFormed /\ Questioned
  BY WellFormedInitially, QuestionedInitially
<1>2. WellFormed /\ Questioned /\ [Next]_vars => (WellFormed /\ Questioned)'
  BY WellFormedStep, QuestionedStep
<1>3. Questioned => CompleteMeansAnswered
  <2>1. SUFFICES ASSUME Questioned, Sound, seeker.isComplete
                 PROVE  \A q \in Asked : Answered(seeker, q)
    BY DEF CompleteMeansAnswered, Sound
  <2>2. Got(seeker) = Asked
    BY <2>1 DEF Questioned, RowRight
  <2>. QED
    BY <2>2 DEF Got
<1>. QED
  BY <1>1, <1>2, <1>3, PTL DEF Spec

-----------------------------------------------------------------------------
(* Where one chat alone saves lists and interviews, the row it works with    *)
(* has them as they are, and the last list on the phone is the one saved:    *)
(* x is what the chat is doing, d the column, list what is on the phone.     *)
Reliable == setting.faults \cap {"crash", "send"} = {}

Current(x, d) ==
  x.at \notin {"restart", "record", "present"} =>
    x.row.data.session = d.session /\ x.row.data.jobSession = d.jobSession

OnPhone(x, d, list) ==
  /\ ~(x # Idle /\ x.at = "present") => list = d.jobSession
  /\ x # Idle =>
       /\ x.at = "present" => x.list = d.jobSession
       /\ x.at = "restart" => d.jobSession = <<>>
       /\ x.at \in {"apply", "dismiss"} =>
            x.meant = IF x.n <= Len(d.jobSession) THEN {d.jobSession[x.n]} ELSE {}

Agrees(x, d, list) ==
  /\ x # Idle => Current(x, d)
  /\ Reliable => OnPhone(x, d, list)

Conversed ==
  /\ ~Has(seeker) => seeker.data.jobSession = <<>>
  /\ Undisturbed => \A c \in setting.chats : Agrees(work[c], seeker.data, shown)

LEMMA AgreesAlways ==
  ASSUME setting' = setting, NEW c, Agrees(work'[c], seeker'.data, shown')
  PROVE  Agrees(work[c], seeker.data, shown)'
BY DEF Agrees, Current, OnPhone, Reliable

(* The chat is done.                                                         *)
LEMMA IdleAgrees ==
  ASSUME NEW x, NEW d, NEW list, Agrees(x, d, list), x # Idle => x.at # "present",
         NEW e, e.jobSession = d.jobSession
  PROVE  Agrees(Idle, e, list)
BY DEF Agrees, OnPhone

(* The chat goes on with its row, or with one that was just written.         *)
LEMMA GoesAgreeing ==
  ASSUME NEW x, NEW d, NEW list, Agrees(x, d, list), x # Idle, x.at # "present",
         NEW y, y.at \notin {"present", "restart", "apply", "dismiss"},
         NEW e, e.jobSession = d.jobSession,
         \/ y.at = "record"
         \/ y.row.data = e
         \/ /\ x.at \notin {"restart", "record"} /\ y.row.data = x.row.data
            /\ e.session = d.session
  PROVE  Agrees(y, e, list)
<1>1. Current(y, e)
  BY DEF Agrees, Current
<1>2. Reliable => OnPhone(y, e, list)
  BY DEF Agrees, OnPhone
<1>. QED
  BY <1>1, <1>2 DEF Agrees

(* There is one chat.                                                        *)
LEMMA TheChat ==
  ASSUME WellFormed, OneChat, NEW c \in setting.chats, NEW d \in setting.chats
  PROVE  c = d
<1>1. IsFiniteSet(setting.chats)
  BY Typed, CareerConstants, FS_Subset DEF Setting
<1>2. PICK x : setting.chats = {x}
  BY <1>1, FS_Singleton DEF OneChat
<1>. QED
  BY <1>2

(* Keys of the column that have nothing to do with lists and interviews.     *)
LEMMA KeysApart ==
  ASSUME NEW d \in Data
  PROVE  /\ \A b : /\ [d EXCEPT !.reuploadPending = b].session = d.session
                   /\ [d EXCEPT !.reuploadPending = b].jobSession = d.jobSession
                   /\ [d EXCEPT !.experience = b].session = d.session
                   /\ [d EXCEPT !.experience = b].jobSession = d.jobSession
                   /\ [d EXCEPT !.parseReview = b].session = d.session
                   /\ [d EXCEPT !.parseReview = b].jobSession = d.jobSession
         /\ \A s, n : /\ [d EXCEPT !.session = s].jobSession = d.jobSession
                      /\ [d EXCEPT !.session = s].session = s
                      /\ [d EXCEPT !.session = s, !.history = n].jobSession = d.jobSession
                      /\ [d EXCEPT !.session = s, !.history = n].session = s
                      /\ [d EXCEPT !.session = s, !.history = n].history = n
         /\ \A l : /\ Listed(d, l).session = d.session
                   /\ Listed(d, l).jobSession = l
BY DEF Data, Listed

(* What a write of one column of the row leaves alone.                       *)
LEMMA RowApart ==
  ASSUME NEW r \in Profile
  PROVE  /\ \A s : [r EXCEPT !.step = s].data = r.data
         /\ \A d : [r EXCEPT !.data = d].data = d /\ [r EXCEPT !.data = d].isComplete = r.isComplete
         /\ \A b : [r EXCEPT !.digestOptOut = b].data = r.data
         /\ r.data \in Data
BY DEF Profile

(* A chat that is done afterwards.                                           *)
LEMMA ChatRests ==
  ASSUME WellFormed, NEW c \in Chats,
         \/ SetOptOut(c) \/ AskAgain(c) \/ MoveOn(c) \/ ReviewExpired(c)
         \/ ReviewHelp(c) \/ AwaitResume(c) \/ Help(c) \/ StartInterview(c)
         \/ BeginSession(c) \/ FinishSession(c) \/ CancelSession(c) \/ PromptSession(c)
  PROVE  /\ Done(c) /\ work[c].at # "present" /\ shown' = shown
         /\ seeker'.data.jobSession = seeker.data.jobSession
<1>. /\ seeker \in Profile /\ seeker.data \in Data
     /\ \A s : [seeker EXCEPT !.step = s].data = seeker.data
     /\ \A d : [seeker EXCEPT !.data = d].data = d
     /\ \A b : [seeker EXCEPT !.digestOptOut = b].data = seeker.data
  BY Typed, RowApart
<1>1. CASE SetOptOut(c) \/ AskAgain(c) \/ ReviewHelp(c) \/ Help(c) \/ PromptSession(c)
  BY <1>1 DEF SetOptOut, AskAgain, ReviewHelp, Help, PromptSession, OnlySeeker, Nothing,
              Writes, At
<1>2. CASE MoveOn(c) \/ ReviewExpired(c)
  BY <1>2 DEF MoveOn, ReviewExpired, OnlySeeker, Writes, At
<1>3. CASE AwaitResume(c)
  <2>. DEFINE d == [seeker.data EXCEPT !.reuploadPending = TRUE]
  <2>1. Done(c) /\ work[c].at # "present" /\ shown' = shown /\ seeker' = [seeker EXCEPT !.data = d]
    BY <1>3 DEF AwaitResume, Merge, OnlySeeker, Writes, At
  <2>2. d.jobSession = seeker.data.jobSession
    BY KeysApart
  <2>. HIDE DEF d
  <2>. QED
    BY <2>1, <2>2
<1>4. CASE StartInterview(c) \/ BeginSession(c) \/ CancelSession(c)
  <2>1. /\ Done(c) /\ work[c].at # "present" /\ shown' = shown
        /\ \/ \E s : seeker' = [seeker EXCEPT !.data = [seeker.data EXCEPT !.session = s]]
           \/ seeker' = seeker
    BY <1>4 DEF StartInterview, BeginSession, CancelSession, Merge, OnlySeeker, Writes, At
  <2>2. ASSUME NEW s, seeker' = [seeker EXCEPT !.data = [seeker.data EXCEPT !.session = s]]
        PROVE  seeker'.data.jobSession = seeker.data.jobSession
    <3>. DEFINE d == [seeker.data EXCEPT !.session = s]
    <3>1. seeker' = [seeker EXCEPT !.data = d] /\ d.jobSession = seeker.data.jobSession
      BY <2>2, KeysApart
    <3>. HIDE DEF d
    <3>. QED
      BY <3>1
  <2>. QED
    BY <2>1, <2>2
<1>5. CASE FinishSession(c)
  <2>1. Done(c) /\ work[c].at # "present" /\ shown' = shown
    BY <1>5 DEF FinishSession, OnlySeeker, Writes, At
  <2>2. PICK n : seeker' = [seeker EXCEPT !.data = [seeker.data EXCEPT !.session = NoSession,
                                                                    !.history = n]]
    BY <1>5 DEF FinishSession
  <2>. DEFINE d == [seeker.data EXCEPT !.session = NoSession, !.history = n]
  <2>3. seeker' = [seeker EXCEPT !.data = d] /\ d.jobSession = seeker.data.jobSession
    BY <2>2, KeysApart
  <2>. HIDE DEF d
  <2>. QED
    BY <2>1, <2>3
<1>. QED
  BY <1>1, <1>2, <1>3, <1>4, <1>5

(* A chat that goes on, or is done, with the lists untouched.                *)
Undecided(c) ==
  /\ work[c] # Idle /\ work[c].at # "present" /\ shown' = shown
  /\ seeker'.data.jobSession = seeker.data.jobSession
  /\ work'[c] # Idle =>
       /\ work'[c].at \notin {"present", "restart", "apply", "dismiss"}
       /\ \/ work'[c].at = "record"
          \/ work'[c].row.data = seeker'.data
          \/ /\ work[c].at \notin {"restart", "record"}
             /\ work'[c].row.data = work[c].row.data
             /\ seeker'.data.session = seeker.data.session

LEMMA UndecidedAgrees ==
  ASSUME NEW c \in Chats, Agrees(work[c], seeker.data, shown), Undecided(c)
  PROVE  Agrees(work'[c], seeker'.data, shown')
<1>1. PICK y : y = work'[c]
  OBVIOUS
<1>2. CASE y = Idle
  BY <1>1, <1>2, IdleAgrees DEF Undecided
<1>3. CASE y # Idle
  BY <1>1, <1>3, GoesAgreeing DEF Undecided
<1>. QED
  BY <1>2, <1>3

(* What a chat does in several steps.                                        *)
LEMMA ChatTurns ==
  ASSUME WellFormed, NEW c \in Chats,
         \/ Upload(c) \/ AskForLetter(c) \/ ReviewAnyway(c) \/ SkipAnswered(c) \/ Answer(c)
         \/ Confirm(c) \/ Apply(c) \/ EvaluateAnswer(c) \/ SaveAnswer(c)
  PROVE  Undecided(c)
<1>. DEFINE a == work[c]
<1>. /\ seeker \in Profile /\ seeker.data \in Data
     /\ \A s : [seeker EXCEPT !.step = s].data = seeker.data
     /\ \A d : [seeker EXCEPT !.data = d].data = d
  BY Typed, RowApart
<1>w. /\ c \in Workers /\ a = work[c]
      /\ \A x : work' = [work EXCEPT ![c] = x] => work'[c] = x
  BY DEF WellFormed, TypeOK, Workers
<1>a. a # Idle /\ a.at # "present"
  BY DEF Upload, AskForLetter, ReviewAnyway, SkipAnswered, Answer, Confirm, Apply,
         EvaluateAnswer, SaveAnswer, Writes, At
<1>t. a \in Activity
  BY <1>a, <1>w, Typed
<1>. HIDE DEF a
<1>1. CASE Upload(c) \/ AskForLetter(c)
  <2>1. UNCHANGED <<seeker, shown>>
    BY <1>1 DEF Upload, AskForLetter, Nothing, OnlySeeker
  <2>2. ASSUME NEW x, Enqueue(c, x)
        PROVE  work'[c] = Idle
    <3>. work \in [Workers -> Activity \cup {Idle}]
      BY DEF WellFormed, TypeOK
    <3>. QED
      BY <1>w, <2>2 DEF Enqueue
  <2>3. work'[c] = Idle
    BY <1>1, <1>w, <2>2 DEF Upload, AskForLetter, Done
  <2>. QED
    BY <1>a, <1>w, <2>1, <2>3 DEF Undecided
<1>2. CASE ReviewAnyway(c)
  <2>. DEFINE b == [a EXCEPT !.at = "review"]
  <2>1. /\ a.at = "onboard" /\ work' = [work EXCEPT ![c] = b]
        /\ UNCHANGED <<seeker, shown>>
    BY <1>2, <1>w DEF ReviewAnyway, At, Goto, Nothing, OnlySeeker
  <2>2. b.at = "review" /\ b.row = a.row
    BY <1>t DEF Activity
  <2>. HIDE DEF b
  <2>. QED
    BY <1>a, <1>w, <2>1, <2>2 DEF Undecided
<1>3. CASE SkipAnswered(c)
  <2>1. UNCHANGED shown /\ (\/ \E s : seeker' = [seeker EXCEPT !.step = s]
                            \/ seeker' = seeker)
    BY <1>3 DEF SkipAnswered, OnlySeeker
  <2>2. seeker'.data = seeker.data
    BY <2>1
  <2>3. Done(c) \/ \E p \in {"finish", "skip"} : GotoWith(c, p, seeker')
    BY <1>3 DEF SkipAnswered
  <2>4. CASE Done(c)
    BY <1>a, <1>w, <2>1, <2>2, <2>4 DEF Undecided, Done
  <2>5. ASSUME NEW p \in {"finish", "skip"}, GotoWith(c, p, seeker')
        PROVE  Undecided(c)
    <3>. DEFINE b == [a EXCEPT !.at = p, !.row = seeker']
    <3>1. work' = [work EXCEPT ![c] = b]
      BY <1>w, <2>5 DEF GotoWith
    <3>2. b.at = p /\ b.row = seeker'
      BY <1>t DEF Activity
    <3>. HIDE DEF b
    <3>. QED
      BY <1>a, <1>w, <2>1, <2>2, <3>1, <3>2 DEF Undecided
  <2>. QED
    BY <2>3, <2>4, <2>5
<1>4. CASE Answer(c)
  <2>0. a.at = "onboard" /\ UNCHANGED shown
    BY <1>4, <1>w DEF Answer, Writes, At, OnlySeeker
  <2>1. CASE a.row.step = Experience /\ ~seeker.data.experience
    <3>. DEFINE d == [seeker.data EXCEPT !.experience = TRUE]
    <3>1. seeker' = [seeker EXCEPT !.data = d] /\ work' = work
      BY <1>4, <1>w, <2>1 DEF Answer, Merge
    <3>2. d.jobSession = seeker.data.jobSession /\ d.session = seeker.data.session
      BY KeysApart
    <3>. HIDE DEF d
    <3>. QED
      BY <1>a, <1>w, <2>0, <3>1, <3>2 DEF Undecided
  <2>2. CASE ~(a.row.step = Experience /\ ~seeker.data.experience)
    <3>1. /\ \E s, q : seeker' = [seeker EXCEPT !.step = s, !.answered = q]
          /\ Done(c) \/ GotoWith(c, "finish", seeker')
      BY <1>4, <1>w, <2>2 DEF Answer
    <3>2. seeker'.data = seeker.data
      BY <3>1 DEF Profile
    <3>3. CASE Done(c)
      BY <1>a, <1>w, <2>0, <3>2, <3>3 DEF Undecided, Done
    <3>4. CASE GotoWith(c, "finish", seeker')
      <4>. DEFINE b == [a EXCEPT !.at = "finish", !.row = seeker']
      <4>1. work' = [work EXCEPT ![c] = b]
        BY <1>w, <3>4 DEF GotoWith
      <4>2. b.at = "finish" /\ b.row = seeker'
        BY <1>t DEF Activity
      <4>. HIDE DEF b
      <4>. QED
        BY <1>a, <1>w, <2>0, <3>2, <4>1, <4>2 DEF Undecided
    <3>. QED
      BY <3>1, <3>3, <3>4
  <2>. QED
    BY <2>1, <2>2
<1>5. CASE Confirm(c)
  <2>. DEFINE d == [seeker.data EXCEPT !.reuploadPending = FALSE]
              b == [a EXCEPT !.at = "fill", !.review = a.row.data.parseReview]
  <2>1. /\ a.at = "review" /\ UNCHANGED shown /\ work' = [work EXCEPT ![c] = b]
        /\ seeker' = [seeker EXCEPT !.data = d] \/ seeker' = seeker
    BY <1>5, <1>w DEF Confirm, Writes, At, Merge, OnlySeeker
  <2>2. d.jobSession = seeker.data.jobSession /\ d.session = seeker.data.session
    BY KeysApart
  <2>3. b.at = "fill" /\ b.row = a.row
    BY <1>t DEF Activity
  <2>. HIDE DEF b, d
  <2>. QED
    BY <1>a, <1>w, <2>1, <2>2, <2>3 DEF Undecided
<1>6. CASE Apply(c)
  <2>1. a.at \in {"apply", "dismiss"} /\ UNCHANGED <<seeker, shown>>
    BY <1>6, <1>w DEF Apply, Writes, At, Nothing, OnlySeeker
  <2>2. Done(c) \/ \E j : work' = [work EXCEPT ![c] = [a EXCEPT !.at = "learn", !.list = <<j>>]]
    BY <1>6, <1>w DEF Apply
  <2>3. CASE Done(c)
    BY <1>a, <1>w, <2>1, <2>3 DEF Undecided, Done
  <2>4. ASSUME NEW j, work' = [work EXCEPT ![c] = [a EXCEPT !.at = "learn", !.list = <<j>>]]
        PROVE  Undecided(c)
    <3>. DEFINE b == [a EXCEPT !.at = "learn", !.list = <<j>>]
    <3>1. b.at = "learn" /\ b.row = a.row /\ work' = [work EXCEPT ![c] = b]
      BY <1>t, <2>4 DEF Activity
    <3>. HIDE DEF b
    <3>. QED
      BY <1>a, <1>w, <2>1, <3>1 DEF Undecided
  <2>. QED
    BY <2>2, <2>3, <2>4
<1>7. CASE EvaluateAnswer(c)
  <2>. DEFINE b == [a EXCEPT !.at = "score", !.n = seeker.data.session.answers + 1]
  <2>1. /\ a.at = "session" /\ work' = [work EXCEPT ![c] = b]
        /\ UNCHANGED <<seeker, shown>>
    BY <1>7, <1>w DEF EvaluateAnswer, Writes, At, Nothing, OnlySeeker
  <2>2. b.at = "score" /\ b.row = a.row
    BY <1>t DEF Activity
  <2>. HIDE DEF b
  <2>. QED
    BY <1>a, <1>w, <2>1, <2>2 DEF Undecided
<1>8. CASE SaveAnswer(c)
  <2>. DEFINE d == [seeker.data EXCEPT !.session = [stage |-> "active", answers |-> a.n]]
              b == [a EXCEPT !.at = "record"]
  <2>1. /\ UNCHANGED shown /\ seeker' = [seeker EXCEPT !.data = d]
        /\ work' = [work EXCEPT ![c] = b] \/ Done(c)
    BY <1>8, <1>w DEF SaveAnswer, Merge, Goto, OnlySeeker
  <2>2. d.jobSession = seeker.data.jobSession
    BY KeysApart
  <2>3. b.at = "record"
    BY <1>t DEF Activity
  <2>. HIDE DEF b, d
  <2>. QED
    BY <1>a, <1>w, <2>1, <2>2, <2>3 DEF Undecided, Done
<1>. QED
  BY <1>1, <1>2, <1>3, <1>4, <1>5, <1>6, <1>7, <1>8

(* What a chat shares with tasks, up to the list.                            *)
LEMMA ChatShares ==
  ASSUME WellFormed, NEW c \in Chats, Agrees(work[c], seeker.data, shown),
         Fill(c) \/ Advance(c) \/ Finish(c) \/ Match(c) \/ Learn(c) \/ Throw(c)
  PROVE  Undecided(c)
<1>. DEFINE a == work[c]
<1>. /\ seeker \in Profile /\ seeker.data \in Data
     /\ \A s : [seeker EXCEPT !.step = s].data = seeker.data
     /\ \A d : [seeker EXCEPT !.data = d].data = d
  BY Typed, RowApart
<1>w. /\ c \in Workers /\ a = work[c] /\ c \notin Tasks
      /\ \A x : work' = [work EXCEPT ![c] = x] => work'[c] = x
  BY CareerConstants DEF WellFormed, TypeOK, Workers
<1>a. a # Idle /\ a.at # "present"
  BY DEF Fill, Advance, Finish, Match, Learn, Throw, Writes, At
<1>t. a \in Activity
  BY <1>a, <1>w, Typed
<1>c. Current(a, seeker.data)
  BY <1>a DEF Agrees
<1>. HIDE DEF a
<1>1. CASE Fill(c)
  <2>1. PICK p \in {"match", "advance"} : GotoWith(c, p, seeker')
    BY <1>1 DEF Fill
  <2>. DEFINE b == [a EXCEPT !.at = p, !.row = seeker']
              f == Filled(seeker, a.review)
              d == [seeker.data EXCEPT !.parseReview = NoReview]
  <2>0. UNCHANGED shown
    BY <1>1 DEF Fill, OnlySeeker
  <2>2. work' = [work EXCEPT ![c] = b]
    BY <1>w, <2>1 DEF GotoWith
  <2>3. b.at = p /\ b.row = seeker'
    BY <1>t DEF Activity
  <2>4. f \in Profile /\ f.data = seeker.data
    BY <1>t, FilledTyped DEF Activity
  <2>5. d.jobSession = seeker.data.jobSession
    BY KeysApart
  <2>6. \/ seeker' = [f EXCEPT !.isComplete = TRUE, !.step = "complete",
                               !.data.parseReview = NoReview]
        \/ seeker' = [f EXCEPT !.data.parseReview = NoReview]
        \/ seeker' = f
    BY <1>1, <1>w DEF Fill
  <2>7. seeker'.data = [f.data EXCEPT !.parseReview = NoReview] \/ seeker'.data = f.data
    <3>. HIDE DEF f
    <3>. QED
      BY <2>4, <2>6 DEF Profile
  <2>8. seeker'.data.jobSession = seeker.data.jobSession
    BY <2>4, <2>5, <2>7
  <2>. HIDE DEF b, d, f
  <2>. QED
    BY <1>a, <1>w, <2>0, <2>2, <2>3, <2>8 DEF Undecided
<1>2. CASE Advance(c)
  <2>1. /\ \E s : seeker' = [seeker EXCEPT !.step = s]
        /\ UNCHANGED shown
        /\ Done(c) \/ GotoWith(c, "finish", seeker')
    BY <1>2 DEF Advance, OnlySeeker
  <2>2. seeker'.data = seeker.data
    BY <2>1
  <2>3. CASE Done(c)
    BY <1>a, <1>w, <2>1, <2>2, <2>3 DEF Undecided, Done
  <2>4. CASE GotoWith(c, "finish", seeker')
    <3>. DEFINE b == [a EXCEPT !.at = "finish", !.row = seeker']
    <3>1. work' = [work EXCEPT ![c] = b]
      BY <1>w, <2>4 DEF GotoWith
    <3>2. b.at = "finish" /\ b.row = seeker'
      BY <1>t DEF Activity
    <3>. HIDE DEF b
    <3>. QED
      BY <1>a, <1>w, <2>1, <2>2, <3>1, <3>2 DEF Undecided
  <2>. QED
    BY <2>1, <2>3, <2>4
<1>3. CASE Finish(c)
  <2>. DEFINE b == [a EXCEPT !.at = "match"]
  <2>1. /\ a.at = "finish" /\ work' = [work EXCEPT ![c] = b] /\ UNCHANGED shown
        /\ seeker' = [seeker EXCEPT !.isComplete = TRUE, !.step = "complete"]
    BY <1>3, <1>w DEF Finish, Writes, At, Goto, OnlySeeker
  <2>2. seeker'.data = seeker.data
    BY <2>1 DEF Profile
  <2>3. b.at = "match" /\ b.row = a.row
    BY <1>t DEF Activity
  <2>. HIDE DEF b
  <2>. QED
    BY <1>a, <1>w, <2>1, <2>2, <2>3 DEF Undecided
<1>4. CASE Match(c)
  <2>1. /\ a.at \in {"match", "find", "rematch"} /\ UNCHANGED <<seeker, shown>>
    BY <1>4, <1>w DEF Match, Writes, At
  <2>2. Done(c) \/ \E l : work' = [work EXCEPT ![c] = [a EXCEPT !.at = "list", !.list = l]]
    BY <1>4, <1>w DEF Match
  <2>3. CASE Done(c)
    BY <1>a, <1>w, <2>1, <2>3 DEF Undecided, Done
  <2>4. ASSUME NEW l, work' = [work EXCEPT ![c] = [a EXCEPT !.at = "list", !.list = l]]
        PROVE  Undecided(c)
    <3>. DEFINE b == [a EXCEPT !.at = "list", !.list = l]
    <3>1. b.at = "list" /\ b.row = a.row /\ work' = [work EXCEPT ![c] = b]
      BY <1>t, <2>4 DEF Activity
    <3>. HIDE DEF b
    <3>. QED
      BY <1>a, <1>w, <2>1, <3>1 DEF Undecided
  <2>. QED
    BY <2>2, <2>3, <2>4
<1>5. CASE Learn(c)
  <2>. DEFINE b == [a EXCEPT !.at = "rematch"]
  <2>1. /\ a.at \in {"learn", "guidance"} /\ UNCHANGED shown
        /\ seeker' = [seeker EXCEPT !.data = a.row.data]
        /\ work' = [work EXCEPT ![c] = b] \/ Done(c)
    BY <1>5, <1>w DEF Learn, Writes, At, WriteBack, Goto, OnlySeeker
  <2>2. /\ a.row.data.session = seeker.data.session
        /\ a.row.data.jobSession = seeker.data.jobSession
    BY <1>c, <2>1 DEF Current
  <2>3. seeker'.data = a.row.data
    BY <2>1
  <2>4. b.at = "rematch" /\ b.row = a.row
    BY <1>t DEF Activity
  <2>. HIDE DEF b
  <2>. QED
    BY <1>a, <1>w, <2>1, <2>2, <2>3, <2>4 DEF Undecided, Done
<1>6. CASE Throw(c)
  BY <1>6, <1>a, <1>w DEF Throw, Fail, Done, Nothing, OnlySeeker, Undecided
<1>. QED
  BY <1>1, <1>2, <1>3, <1>4, <1>5, <1>6

(* The list is saved, and then it reaches the phone.                         *)
LEMMA ListAgrees ==
  ASSUME WellFormed, NEW c \in Chats, Agrees(work[c], seeker.data, shown),
         SaveJobSession(c) \/ PresentTopJobs(c)
  PROVE  Agrees(work'[c], seeker'.data, shown')
<1>. DEFINE a == work[c]
<1>. /\ seeker \in Profile /\ seeker.data \in Data
     /\ \A d : [seeker EXCEPT !.data = d].data = d
  BY Typed, RowApart
<1>w. /\ c \in Workers /\ a = work[c]
      /\ \A x : work' = [work EXCEPT ![c] = x] => work'[c] = x
  BY DEF WellFormed, TypeOK, Workers
<1>a. a # Idle
  BY DEF SaveJobSession, PresentTopJobs, Writes, At
<1>t. a \in Activity /\ a.row.data \in Data
  BY <1>a, <1>w, Typed DEF Profile
<1>. HIDE DEF a
<1>1. CASE SaveJobSession(c)
  <2>. DEFINE b == [a EXCEPT !.at = "present"]
              d == Listed(a.row.data, a.list)
  <2>1. work' = [work EXCEPT ![c] = b] /\ seeker' = [seeker EXCEPT !.data = d]
    BY <1>1, <1>w DEF SaveJobSession, WriteBack, Goto
  <2>2. b.at = "present" /\ b.list = a.list /\ b # Idle
    <3>1. b \in Activity
      BY <1>t, Parts DEF Places, ChatSteps, FillSteps
    <3>. QED
      BY <1>t, <3>1, CareerConstants DEF Activity
  <2>3. d.jobSession = a.list
    BY <1>t, KeysApart
  <2>. HIDE DEF b, d
  <2>4. work'[c] = b /\ seeker'.data = d
    BY <1>w, <2>1
  <2>. QED
    BY <2>2, <2>3, <2>4 DEF Agrees, Current, OnPhone
<1>2. CASE PresentTopJobs(c)
  <2>1. a.at = "present" /\ work'[c] = Idle /\ seeker' = seeker
    BY <1>2, <1>w DEF PresentTopJobs, At, Done
  <2>2. Reliable => shown' = a.list
    BY <1>2, <1>w DEF PresentTopJobs, Trouble, Reliable
  <2>3. Reliable => a.list = seeker.data.jobSession
    BY <1>w, <1>a, <2>1 DEF Agrees, OnPhone
  <2>. QED
    BY <2>1, <2>2, <2>3 DEF Agrees, OnPhone
<1>. QED
  BY <1>1, <1>2

(* A new start, or none: neither list is left.                               *)
LEMMA ResetAgrees ==
  ASSUME WellFormed, NEW c \in Chats, Agrees(work[c], seeker.data, shown), Reset(c) \/ Delete(c)
  PROVE  Agrees(work'[c], seeker'.data, shown')
<1>. DEFINE a == work[c]
<1>. seeker \in Profile /\ \A s : [seeker EXCEPT !.step = s].data = seeker.data
  BY Typed, RowApart
<1>w. /\ c \in Workers /\ a = work[c]
      /\ \A x : work' = [work EXCEPT ![c] = x] => work'[c] = x
  BY DEF WellFormed, TypeOK, Workers
<1>a. a # Idle
  BY DEF Reset, Delete, Writes, At
<1>t. a \in Activity
  BY <1>a, <1>w, Typed
<1>n. NoData.jobSession = <<>>
  BY DEF NoData
<1>. HIDE DEF a
<1>1. CASE Delete(c)
  <2>1. work'[c] = Idle /\ shown' = <<>> /\ seeker'.data = NoData
    BY <1>1, <1>w DEF Delete, Done, NoProfile, NewProfile
  <2>. QED
    BY <1>n, <2>1 DEF Agrees, OnPhone
<1>2. CASE Reset(c) /\ Writes(c, "reset")
  <2>. DEFINE b == [a EXCEPT !.at = "restart"]
  <2>1. /\ work' = [work EXCEPT ![c] = b] /\ shown' = <<>>
        /\ seeker' = [seeker EXCEPT !.step = "welcome", !.isComplete = FALSE,
                        !.answered = {}, !.data = NoData]
    BY <1>2, <1>w DEF Reset, Writes, At, Goto
  <2>2. seeker'.data = NoData
    BY <2>1 DEF Profile
  <2>3. b.at = "restart"
    BY <1>t DEF Activity
  <2>. HIDE DEF b
  <2>4. work'[c] = b
    BY <1>w, <2>1
  <2>. QED
    BY <1>n, <2>1, <2>2, <2>3, <2>4 DEF Agrees, Current, OnPhone
<1>3. CASE Reset(c) /\ Writes(c, "restart")
  <2>1. /\ a.at = "restart" /\ work'[c] = Idle /\ shown' = <<>>
        /\ seeker' = [seeker EXCEPT !.step = "awaiting_resume"]
    BY <1>3, <1>w DEF Reset, Writes, At, Done
  <2>2. seeker'.data = seeker.data
    BY <2>1
  <2>3. Reliable => seeker.data.jobSession = <<>>
    BY <1>w, <1>a, <2>1 DEF Agrees, OnPhone
  <2>. QED
    BY <2>1, <2>2, <2>3 DEF Agrees, OnPhone
<1>. QED
  BY <1>1, <1>2, <1>3 DEF Reset

LEMMA HearAgrees ==
  ASSUME WellFormed, Conversed, NEW c \in Chats, NEW word \in Words, NEW n \in 1 .. 2,
         Hear(c, word, n), Agrees(work[c], seeker.data, shown)
  PROVE  Agrees(work'[c], seeker'.data, shown')
<1>. DEFINE m == IF n <= Len(shown) THEN {shown[n]} ELSE {}
            t == Starting(Route(seeker', word), word, seeker')
            b == [t EXCEPT !.n = n, !.meant = m]
<1>0. c \in Workers /\ work \in [Workers -> Activity \cup {Idle}]
  BY DEF WellFormed, TypeOK, Workers
<1>1. work[c] = Idle /\ shown' = shown /\ work' = [work EXCEPT ![c] = b]
  BY DEF Hear
<1>2. /\ b.at = Route(seeker', word) /\ b.row = seeker' /\ b.n = n /\ b.meant = m
  BY DEF Starting
<1>3. b.at \notin {"restart", "present"}
  BY <1>2, Routed
<1>4. seeker'.data.jobSession = seeker.data.jobSession
  <2>1. CASE Has(seeker)
    BY <2>1 DEF Hear
  <2>2. CASE ~Has(seeker)
    BY <2>2 DEF Hear, NewProfile, NoData, Conversed
  <2>. QED
    BY <2>1, <2>2
<1>5. Reliable => shown = seeker'.data.jobSession
  BY <1>1, <1>4 DEF Agrees, OnPhone
<1>. HIDE DEF b
<1>6. work'[c] = b
  BY <1>0, <1>1
<1>7. Current(b, seeker'.data)
  BY <1>2 DEF Current
<1>8. Reliable => OnPhone(b, seeker'.data, shown')
  BY <1>1, <1>2, <1>3, <1>5 DEF OnPhone
<1>. QED
  BY <1>6, <1>7, <1>8 DEF Agrees

LEMMA CrashAgrees ==
  ASSUME WellFormed, NEW c \in Chats, Agrees(work[c], seeker.data, shown), Crash(c)
  PROVE  Agrees(work'[c], seeker'.data, shown')
<1>1. c \in Workers /\ c \notin Tasks /\ work \in [Workers -> Activity \cup {Idle}]
  BY CareerConstants DEF WellFormed, TypeOK, Workers
<1>2. work'[c] = Idle /\ ~Reliable
  BY <1>1 DEF Crash, Fail, Trouble, Reliable
<1>. QED
  BY <1>2 DEF Agrees

(* With one chat, no alerts and no letters, nothing else saves a list.       *)
LEMMA TasksLeave ==
  ASSUME WellFormed, Undisturbed, NEW t \in Tasks, Prepare(t) \/ Share(t) \/ Crash(t)
  PROVE  /\ seeker'.data.session = seeker.data.session
         /\ seeker'.data.jobSession = seeker.data.jobSession
         /\ shown' = shown
<1>. DEFINE a == work[t]
<1>. /\ seeker \in Profile /\ seeker.data \in Data
     /\ \A s : [seeker EXCEPT !.step = s].data = seeker.data
     /\ \A d : [seeker EXCEPT !.data = d].data = d
  BY Typed, RowApart
<1>0. a = work[t] /\ t \in Workers
  BY DEF Workers
<1>. HIDE DEF a
<1>1. CASE Load(t) \/ ReadFile(t) \/ CreateResume(t) \/ WriteLetter(t) \/ Throw(t) \/ Crash(t)
  BY <1>1 DEF Load, ReadFile, CreateResume, WriteLetter, Throw, Crash, Nothing, OnlySeeker
<1>2. CASE Adopt(t)
  <2>1. seeker' = [seeker EXCEPT !.step = IF Update(t) THEN seeker.step ELSE "parsing_resume"]
        /\ UNCHANGED shown
    BY <1>2 DEF Adopt, OnlySeeker
  <2>2. seeker'.data = seeker.data
    BY <2>1 DEF Profile
  <2>. QED
    BY <2>1, <2>2
<1>3. CASE Parse(t)
  <2>1. /\ UNCHANGED shown
        /\ \E r : seeker' = [seeker EXCEPT !.step = "parse_review", !.data.parseReview = r]
    BY <1>3 DEF Parse, OnlySeeker, Undisturbed
  <2>2. PICK r : seeker' = [seeker EXCEPT !.step = "parse_review", !.data.parseReview = r]
    BY <2>1
  <2>. DEFINE d == [seeker.data EXCEPT !.parseReview = r]
  <2>3. seeker'.data = d
    BY <2>2 DEF Profile
  <2>4. d.jobSession = seeker.data.jobSession /\ d.session = seeker.data.session
    BY KeysApart
  <2>. HIDE DEF d
  <2>. QED
    BY <2>1, <2>3, <2>4
<1>4. CASE ParseFailed(t)
  <2>. DEFINE d == [seeker.data EXCEPT !.reuploadPending = FALSE]
  <2>1. /\ UNCHANGED shown
        /\ \/ seeker' = [seeker EXCEPT !.data = d]
           \/ seeker' = [seeker EXCEPT !.step = Questions[1]]
    BY <1>4 DEF ParseFailed, Merge, OnlySeeker
  <2>2. d.jobSession = seeker.data.jobSession /\ d.session = seeker.data.session
    BY KeysApart
  <2>. HIDE DEF d
  <2>. QED
    BY <2>1, <2>2
<1>5. CASE Fill(t) \/ Advance(t) \/ Finish(t) \/ Match(t) \/ SaveJobSession(t)
           \/ PresentTopJobs(t) \/ Learn(t)
  <2>1. a # Idle /\ a.at \in FillSteps \cup {"find", "rematch", "learn", "guidance"}
    BY <1>0, <1>5 DEF Fill, Advance, Finish, Match, SaveJobSession, PresentTopJobs, Learn,
                      Writes, At, FillSteps
  <2>2. May(t, a)
    BY <1>0, <2>1, Typed
  <2>. QED
    BY <2>1, <2>2 DEF May, Undisturbed, FillSteps, ReadSteps
<1>. QED
  BY <1>1, <1>2, <1>3, <1>4, <1>5 DEF Prepare, Share

(* No alerts and digests run.                                                *)
LEMMA NoSenders ==
  ASSUME WellFormed, Undisturbed, NEW s \in Senders
  PROVE  /\ work[s] = Idle
         /\ ~(BeginAlert(s) \/ BeginDigest(s) \/ SendAlert(s) \/ SaveAlert(s))
         /\ ~(Share(s) \/ Crash(s))
<1>1. work[s] = Idle
  BY Typed DEF May, Undisturbed, Workers
<1>2. ~(BeginAlert(s) \/ BeginDigest(s) \/ SendAlert(s) \/ SaveAlert(s))
  BY <1>1 DEF Undisturbed, BeginAlert, BeginDigest, BeginSending, SendAlert, SaveAlert, Writes, At
<1>3. ~(Share(s) \/ Crash(s))
  BY <1>1 DEF Share, Fill, Advance, Finish, Match, SaveJobSession, PresentTopJobs, Learn, Throw,
              Crash, Writes, At
<1>. QED
  BY <1>1, <1>2, <1>3

(* Only the chat of the seeker moves.                                        *)
LEMMA ChatActs ==
  ASSUME WellFormed, NEW c \in Chats,
         \/ Converse(c) \/ Share(c) \/ Crash(c)
         \/ \E word \in Words, n \in 1 .. 2 : Hear(c, word, n)
  PROVE  c \in setting.chats
<1>1. CASE \E word \in Words, n \in 1 .. 2 : Hear(c, word, n)
  BY <1>1 DEF Hear
<1>2. CASE Converse(c)
  BY <1>2, Typed DEF Converse, SetOptOut, Reset, Delete, Upload, AskForLetter, AskAgain, MoveOn,
    ReviewAnyway, SkipAnswered, Answer, ReviewExpired, ReviewHelp, Confirm, Apply, AwaitResume,
    Help, StartInterview, BeginSession, EvaluateAnswer, SaveAnswer, FinishSession, CancelSession,
    PromptSession, Writes, At, May, Workers
<1>3. CASE Share(c) \/ Crash(c)
  BY <1>3, Typed DEF Share, Fill, Advance, Finish, Match, SaveJobSession, PresentTopJobs, Learn,
    Throw, Crash, Writes, At, May, Workers
<1>. QED
  BY <1>1, <1>2, <1>3

(* Without a profile nothing is written but a new one.                       *)
LEMMA Absent ==
  ASSUME WellFormed, [Next]_vars, ~Has(seeker)
  PROVE  seeker' = seeker \/ seeker' = NewProfile(created + 1)
<1>0. \A w, p : ~Writes(w, p)
  BY DEF Writes, SameRow, Has
<1>1. CASE UNCHANGED vars
  BY <1>1 DEF vars
<1>2. ASSUME NEW c \in Chats, Converse(c)
      PROVE  seeker' = seeker
  BY <1>0, <1>2 DEF Converse, SetOptOut, Reset, Delete, Upload, AskForLetter, AskAgain, MoveOn,
    ReviewAnyway, SkipAnswered, Answer, ReviewExpired, ReviewHelp, Confirm, Apply, AwaitResume,
    Help, StartInterview, BeginSession, EvaluateAnswer, SaveAnswer, FinishSession, CancelSession,
    PromptSession, Nothing
<1>3. ASSUME NEW c \in Chats, NEW word \in Words, NEW n \in 1 .. 2, Hear(c, word, n)
      PROVE  seeker' = NewProfile(created + 1)
  BY <1>3 DEF Hear
<1>4. ASSUME NEW t \in Tasks, Prepare(t)
      PROVE  seeker' = seeker
  BY <1>0, <1>4 DEF Prepare, Load, ReadFile, CreateResume, Adopt, Parse, ParseFailed, WriteLetter,
    Nothing
<1>5. ASSUME NEW s \in Senders, BeginAlert(s) \/ BeginDigest(s) \/ SendAlert(s) \/ SaveAlert(s)
      PROVE  seeker' = seeker
  BY <1>0, <1>5 DEF BeginAlert, BeginDigest, BeginSending, SendAlert, SaveAlert
<1>6. ASSUME NEW w \in Workers, Share(w) \/ Crash(w)
      PROVE  seeker' = seeker
  BY <1>0, <1>6 DEF Share, Fill, Advance, Finish, Match, SaveJobSession, PresentTopJobs, Learn,
    Throw, Crash, Nothing
<1>. QED
  BY <1>1, <1>2, <1>3, <1>4, <1>5, <1>6 DEF Next

LEMMA ConversedStep ==
  ASSUME WellFormed, Conversed, [Next]_vars
  PROVE  Conversed'
<1>0. setting' = setting
  BY Numbers
<1>1. ~Has(seeker)' => seeker'.data.jobSession = <<>>
  <2>1. SUFFICES ASSUME seeker'.id = 0
                 PROVE  seeker'.data.jobSession = <<>>
    BY DEF Has
  <2>2. NoProfile.data.jobSession = <<>> /\ NewProfile(created + 1).data.jobSession = <<>>
    BY DEF NoProfile, NewProfile, NoData
  <2>3. CASE ~Has(seeker)
    BY <2>2, <2>3, Absent DEF Conversed
  <2>4. CASE Has(seeker)
    BY <2>1, <2>2, <2>4, Numbers, Typed DEF Has
  <2>. QED
    BY <2>3, <2>4
<1>2. ASSUME Undisturbed, NEW c \in setting.chats
      PROVE  Agrees(work'[c], seeker'.data, shown')
  <2>0. Agrees(work[c], seeker.data, shown) /\ c \in Chats /\ c \in Workers /\ OneChat
    BY <1>2, Typed DEF Conversed, Undisturbed, Setting, Workers
  <2>1. CASE UNCHANGED vars
    BY <2>0, <2>1 DEF vars
  <2>2. ASSUME NEW d \in Chats, Converse(d)
        PROVE  Agrees(work'[c], seeker'.data, shown')
    <3>1. d = c
      BY <1>2, <2>0, <2>2, ChatActs, TheChat
    <3>2. CASE Reset(c) \/ Delete(c)
      BY <2>0, <3>2, ResetAgrees
    <3>3. CASE \/ Upload(c) \/ AskForLetter(c) \/ ReviewAnyway(c) \/ SkipAnswered(c) \/ Answer(c)
               \/ Confirm(c) \/ Apply(c) \/ EvaluateAnswer(c) \/ SaveAnswer(c)
      BY <2>0, <3>3, ChatTurns, UndecidedAgrees
    <3>4. CASE \/ SetOptOut(c) \/ AskAgain(c) \/ MoveOn(c) \/ ReviewExpired(c)
               \/ ReviewHelp(c) \/ AwaitResume(c) \/ Help(c) \/ StartInterview(c)
               \/ BeginSession(c) \/ FinishSession(c) \/ CancelSession(c) \/ PromptSession(c)
      <4>1. /\ Done(c) /\ work[c].at # "present" /\ shown' = shown
            /\ seeker'.data.jobSession = seeker.data.jobSession
        BY <2>0, <3>4, ChatRests
      <4>2. work'[c] = Idle
        BY <2>0, <4>1 DEF Done, WellFormed, TypeOK
      <4>. QED
        BY <2>0, <4>1, <4>2, IdleAgrees
    <3>. QED
      BY <2>2, <3>1, <3>2, <3>3, <3>4 DEF Converse
  <2>3. ASSUME NEW d \in Chats, NEW word \in Words, NEW n \in 1 .. 2, Hear(d, word, n)
        PROVE  Agrees(work'[c], seeker'.data, shown')
    <3>1. d = c
      BY <1>2, <2>0, <2>3, ChatActs, TheChat
    <3>. QED
      BY <2>0, <2>3, <3>1, HearAgrees
  <2>4. ASSUME NEW t \in Tasks, Prepare(t) \/ Share(t) \/ Crash(t)
        PROVE  Agrees(work'[c], seeker'.data, shown')
    <3>1. t \in Workers /\ c # t
      BY <2>0, CareerConstants DEF Workers
    <3>2. work'[c] = work[c]
      BY <2>0, <2>4, <3>1, OthersMove
    <3>3. /\ seeker'.data.session = seeker.data.session
          /\ seeker'.data.jobSession = seeker.data.jobSession
          /\ shown' = shown
      BY <1>2, <2>4, TasksLeave
    <3>. QED
      BY <2>0, <3>2, <3>3 DEF Agrees, Current, OnPhone
  <2>5. ASSUME NEW d \in Chats, Share(d) \/ Crash(d)
        PROVE  Agrees(work'[c], seeker'.data, shown')
    <3>1. d = c
      BY <1>2, <2>0, <2>5, ChatActs, TheChat
    <3>2. CASE SaveJobSession(c) \/ PresentTopJobs(c)
      BY <2>0, <3>2, ListAgrees
    <3>3. CASE Fill(c) \/ Advance(c) \/ Finish(c) \/ Match(c) \/ Learn(c) \/ Throw(c)
      BY <2>0, <3>3, ChatShares, UndecidedAgrees
    <3>4. CASE Crash(c)
      BY <2>0, <3>4, CrashAgrees
    <3>. QED
      BY <2>5, <3>1, <3>2, <3>3, <3>4 DEF Share
  <2>6. ASSUME NEW s \in Senders
        PROVE  /\ ~(BeginAlert(s) \/ BeginDigest(s) \/ SendAlert(s) \/ SaveAlert(s))
               /\ ~(Share(s) \/ Crash(s))
    BY <1>2, NoSenders
  <2>. QED
    BY <2>1, <2>2, <2>3, <2>4, <2>5, <2>6 DEF Next, Workers
<1>3. Undisturbed' = Undisturbed
  BY <1>0 DEF Undisturbed, OneChat
<1>. QED
  BY <1>0, <1>1, <1>2, <1>3, AgreesAlways DEF Conversed, Has

LEMMA ConversedInitially ==
  ASSUME Init
  PROVE  Conversed
<1>1. seeker.data.jobSession = <<>> /\ shown = <<>>
  <2>1. Joined.data.jobSession = <<>> /\ NoProfile.data.jobSession = <<>>
    BY DEF Joined, NewProfile, NoProfile, NoData
  <2>. QED
    BY <2>1 DEF Init
<1>2. \A c \in setting.chats : work[c] = Idle
  BY CareerConstants DEF Init, Workers, Setting
<1>. QED
  BY <1>1, <1>2 DEF Conversed, Agrees, OnPhone

(* Where an interview can go.                                                *)
LEMMA InterviewStep ==
  ASSUME WellFormed, Conversed, Undisturbed, [Next]_vars,
         seeker.data.session.answers > 0, seeker'.data.session = NoSession
  PROVE  \/ seeker'.data.history > seeker.data.history
         \/ seeker.data.history = MaxInterviews
         \/ ~seeker'.isComplete
<1>. /\ seeker \in Profile /\ seeker.data \in Data
     /\ \A s : [seeker EXCEPT !.step = s].data = seeker.data
     /\ \A d : [seeker EXCEPT !.data = d].data = d
     /\ \A b : [seeker EXCEPT !.digestOptOut = b].data = seeker.data
  BY Typed, RowApart
<1>n. NoSession.answers = 0 /\ NoSession.stage = "none"
  BY DEF NoSession
<1>0. seeker'.data.session # seeker.data.session
  BY <1>n
<1>1. ~UNCHANGED vars
  BY <1>0 DEF vars
<1>2. ASSUME NEW c \in Chats, Converse(c)
      PROVE  \/ seeker'.data.history > seeker.data.history
             \/ seeker.data.history = MaxInterviews
             \/ ~seeker'.isComplete
  <2>0. Agrees(work[c], seeker.data, shown)
    BY <1>2, ChatActs DEF Conversed
  <2>1. CASE FinishSession(c)
    <3>. DEFINE n == IF seeker.data.history < MaxInterviews THEN seeker.data.history + 1
                     ELSE seeker.data.history
                d == [seeker.data EXCEPT !.session = NoSession, !.history = n]
    <3>1. seeker' = [seeker EXCEPT !.data = d]
      BY <2>1 DEF FinishSession
    <3>2. d.history = n
      BY KeysApart
    <3>3. seeker.data.history \in 0 .. MaxInterviews
      BY DEF Data
    <3>. HIDE DEF d
    <3>4. seeker'.data.history = n
      BY <3>1, <3>2
    <3>. QED
      BY <3>3, <3>4, CareerConstants
  <2>2. CASE Delete(c)
    BY <2>2 DEF Delete, NoProfile, NewProfile
  <2>3. CASE Reset(c)
    <3>1. CASE Writes(c, "reset")
      <4>1. seeker' = [seeker EXCEPT !.step = "welcome", !.isComplete = FALSE,
                         !.answered = {}, !.data = NoData]
        BY <2>3, <3>1 DEF Reset, Writes, At
      <4>. QED
        BY <4>1 DEF Profile
    <3>2. CASE Writes(c, "restart")
      BY <1>0, <2>3, <3>2 DEF Reset, Writes, At
    <3>. QED
      BY <2>3, <3>1, <3>2 DEF Reset
  <2>4. CASE BeginSession(c) \/ StartInterview(c) \/ SaveAnswer(c)
    <3>1. \/ \E s : s.stage # "none" /\ seeker' = [seeker EXCEPT !.data =
                                              [seeker.data EXCEPT !.session = s]]
          \/ seeker' = seeker
      <4>1. \A k, s : s = [stage |-> k, answers |-> s.answers] => s.stage = k
        OBVIOUS
      <4>. QED
        BY <2>4 DEF BeginSession, StartInterview, SaveAnswer, Merge
    <3>2. ASSUME NEW s, s.stage # "none",
                 seeker' = [seeker EXCEPT !.data = [seeker.data EXCEPT !.session = s]]
          PROVE  FALSE
      <4>. DEFINE d == [seeker.data EXCEPT !.session = s]
      <4>1. seeker' = [seeker EXCEPT !.data = d] /\ d.session = s
        BY <3>2, KeysApart
      <4>. HIDE DEF d
      <4>. QED
        BY <1>n, <3>2, <4>1
    <3>. QED
      BY <1>0, <3>1, <3>2
  <2>5. CASE CancelSession(c)
    BY <2>5 DEF CancelSession
  <2>6. CASE \/ SetOptOut(c) \/ AskAgain(c) \/ MoveOn(c) \/ ReviewExpired(c) \/ ReviewHelp(c)
             \/ Help(c) \/ PromptSession(c) \/ Upload(c) \/ AskForLetter(c) \/ ReviewAnyway(c)
             \/ SkipAnswered(c) \/ Apply(c) \/ EvaluateAnswer(c)
    <3>1. \/ \E s : seeker' = [seeker EXCEPT !.step = s]
          \/ \E b : seeker' = [seeker EXCEPT !.digestOptOut = b]
          \/ seeker' = seeker
      <4>1. CASE SetOptOut(c) \/ MoveOn(c) \/ ReviewExpired(c)
        BY <4>1 DEF SetOptOut, MoveOn, ReviewExpired
      <4>2. CASE SkipAnswered(c)
        BY <4>2 DEF SkipAnswered
      <4>3. CASE \/ AskAgain(c) \/ ReviewHelp(c) \/ Help(c) \/ PromptSession(c) \/ Upload(c)
                 \/ AskForLetter(c) \/ ReviewAnyway(c) \/ Apply(c) \/ EvaluateAnswer(c)
        BY <4>3 DEF AskAgain, ReviewHelp, Help, PromptSession, Upload, AskForLetter, ReviewAnyway,
          Apply, EvaluateAnswer, Nothing
      <4>. QED
        BY <2>6, <4>1, <4>2, <4>3
    <3>2. ASSUME NEW s, seeker' = [seeker EXCEPT !.step = s]
          PROVE  seeker'.data = seeker.data
      BY <3>2
    <3>3. ASSUME NEW b, seeker' = [seeker EXCEPT !.digestOptOut = b]
          PROVE  seeker'.data = seeker.data
      BY <3>3
    <3>4. seeker'.data = seeker.data
      BY <3>1, <3>2, <3>3
    <3>. QED
      BY <1>0, <3>4
  <2>7. CASE AwaitResume(c) \/ Confirm(c) \/ Answer(c)
    <3>1. \/ \E b : seeker' = [seeker EXCEPT !.data = [seeker.data EXCEPT !.reuploadPending = b]]
          \/ \E b : seeker' = [seeker EXCEPT !.data = [seeker.data EXCEPT !.experience = b]]
          \/ \E s, q : seeker' = [seeker EXCEPT !.step = s, !.answered = q]
          \/ seeker' = seeker
      BY <2>7 DEF AwaitResume, Confirm, Answer, Merge
    <3>2. ASSUME NEW d, d.session = seeker.data.session, seeker' = [seeker EXCEPT !.data = d]
          PROVE  FALSE
      BY <1>0, <3>2
    <3>3. ASSUME NEW s, NEW q, seeker' = [seeker EXCEPT !.step = s, !.answered = q]
          PROVE  FALSE
      BY <1>0, <3>3 DEF Profile
    <3>4. \A b : /\ [seeker.data EXCEPT !.reuploadPending = b].session = seeker.data.session
                 /\ [seeker.data EXCEPT !.experience = b].session = seeker.data.session
      BY KeysApart
    <3>5. ASSUME NEW b,
                 seeker' = [seeker EXCEPT !.data = [seeker.data EXCEPT !.reuploadPending = b]]
          PROVE  FALSE
      BY <3>2, <3>4, <3>5
    <3>6. ASSUME NEW b,
                 seeker' = [seeker EXCEPT !.data = [seeker.data EXCEPT !.experience = b]]
          PROVE  FALSE
      BY <3>2, <3>4, <3>6
    <3>7. seeker' # seeker
      BY <1>0
    <3>. QED
      BY <3>1, <3>3, <3>5, <3>6, <3>7
  <2>. QED
    BY <1>2, <2>1, <2>2, <2>3, <2>4, <2>5, <2>6, <2>7 DEF Converse
<1>3. ASSUME NEW c \in Chats, NEW word \in Words, NEW n \in 1 .. 2, Hear(c, word, n)
      PROVE  ~seeker'.isComplete
  BY <1>0, <1>3 DEF Hear, NewProfile
<1>4. ASSUME NEW t \in Tasks, Prepare(t) \/ Share(t) \/ Crash(t)
      PROVE  FALSE
  BY <1>0, <1>4, TasksLeave
<1>5. ASSUME NEW c \in Chats, Share(c) \/ Crash(c)
      PROVE  FALSE
  <2>0. Agrees(work[c], seeker.data, shown)
    BY <1>5, ChatActs DEF Conversed
  <2>. DEFINE a == work[c]
  <2>w. a = work[c] /\ c \in Workers
    BY DEF Workers
  <2>c. a # Idle => a \in Activity /\ Current(a, seeker.data) /\ a.row.data \in Data
    BY <2>0, <2>w, Typed DEF Agrees, Profile
  <2>. HIDE DEF a
  <2>1. CASE Fill(c)
    <3>. DEFINE f == Filled(seeker, a.review)
                d == [seeker.data EXCEPT !.parseReview = NoReview]
    <3>1. f \in Profile /\ f.data = seeker.data
      BY <2>1, <2>w, <2>c, FilledTyped DEF Activity, Fill, Writes, At
    <3>2. d.session = seeker.data.session
      BY KeysApart
    <3>3. \/ seeker' = [f EXCEPT !.isComplete = TRUE, !.step = "complete",
                                 !.data.parseReview = NoReview]
          \/ seeker' = [f EXCEPT !.data.parseReview = NoReview]
          \/ seeker' = f
      BY <2>1, <2>w DEF Fill
    <3>4. seeker'.data = [f.data EXCEPT !.parseReview = NoReview] \/ seeker'.data = f.data
      <4>. HIDE DEF f
      <4>. QED
        BY <3>1, <3>3 DEF Profile
    <3>. QED
      BY <1>0, <3>1, <3>2, <3>4
  <2>2. CASE Advance(c) \/ Finish(c)
    BY <1>0, <2>2 DEF Advance, Finish, Profile
  <2>3. CASE SaveJobSession(c)
    <3>. DEFINE d == Listed(a.row.data, a.list)
    <3>1. a # Idle /\ a.at = "list" /\ seeker' = [seeker EXCEPT !.data = d]
      BY <2>3, <2>w DEF SaveJobSession, WriteBack, Writes, At
    <3>2. d.session = a.row.data.session
      BY <2>c, <3>1, KeysApart
    <3>. HIDE DEF d
    <3>. QED
      BY <1>0, <2>c, <3>1, <3>2 DEF Current
  <2>4. CASE Learn(c)
    <3>1. /\ a # Idle /\ a.at \in {"learn", "guidance"}
          /\ seeker' = [seeker EXCEPT !.data = a.row.data]
      BY <2>4, <2>w DEF Learn, WriteBack, Writes, At
    <3>. QED
      BY <1>0, <2>c, <3>1 DEF Current
  <2>5. CASE Match(c) \/ PresentTopJobs(c) \/ Throw(c) \/ Crash(c)
    BY <1>0, <2>5 DEF Match, PresentTopJobs, Throw, Crash, Nothing
  <2>. QED
    BY <1>5, <2>1, <2>2, <2>3, <2>4, <2>5 DEF Share
<1>6. ASSUME NEW s \in Senders
      PROVE  /\ ~(BeginAlert(s) \/ BeginDigest(s) \/ SendAlert(s) \/ SaveAlert(s))
             /\ ~(Share(s) \/ Crash(s))
  BY NoSenders
<1>. QED
  BY <1>1, <1>2, <1>3, <1>4, <1>5, <1>6 DEF Next, Workers

(* What becomes of APPLY n and NOT INTERESTED n.                             *)
LEMMA ApplyStep ==
  ASSUME WellFormed, Conversed, Undisturbed, Reliable, [Next]_vars,
         NEW c \in Chats, At(c, "apply") \/ At(c, "dismiss"),
         work'[c] # work[c], work'[c] # Idle
  PROVE  work[c].meant \subseteq RangeOf(work'[c].list)
<1>. DEFINE a == work[c]
<1>0. c \in Workers /\ a # Idle /\ a \in Activity /\ c \in setting.chats /\ c \notin Tasks
      /\ a = work[c] /\ a.at \in {"apply", "dismiss"}
  BY Typed, CareerConstants DEF At, Workers, May
<1>w. \A x : work' = [work EXCEPT ![c] = x] => work'[c] = x
  BY <1>0 DEF WellFormed, TypeOK
<1>. HIDE DEF a
<1>1. ~UNCHANGED vars
  BY DEF vars
<1>2. OnPhone(a, seeker.data, shown)
  BY <1>0 DEF Conversed, Agrees
<1>3. ASSUME NEW d \in Chats, Converse(d)
      PROVE  Apply(c)
  <2>1. d = c
    BY <1>0, <1>3, ChatMoves, CareerConstants
  <2>2. ~Writes(c, "stop") /\ ~Writes(c, "start") /\ ~Writes(c, "reset") /\ ~Writes(c, "restart")
        /\ ~Writes(c, "delete") /\ ~At(c, "upload") /\ ~At(c, "cover") /\ ~At(c, "onboard")
        /\ ~At(c, "skip") /\ ~At(c, "review") /\ ~At(c, "resume") /\ ~At(c, "help")
        /\ ~At(c, "advice") /\ ~At(c, "interview") /\ ~At(c, "session") /\ ~At(c, "score")
        /\ ~At(c, "record")
    BY <1>0 DEF Writes, At
  <2>. QED
    BY <1>3, <2>1, <2>2 DEF Converse, SetOptOut, Reset, Delete, Upload, AskForLetter, AskAgain,
      MoveOn, ReviewAnyway, SkipAnswered, Answer, ReviewExpired, ReviewHelp, Confirm, AwaitResume,
      Help, StartInterview, BeginSession, EvaluateAnswer, SaveAnswer, FinishSession, CancelSession,
      PromptSession, Writes
<1>4. ASSUME NEW d \in Chats, NEW word \in Words, NEW n \in 1 .. 2, Hear(d, word, n)
      PROVE  FALSE
  <2>1. d # c
    BY <1>0, <1>4 DEF Hear
  <2>. QED
    BY <1>0, <1>4, <2>1 DEF Hear, WellFormed, TypeOK
<1>5. ASSUME NEW w \in Workers,
             \/ Prepare(w) /\ w \in Tasks
             \/ Share(w) \/ Crash(w)
             \/ BeginAlert(w) \/ BeginDigest(w) \/ SendAlert(w) \/ SaveAlert(w)
      PROVE  FALSE
  <2>1. w = c
    BY <1>0, <1>5, OthersMove
  <2>2. ~(BeginAlert(c) \/ BeginDigest(c) \/ SendAlert(c) \/ SaveAlert(c))
    BY <1>0 DEF BeginAlert, BeginDigest, BeginSending, SendAlert, SaveAlert, Writes, At
  <2>3. ~(Fill(c) \/ Advance(c) \/ Finish(c) \/ Match(c) \/ SaveJobSession(c)
          \/ PresentTopJobs(c) \/ Learn(c))
    BY <1>0 DEF Fill, Advance, Finish, Match, SaveJobSession, PresentTopJobs, Learn, Writes, At
  <2>4. ~(Throw(c) \/ Crash(c))
    <3>1. Done(c) \/ Fail(c) => work'[c] = Idle
      BY <1>0, <1>w DEF Done, Fail
    <3>. QED
      BY <1>0, <3>1 DEF Throw, Crash
  <2>. QED
    BY <1>0, <1>5, <2>1, <2>2, <2>3, <2>4 DEF Share
<1>6. Apply(c)
  BY <1>1, <1>3, <1>4, <1>5 DEF Next, Workers
<1>7. PICK j \in ByIndex(a.n) :
        work' = [work EXCEPT ![c] = [a EXCEPT !.at = "learn", !.list = <<j>>]]
  <2>1. ~Done(c)
    BY <1>w DEF Done
  <2>. QED
    BY <1>0, <1>6, <2>1 DEF Apply
<1>. DEFINE b == [a EXCEPT !.at = "learn", !.list = <<j>>]
<1>8. work'[c] = b /\ b.list = <<j>>
  BY <1>0, <1>7, <1>w DEF Activity
<1>9. j \in RangeOf(<<j>>)
  BY DEF RangeOf
<1>10. a.meant \subseteq {j}
  BY <1>0, <1>2, <1>7 DEF OnPhone, ByIndex
<1>. HIDE DEF b
<1>. QED
  BY <1>0, <1>8, <1>9, <1>10

(* Where one chat is served and no alert, letter or resume that is taken over*)
(* unasked writes beside it, an interview with an answer ends in the history,*)
(* or with the profile: nothing a step of the chat or of a task writes back  *)
(* drops it, crashes included.                                               *)
THEOREM InterviewsAreKept == Spec => InterviewKept
<1>1. Init => WellFormed /\ Conversed
  BY WellFormedInitially, ConversedInitially
<1>2. WellFormed /\ Conversed /\ [Next]_vars => (WellFormed /\ Conversed)'
  BY WellFormedStep, ConversedStep
<1>3. WellFormed /\ Conversed /\ [Next]_vars
      => [Undisturbed /\ seeker.data.session.answers > 0
                      /\ seeker'.data.session = NoSession =>
            \/ seeker'.data.history > seeker.data.history
            \/ seeker.data.history = MaxInterviews
            \/ ~seeker'.isComplete]_vars
  BY InterviewStep
<1>. QED
  BY <1>1, <1>2, <1>3, PTL DEF Spec, InterviewKept

(* Under the same conditions, and where nothing crashes and every reply      *)
(* arrives, APPLY n and NOT INTERESTED n are about the job the seeker saw at *)
(* number n.                                                                 *)
THEOREM ApplicationsAreMeant == Spec => AppliesToListed
<1>1. Init => WellFormed /\ Conversed
  BY WellFormedInitially, ConversedInitially
<1>2. WellFormed /\ Conversed /\ [Next]_vars => (WellFormed /\ Conversed)'
  BY WellFormedStep, ConversedStep
<1>3. WellFormed /\ Conversed /\ [Next]_vars
      => [Undisturbed /\ setting.faults \cap {"crash", "send"} = {} =>
            \A c \in Chats :
              /\ At(c, "apply") \/ At(c, "dismiss")
              /\ work'[c] # work[c] /\ work'[c] # Idle
              => work[c].meant \subseteq RangeOf(work'[c].list)]_vars
  BY ApplyStep DEF Reliable
<1>. QED
  BY <1>1, <1>2, <1>3, PTL DEF Spec, AppliesToListed

=============================================================================
