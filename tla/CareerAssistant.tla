--------------------------- MODULE CareerAssistant ---------------------------
(***************************************************************************)
(* The career assistant and one job seeker: what the seeker writes on      *)
(* WhatsApp (CareerBotService.handleIncomingMessage), the resume and cover *)
(* letter tasks that run beside the chat (CareerTaskProcessor), the mock   *)
(* interview (CareerInterviewService) and the job alerts and digests       *)
(* (CareerJobAlertService, CareerDigestService).                           *)
(*                                                                         *)
(* All of them share the seeker's career_profiles row, and most of what    *)
(* they keep lives in its one JSON column, onboardingData.  Some writers   *)
(* read that column again right before they write it (those two statements *)
(* are one step here); the others write back the column as they found it   *)
(* when they started, with their own key changed.                          *)
(*                                                                         *)
(* A seeker without access only gets replies: such a message is one that   *)
(* was not sent.  An edit of a staged resume changes its text alone, and   *)
(* what the assistant learns, its guidance and the history of its advice   *)
(* are keys of the column whose values nothing here depends on; of the     *)
(* resumes' texts, masterResumeId says no more than which comes first.     *)
(***************************************************************************)
EXTENDS Integers, Sequences, FiniteSets

CONSTANTS
  Chats,           \* workers of the queue of incoming messages
  Tasks,           \* places for background tasks
  Senders,         \* batches of alerts or digests
  Jobs,            \* listings of the tenant
  Questions,       \* the follow-up questions, in the order they are asked
  Experience,      \* the one whose answer is kept in onboardingData
  Readable,        \* what a resume may answer: sets of questions
  Lists,           \* what matching may find, best first, never empty
  Rounds,          \* questions of a mock interview
  MaxInterviews,   \* bound on the interviews kept
  MaxProfiles,     \* bound on profiles, one after the other
  MaxTroubles,     \* bound on crashes, unreadable files and failed calls
  Retries,         \* how often the queue repeats a task that failed
  Settings,        \* the circumstances of a run: see Setting
  Idle             \* a worker or a place with nothing to do

VARIABLES
  setting,         \* the circumstances chosen for this behaviour
  seeker,          \* the career_profiles row
  masters,         \* how many career_resumes rows have isMaster
  matched,         \* jobs with a career_job_matches row of 65% or better
  work,            \* what each worker, task and sender is doing
  shown,           \* the last numbered list that reached the seeker's phone
  created, troubles

jobs == <<masters, matched>>
counts == <<created, troubles>>
vars == <<setting, seeker, jobs, work, shown, counts>>

-----------------------------------------------------------------------------
Workers == Chats \cup Tasks \cup Senders
Asked == {Questions[i] : i \in 1 .. Len(Questions)}

(* What a seeker may write.  "apply" and "dismiss" name a number of the list. *)
Words == {"hello", "answer", "resume", "stop", "start", "reset", "delete",
          "media", "yes", "find", "apply", "cover", "dismiss", "interview",
          "type", "end", "guidance", "advice"}

Setting == [words : SUBSET Words, chats : SUBSET Chats, senders : SUBSET Senders,
            readers : 1 .. 2, faults : SUBSET {"crash", "ai", "file", "send"},
            confirm : BOOLEAN, joined : BOOLEAN, patient : BOOLEAN]

Steps == {"welcome", "awaiting_resume", "parsing_resume", "parse_review",
          "complete"} \cup Asked

(* The keys of onboardingData.                                               *)
Review == [staged : BOOLEAN, answers : SUBSET Asked, reupload : BOOLEAN]
NoReview == [staged |-> FALSE, answers |-> {}, reupload |-> FALSE]

Session == [stage : {"none", "choosing_type", "active"}, answers : 0 .. Rounds]
NoSession == [stage |-> "none", answers |-> 0]

Data == [parseReview : Review, reuploadPending : BOOLEAN, session : Session,
         history : 0 .. MaxInterviews, jobSession : Lists \cup {<<>>},
         notified : SUBSET Jobs, experience : BOOLEAN]

NoData == [parseReview |-> NoReview, reuploadPending |-> FALSE,
           session |-> NoSession, history |-> 0, jobSession |-> <<>>,
           notified |-> {}, experience |-> FALSE]

Profile == [id : 0 .. MaxProfiles, step : Steps, isComplete : BOOLEAN,
            answered : SUBSET Asked, digestOptOut : BOOLEAN, data : Data]

NewProfile(n) ==
  [id |-> n, step |-> "welcome", isComplete |-> FALSE, answered |-> {},
   digestOptOut |-> FALSE, data |-> NoData]

NoProfile == NewProfile(0)

(* A seeker who has been through the questions before.                       *)
Joined ==
  [NewProfile(1) EXCEPT
     !.step = "complete", !.isComplete = TRUE,
     !.answered = Asked \ {Experience}, !.data.experience = TRUE]

(* What a worker for messages, a task or a sender is at.                     *)
FillSteps == {"fill", "advance", "finish", "match", "list", "present"}
ReadSteps == {"read", "create", "adopt", "parse"}
ChatSteps == FillSteps \cup
  {"stop", "start", "reset", "restart", "delete", "upload", "cover", "onboard", "skip",
   "review", "find", "apply", "dismiss", "learn", "rematch", "guidance", "resume", "help",
   "advice", "interview", "session", "score", "record"}
Places == ChatSteps \cup ReadSteps \cup {"queued", "letter", "send", "sent"}

(* What is under way: the row that was read, the message or task it is for,  *)
(* and what has been found since.                                            *)
Activity == [at : Places, row : Profile, n : 1 .. Rounds + 2, list : Seq(Jobs),
             word : Words \cup {"parse_resume", "generate_cover_letter", "alert"},
             meant : SUBSET Jobs, review : Review, tries : 0 .. Retries]

Starting(at, word, row) ==
  [at |-> at, word |-> word, row |-> row, n |-> 1, list |-> <<>>,
   meant |-> {}, review |-> NoReview, tries |-> 0]

ASSUME CareerConstants ==
  /\ Chats \cap Tasks = {} /\ Chats \cap Senders = {} /\ Tasks \cap Senders = {}
  /\ IsFiniteSet(Chats) /\ IsFiniteSet(Tasks)
  /\ Questions \in Seq(STRING) /\ Questions # <<>>
  /\ \A i, k \in 1 .. Len(Questions) : Questions[i] = Questions[k] => i = k
  /\ Asked \cap {"welcome", "awaiting_resume", "parsing_resume", "parse_review",
                  "complete"} = {}
  /\ Readable \subseteq SUBSET Asked
  /\ Lists \subseteq Seq(Jobs) \ {<<>>}
  /\ Settings \subseteq Setting
  /\ Rounds \in Nat /\ MaxInterviews \in Nat /\ MaxProfiles \in Nat \ {0}
  /\ MaxTroubles \in Nat /\ Retries \in Nat
  /\ Idle \notin Activity

Init ==
  /\ setting \in Settings
  /\ seeker = IF setting.joined THEN Joined ELSE NoProfile
  /\ masters = IF setting.joined THEN 1 ELSE 0
  /\ matched = {}
  /\ work = [w \in Workers |-> Idle]
  /\ shown = <<>>
  /\ created = IF setting.joined THEN 1 ELSE 0
  /\ troubles = 0

-----------------------------------------------------------------------------
Has(row) == row.id # 0
SameRow(row) == Has(row) /\ row.id = seeker.id
RangeOf(list) == {list[i] : i \in 1 .. Len(list)}

(* isFieldFilled and isFieldAlreadyFilled: the answer to Experience is not a *)
(* column.                                                                   *)
Answered(row, q) ==
  IF q = Experience THEN row.data.experience ELSE q \in row.answered

(* The step after question q in getOnboardingSteps.                          *)
After(q) ==
  LET i == CHOOSE i \in 1 .. Len(Questions) : Questions[i] = q
  IN  IF i = Len(Questions) THEN "complete" ELSE Questions[i + 1]

(* Mutant of FirstOpen: the last question is taken for answered.             *)
FirstOpenButLast(row) ==
  LET open == {i \in 1 .. Len(Questions) - 1 : ~Answered(row, Questions[i])}
  IN  IF open = {} THEN "complete"
      ELSE Questions[CHOOSE i \in open : \A k \in open : i <= k]

(* computeNextOnboardingStep.                                                *)
FirstOpen(row) ==
  LET open == {i \in 1 .. Len(Questions) : ~Answered(row, Questions[i])}
  IN  IF open = {} THEN "complete"
      ELSE Questions[CHOOSE i \in open : \A k \in open : i <= k]

(* shouldAcceptResumeUpload.                                                 *)
AcceptsUpload(row) ==
  \/ row.step \in {"welcome", "awaiting_resume", "parsing_resume", "parse_review"}
  \/ row.data.reuploadPending

(* mergeOnboardingData and the other writers that read the column again.     *)
Merge(key, value) == seeker' = [seeker EXCEPT !.data = [@ EXCEPT ![key] = value]]

(* The writers that start from the copy they have.                           *)
WriteBack(data) == seeker' = [seeker EXCEPT !.data = data]

(* The columns and the answers a resume has filled in.                       *)
Filled(row, review) == [row EXCEPT !.answered = @ \cup review.answers]

-----------------------------------------------------------------------------
At(w, at) == work[w] # Idle /\ work[w].at = at
Goto(w, at) == work' = [work EXCEPT ![w].at = at]
GotoWith(w, at, row) == work' = [work EXCEPT ![w].at = at, ![w].row = row]
Done(w) == work' = [work EXCEPT ![w] = Idle]

(* Updating a row that is gone throws.                                       *)
Writes(w, at) == At(w, at) /\ SameRow(work[w].row)

OnlySeeker == UNCHANGED <<setting, jobs, shown, counts>>
Nothing == UNCHANGED seeker /\ OnlySeeker

(* A message that throws is over; a task is tried again after the seeker was *)
(* told (notifyCareerTaskFailure); a sender goes on to the next seeker.  A   *)
(* letter finds no job any more, and what is learned is learned in a catch.  *)
Fail(w) ==
  LET again == [work[w] EXCEPT !.at = "queued", !.tries = @ + 1]
  IN  work' = [work EXCEPT ![w] =
                 IF w \in Tasks /\ work[w].tries < Retries THEN again ELSE Idle]

Throw(w) ==
  /\ work[w] # Idle
  /\ work[w].at \notin {"queued", "upload", "read", "present", "send"}
  /\ ~SameRow(work[w].row)
  /\ IF work[w].at \in {"letter", "learn"} THEN Done(w) ELSE Fail(w)
  /\ Nothing

Trouble(kind) ==
  /\ kind \in setting.faults
  /\ troubles < MaxTroubles
  /\ troubles' = troubles + 1

(* The process stops, and the queue hands the task out again.                *)
Crash(w) ==
  /\ work[w] # Idle
  /\ Trouble("crash")
  /\ Fail(w)
  /\ UNCHANGED <<setting, seeker, jobs, shown, created>>

-----------------------------------------------------------------------------
(* The commands of a seeker who is through the questions; the rest is met    *)
(* with help.                                                                *)
Command(word) ==
  IF word \in {"resume", "find", "apply", "cover", "dismiss", "interview",
               "guidance", "advice"} THEN word ELSE "help"

(* handleIncomingMessage: where a message goes.                              *)
Route(row, word) ==
  IF word = "media" /\ AcceptsUpload(row) THEN "upload"
  ELSE IF word \in {"stop", "start", "reset", "delete"} THEN word
  ELSE IF row.step = "parse_review" THEN "review"
  ELSE IF ~row.isComplete THEN "onboard"
  ELSE IF row.data.session.stage # "none" THEN "session"
  ELSE Command(word)

(* The message is taken up: the seeker's row is read, or made (getOrCreate). *)
(* Number n of the list is what the seeker has on the phone.  A patient one  *)
(* sends a resume when asked for one, and none while one is being read.      *)
Hear(c, word, n) ==
  /\ c \in setting.chats
  /\ work[c] = Idle
  /\ word \in setting.words
  /\ word \notin {"apply", "dismiss"} => n = 1
  /\ word = "media" /\ setting.patient =>
       /\ \/ seeker.step \in {"awaiting_resume", "parsing_resume"}
          \/ seeker.data.reuploadPending
       /\ \A t \in Tasks : work[t] = Idle
  /\ Has(seeker) \/ created < MaxProfiles
  /\ created' = IF Has(seeker) THEN created ELSE created + 1
  /\ seeker' = IF Has(seeker) THEN seeker ELSE NewProfile(created + 1)
  /\ work' = [work EXCEPT ![c] =
       [Starting(Route(seeker', word), word, seeker') EXCEPT
          !.n = n, !.meant = IF n <= Len(shown) THEN {shown[n]} ELSE {}]]
  /\ UNCHANGED <<setting, jobs, shown, troubles>>

(* STOP DIGEST and START DIGEST.                                             *)
SetOptOut(c) ==
  /\ \/ Writes(c, "stop")
     \/ Writes(c, "start")
  /\ seeker' = [seeker EXCEPT !.digestOptOut = work[c].word = "stop"]
  /\ Done(c)
  /\ OnlySeeker

(* cmdResetProfile: resetProfile, then updateOnboarding.  The rows of        *)
(* resumes and matches stay.                                                 *)
Reset(c) ==
  /\ \/ /\ Writes(c, "reset")
        /\ seeker' = [seeker EXCEPT !.step = "welcome", !.isComplete = FALSE,
                        !.answered = {}, !.data = NoData]
        /\ Goto(c, "restart")
     \/ /\ Writes(c, "restart")
        /\ seeker' = [seeker EXCEPT !.step = "awaiting_resume"]
        /\ Done(c)
  /\ shown' = <<>>
  /\ UNCHANGED <<setting, jobs, counts>>

(* cmdDeleteMyData: deleteProfile, whose delete cascades.                    *)
Delete(c) ==
  /\ Writes(c, "delete")
  /\ seeker' = NoProfile
  /\ masters' = 0
  /\ matched' = {}
  /\ shown' = <<>>
  /\ Done(c)
  /\ UNCHANGED <<setting, counts>>

(* enqueueCareerTask, the last thing a handler does.                         *)
Enqueue(c, activity) ==
  LET free == {t \in Tasks : work[t] = Idle}
  IN  /\ free # {}
      /\ work' = [work EXCEPT ![CHOOSE t \in free : TRUE] = activity, ![c] = Idle]

(* handleResumeMedia: whether it is an update is read again here.            *)
Upload(c) ==
  /\ At(c, "upload")
  /\ Enqueue(c, [Starting("queued", "parse_resume", NoProfile) EXCEPT
                   !.review.reupload = seeker.data.reuploadPending])
  /\ Nothing

(* cmdGenerateCoverLetter, for a job of the list or of the matches.          *)
AskForLetter(c) ==
  /\ At(c, "cover")
  /\ IF seeker.data.jobSession = <<>> /\ matched = {} THEN Done(c)
     ELSE Enqueue(c, Starting("queued", "generate_cover_letter", work[c].row))
  /\ Nothing

(* validateOnboardingAnswer: the other words answer no question.             *)
Valid(word) == word = "answer"

(* parseParseReviewReply: anything else is an edit or not understood.        *)
Confirms(word) == word = "yes"

(* handleOnboarding with nothing to write: the seeker is asked again, or     *)
(* told to wait.                                                             *)
AskAgain(c) ==
  LET row == work[c].row
  IN  /\ At(c, "onboard")
      /\ \/ row.step = "awaiting_resume"
         \/ row.step = "parsing_resume" /\ ~row.data.parseReview.staged
         \/ /\ row.step \in Asked
            /\ ~Answered(row, row.step)
            /\ ~Valid(work[c].word)
      /\ Done(c)
      /\ Nothing

(* handleOnboarding: the greeting, and the step nobody knows.                *)
MoveOn(c) ==
  /\ Writes(c, "onboard")
  /\ \/ /\ work[c].row.step = "welcome"
        /\ seeker' = [seeker EXCEPT !.step = "awaiting_resume"]
     \/ /\ work[c].row.step = "complete"
        /\ seeker' = [seeker EXCEPT !.step = Questions[1]]
  /\ Done(c)
  /\ OnlySeeker

(* The review of a resume whose step was overwritten since.                  *)
ReviewAnyway(c) ==
  /\ At(c, "onboard")
  /\ work[c].row.step = "parsing_resume"
  /\ work[c].row.data.parseReview.staged
  /\ Goto(c, "review")
  /\ Nothing

(* One turn of the loop that passes over the questions that are answered,    *)
(* and the prompt of the first that is not.                                  *)
SkipAnswered(c) ==
  LET at == work[c].row.step
  IN  /\ \/ Writes(c, "onboard")
         \/ Writes(c, "skip")
      /\ at \in Asked
      /\ \/ /\ Answered(work[c].row, at)
            /\ seeker' = [seeker EXCEPT !.step = After(at)]
            /\ GotoWith(c, IF After(at) = "complete" THEN "finish" ELSE "skip",
                        seeker')
         \/ /\ work[c].at = "skip"
            /\ ~Answered(work[c].row, at)
            /\ Done(c)
            /\ UNCHANGED seeker
      /\ OnlySeeker

(* A valid answer is kept and the next question asked: Experience first in   *)
(* the column, the others with the step.                                     *)
Answer(c) ==
  LET q == work[c].row.step
  IN  /\ Writes(c, "onboard")
      /\ Valid(work[c].word)
      /\ q \in Asked
      /\ ~Answered(work[c].row, q)
      /\ IF q = Experience /\ ~seeker.data.experience
         THEN /\ Merge("experience", TRUE)
              /\ UNCHANGED work
         ELSE /\ seeker' = [seeker EXCEPT !.step = After(q),
                              !.answered = @ \cup ({q} \ {Experience})]
              /\ IF After(q) = "complete"
                 THEN GotoWith(c, "finish", seeker')
                 ELSE Done(c)
      /\ OnlySeeker

-----------------------------------------------------------------------------
(* Mutant of ReviewExpired: the seeker is told, and stays in the review.     *)
ReviewExpiredForGood(c) ==
  /\ Writes(c, "review")
  /\ ~work[c].row.data.parseReview.staged
  /\ Done(c)
  /\ Nothing

(* handleParseReview without a resume to review: start over.                 *)
ReviewExpired(c) ==
  /\ Writes(c, "review")
  /\ ~work[c].row.data.parseReview.staged
  /\ seeker' = [seeker EXCEPT !.step = "awaiting_resume"]
  /\ Done(c)
  /\ OnlySeeker

(* Neither a confirmation nor an edit: how to reply is explained.            *)
ReviewHelp(c) ==
  /\ At(c, "review")
  /\ work[c].row.data.parseReview.staged
  /\ ~Confirms(work[c].word)
  /\ Done(c)
  /\ Nothing

(* The confirmed resume is the one that was staged when the message was      *)
(* read.  An update is no longer awaited, first of all.                      *)
Confirm(c) ==
  LET staged == work[c].row.data.parseReview
  IN  /\ Writes(c, "review")
      /\ Confirms(work[c].word)
      /\ staged.staged
      /\ IF staged.reupload THEN Merge("reuploadPending", FALSE)
         ELSE UNCHANGED seeker
      /\ work' = [work EXCEPT ![c].at = "fill", ![c].review = staged]
      /\ OnlySeeker

(* confirmStagedParse, applyParsedResume and applyParsedResumeUpdate: the    *)
(* columns the resume answers.  An update completes the profile; both it and *)
(* a confirmation clear whatever is staged by now.                           *)
Fill(w) ==
  LET review == work[w].review
  IN  /\ Writes(w, "fill")
      /\ seeker' = IF review.reupload
                   THEN [Filled(seeker, review) EXCEPT
                           !.isComplete = TRUE, !.step = "complete",
                           !.data.parseReview = NoReview]
                   ELSE IF review.staged
                   THEN [Filled(seeker, review) EXCEPT !.data.parseReview = NoReview]
                   ELSE Filled(seeker, review)
      /\ GotoWith(w, IF review.reupload THEN "match" ELSE "advance", seeker')
      /\ OnlySeeker

(* ... and then the step, from the row the first update returned.            *)
Advance(w) ==
  /\ Writes(w, "advance")
  /\ seeker' = [seeker EXCEPT !.step = FirstOpen(work[w].row)]
  /\ IF seeker'.step = "complete" THEN GotoWith(w, "finish", seeker') ELSE Done(w)
  /\ OnlySeeker

(* finishOnboarding: markComplete, and then the first matches.               *)
Finish(w) ==
  /\ Writes(w, "finish")
  /\ seeker' = [seeker EXCEPT !.isComplete = TRUE, !.step = "complete"]
  /\ Goto(w, "match")
  /\ OnlySeeker

-----------------------------------------------------------------------------
(* persistMatches: every job that was scored has its score overwritten, and  *)
(* those of the list have a good one now.                                    *)
Persist(list) ==
  \E low \in SUBSET Jobs : matched' = (matched \ low) \cup RangeOf(list)

(* FIND JOBS, and every list the assistant shows: matchAndPersistForProfile, *)
(* then saveJobSession with the copy of the column at hand, then the reply.  *)
(* NOT INTERESTED only has the jobs scored again.                            *)
Match(w) ==
  /\ \E list \in Lists \cup {<<>>} :
       /\ Persist(list)
       /\ \/ /\ Writes(w, "match") \/ Writes(w, "find")
             /\ list # <<>>
             /\ work' = [work EXCEPT ![w].at = "list", ![w].list = list]
          \/ /\ Writes(w, "match") \/ Writes(w, "find")
             /\ list = <<>>
             /\ Done(w)
          \/ /\ Writes(w, "rematch")
             /\ Done(w)
  /\ UNCHANGED <<setting, seeker, masters, shown, counts>>

(* What a list that is shown or sent leaves in the column.                   *)
Listed(data, list) ==
  [data EXCEPT !.jobSession = list, !.notified = @ \cup RangeOf(list)]

SaveJobSession(w) ==
  /\ Writes(w, "list")
  /\ WriteBack(Listed(work[w].row.data, work[w].list))
  /\ Goto(w, "present")
  /\ OnlySeeker

(* presentTopJobs: a reply that cannot be sent is logged.                    *)
PresentTopJobs(w) ==
  /\ At(w, "present")
  /\ \/ shown' = work[w].list /\ UNCHANGED troubles
     \/ Trouble("send") /\ UNCHANGED shown
  /\ Done(w)
  /\ UNCHANGED <<setting, seeker, jobs, created>>

(* Mutant of ByIndex: the matches are consulted before the list.             *)
ByIndexOfMatches(n) ==
  IF matched # {} THEN matched
  ELSE IF n <= Len(seeker.data.jobSession) THEN {seeker.data.jobSession[n]} ELSE {}

(* resolveJobByIndex: the job at n of the list last saved, else of the       *)
(* matches in the order of their scores, which is left open.                 *)
ByIndex(n) ==
  IF n <= Len(seeker.data.jobSession) THEN {seeker.data.jobSession[n]} ELSE matched

(* cmdApply and cmdDismissJob: the job is found and the application, or the  *)
(* dismissal, recorded under it.                                             *)
Apply(c) ==
  /\ Writes(c, "apply") \/ Writes(c, "dismiss")
  /\ \/ /\ ByIndex(work[c].n) = {}
        /\ Done(c)
     \/ \E j \in ByIndex(work[c].n) :
          work' = [work EXCEPT ![c].at = "learn", ![c].list = <<j>>]
  /\ Nothing

(* updateLearningPrefs, guidance and alert preferences: one more key over    *)
(* the column as it was when the work began.                                 *)
Learn(w) ==
  /\ Writes(w, "learn") \/ Writes(w, "guidance")
  /\ WriteBack(work[w].row.data)
  /\ IF work[w].word = "dismiss" THEN Goto(w, "rematch") ELSE Done(w)
  /\ OnlySeeker

(* UPLOAD RESUME.                                                            *)
AwaitResume(c) ==
  /\ Writes(c, "resume")
  /\ Merge("reuploadPending", TRUE)
  /\ Done(c)
  /\ OnlySeeker

(* Everything that only answers, and CAREER ADVICE, which appends to its     *)
(* history as it is now.                                                     *)
Help(c) == (At(c, "help") \/ At(c, "advice")) /\ Done(c) /\ Nothing

-----------------------------------------------------------------------------
(* MOCK INTERVIEW: cmdStart asks for the type of the interview.              *)
StartInterview(c) ==
  /\ Writes(c, "interview")
  /\ Merge("session", [stage |-> "choosing_type", answers |-> 0])
  /\ Done(c)
  /\ OnlySeeker

(* beginMockSession, which leaves things as they are without questions.      *)
BeginSession(c) ==
  /\ Writes(c, "session")
  /\ seeker.data.session.stage = "choosing_type"
  /\ work[c].word = "type"
  /\ \/ /\ Merge("session", [stage |-> "active", answers |-> 0])
        /\ UNCHANGED troubles
     \/ Trouble("ai") /\ UNCHANGED seeker
  /\ Done(c)
  /\ UNCHANGED <<setting, jobs, shown, created>>

(* handleAnswer reads the session, has the answer evaluated, ...             *)
EvaluateAnswer(c) ==
  /\ Writes(c, "session")
  /\ seeker.data.session.stage = "active"
  /\ work[c].word = "answer"
  /\ seeker.data.session.answers < Rounds
  /\ work' = [work EXCEPT ![c].at = "score",
                          ![c].n = seeker.data.session.answers + 1]
  /\ Nothing

(* ... and saves the session with one more answer.                           *)
SaveAnswer(c) ==
  /\ Writes(c, "score")
  /\ Merge("session", [stage |-> "active", answers |-> work[c].n])
  /\ IF work[c].n = Rounds THEN Goto(c, "record") ELSE Done(c)
  /\ OnlySeeker

(* finishSession: the interview goes from the session to the history in one  *)
(* update.  It comes after the last answer, on END INTERVIEW when something  *)
(* was answered, and with the next message when it has not come yet.         *)
FinishSession(c) ==
  LET n == seeker.data.history IN
  /\ \/ Writes(c, "record")
     \/ /\ Writes(c, "session")
        /\ seeker.data.session.stage = "active"
        /\ \/ work[c].word = "end" /\ seeker.data.session.answers > 0
           \/ work[c].word = "answer" /\ seeker.data.session.answers = Rounds
  /\ seeker' = [seeker EXCEPT !.data =
                  [@ EXCEPT !.session = NoSession,
                            !.history = IF n < MaxInterviews THEN n + 1 ELSE n]]
  /\ Done(c)
  /\ OnlySeeker

(* Mutant of CancelSession: END INTERVIEW forgets what was answered.         *)
CancelSessionAnyway(c) ==
  /\ Writes(c, "session")
  /\ work[c].word = "end"
  /\ seeker.data.session.stage # "none"
  /\ Merge("session", NoSession)
  /\ Done(c)
  /\ OnlySeeker

(* END INTERVIEW before the first answer.                                    *)
CancelSession(c) ==
  /\ Writes(c, "session")
  /\ work[c].word = "end"
  /\ seeker.data.session.stage # "none"
  /\ seeker.data.session.answers = 0
  /\ Merge("session", NoSession)
  /\ Done(c)
  /\ OnlySeeker

(* Any other word during an interview, and a session that is over by now.    *)
PromptSession(c) ==
  LET stage == seeker.data.session.stage
  IN  /\ Writes(c, "session")
      /\ \/ stage = "none"
         \/ stage = "choosing_type" /\ work[c].word \notin {"type", "end"}
         \/ stage = "active" /\ work[c].word \notin {"answer", "end"}
      /\ Done(c)
      /\ Nothing

-----------------------------------------------------------------------------
(* A worker takes a task: the parse task finds the seeker by the contact,    *)
(* the letter task by the id of the profile.  No profile, no task.  Of the   *)
(* row, parsing uses no more than whether it was complete.                   *)
Load(t) ==
  LET wanted == work[t].word = "parse_resume" \/ SameRow(work[t].row)
  IN  /\ At(t, "queued")
      /\ Cardinality({u \in Tasks : work[u] # Idle /\ ~At(u, "queued")})
           < setting.readers
      /\ IF ~(Has(seeker) /\ wanted) THEN Done(t)
         ELSE IF work[t].word = "parse_resume"
         THEN GotoWith(t, "read", [NewProfile(seeker.id) EXCEPT
                                     !.isComplete = seeker.isComplete])
         ELSE GotoWith(t, "letter", seeker)
      /\ Nothing

(* Mutant of ReadFile: every upload claims to be the master.                 *)
ReadFileKeepingMasters(t) ==
  /\ At(t, "read")
  /\ \/ /\ Trouble("file")
        /\ Done(t)
     \/ /\ Goto(t, "create")
        /\ UNCHANGED troubles
  /\ UNCHANGED <<setting, seeker, jobs, shown, created>>

(* processResumeUpload: a file that cannot be had or read ends it with a     *)
(* reply; otherwise the resumes of the profile lose their flag.              *)
ReadFile(t) ==
  /\ At(t, "read")
  /\ \/ /\ Trouble("file")
        /\ Done(t)
        /\ UNCHANGED masters
     \/ /\ Goto(t, "create")
        /\ masters' = IF SameRow(work[t].row) THEN 0 ELSE masters
        /\ UNCHANGED troubles
  /\ UNCHANGED <<setting, seeker, matched, shown, created>>

CreateResume(t) ==
  /\ Writes(t, "create")
  /\ masters' = masters + 1
  /\ Goto(t, "adopt")
  /\ UNCHANGED <<setting, seeker, matched, shown, counts>>

(* Whether this is the update of a complete profile is decided by the row    *)
(* the task started with.                                                    *)
Update(t) == work[t].review.reupload /\ work[t].row.isComplete

Adopt(t) ==
  /\ Writes(t, "adopt")
  /\ seeker' = [seeker EXCEPT !.step = IF Update(t) THEN @ ELSE "parsing_resume"]
  /\ Goto(t, "parse")
  /\ OnlySeeker

(* What was read is staged for the seeker to confirm, or taken over when     *)
(* confirmation is switched off.                                             *)
Parse(t) ==
  /\ Writes(t, "parse")
  /\ \E answers \in Readable :
       LET found == [staged |-> setting.confirm, answers |-> answers,
                     reupload |-> Update(t)]
       IN  \/ /\ setting.confirm
              /\ seeker' = [seeker EXCEPT !.step = "parse_review",
                                          !.data.parseReview = found]
              /\ Done(t)
           \/ /\ ~setting.confirm
              /\ IF Update(t) THEN Merge("reuploadPending", FALSE)
                 ELSE UNCHANGED seeker
              /\ work' = [work EXCEPT ![t].at = "fill", ![t].review = found]
  /\ OnlySeeker

(* Nothing could be read from the text: the questions, or things as before.  *)
ParseFailed(t) ==
  /\ Writes(t, "parse")
  /\ Trouble("ai")
  /\ IF Update(t) THEN Merge("reuploadPending", FALSE)
     ELSE seeker' = [seeker EXCEPT !.step = Questions[1]]
  /\ Done(t)
  /\ UNCHANGED <<setting, jobs, shown, created>>

(* runGenerateCoverLetterTask: the job is resolved from the list as it is    *)
(* now, and the letter is written from the text of the master or else of any *)
(* other resume (loadOriginalResumeText).  Whether one of them has a text is *)
(* left open: not every file gives one, and old ones are purged.             *)
WriteLetter(t) ==
  /\ Writes(t, "letter")
  /\ \/ Done(t)
     \/ ByIndex(work[t].n) # {} /\ Goto(t, "learn")
  /\ Nothing

(* sendInstantAlertForProfile and sendDailyDigestForProfile: the row is read *)
(* and jobs are matched.                                                     *)
BeginSending(s, list) ==
  /\ s \in setting.senders
  /\ work[s] = Idle
  /\ Has(seeker) /\ seeker.isComplete /\ ~seeker.digestOptOut
  /\ Persist(list)
  /\ work' = [work EXCEPT ![s] =
       [Starting("send", "alert", seeker) EXCEPT !.list = list]]
  /\ UNCHANGED <<setting, seeker, masters, shown, counts>>

(* An alert is about jobs the seeker has not heard of.                       *)
BeginAlert(s) ==
  \E list \in Lists : /\ RangeOf(list) \cap seeker.data.notified = {}
                      /\ BeginSending(s, list)

(* A digest repeats the others when there are no new ones.                   *)
BeginDigest(s) ==
  \E list \in Lists : /\ \/ RangeOf(list) \cap seeker.data.notified = {}
                         \/ RangeOf(list) \subseteq seeker.data.notified
                      /\ BeginSending(s, list)

(* deliver: the copy in the portal, unless the seeker switched it off, always *)
(* succeeds, so the alert counts as sent whether or not the message was.     *)
SendAlert(s) ==
  /\ At(s, "send")
  /\ \/ shown' = work[s].list /\ UNCHANGED troubles
     \/ Trouble("send") /\ UNCHANGED shown
  /\ Goto(s, "sent")
  /\ UNCHANGED <<setting, seeker, jobs, created>>

SaveAlert(s) ==
  /\ Writes(s, "sent")
  /\ WriteBack(Listed(work[s].row.data, work[s].list))
  /\ Done(s)
  /\ OnlySeeker

-----------------------------------------------------------------------------
Converse(c) ==
  \/ SetOptOut(c) \/ Reset(c) \/ Delete(c) \/ Upload(c) \/ AskForLetter(c)
  \/ AskAgain(c) \/ MoveOn(c) \/ ReviewAnyway(c) \/ SkipAnswered(c) \/ Answer(c)
  \/ ReviewExpired(c) \/ ReviewHelp(c) \/ Confirm(c) \/ Apply(c)
  \/ AwaitResume(c) \/ Help(c) \/ StartInterview(c) \/ BeginSession(c)
  \/ EvaluateAnswer(c) \/ SaveAnswer(c) \/ FinishSession(c) \/ CancelSession(c)
  \/ PromptSession(c)

Prepare(t) ==
  \/ Load(t) \/ ReadFile(t) \/ CreateResume(t) \/ Adopt(t) \/ Parse(t)
  \/ ParseFailed(t) \/ WriteLetter(t)

Share(w) ==
  \/ Fill(w) \/ Advance(w) \/ Finish(w) \/ Match(w) \/ SaveJobSession(w)
  \/ PresentTopJobs(w) \/ Learn(w) \/ Throw(w)

Next ==
  \/ \E c \in Chats : Converse(c)
  \/ \E c \in Chats, word \in Words, n \in 1 .. 2 : Hear(c, word, n)
  \/ \E t \in Tasks : Prepare(t)
  \/ \E s \in Senders : BeginAlert(s) \/ BeginDigest(s) \/ SendAlert(s) \/ SaveAlert(s)
  \/ \E w \in Workers : Share(w) \/ Crash(w)

Spec == Init /\ [][Next]_vars

(* What a seeker who wants to be done writes next.                           *)
Proper ==
  IF ~Has(seeker) \/ seeker.step = "welcome" THEN "hello"
  ELSE IF seeker.step \in {"awaiting_resume", "parsing_resume"} THEN "media"
  ELSE IF seeker.step = "parse_review" THEN "yes"
  ELSE "answer"

Cooperate == \E c \in Chats : Hear(c, Proper, 1)

(* Workers go on with what they have taken up, tasks that are queued are     *)
(* taken up, and the seeker gives the proper answer again and again.         *)
FairSpec ==
  /\ Spec
  /\ \A c \in Chats : WF_vars(Converse(c) \/ Share(c))
  /\ \A t \in Tasks : WF_vars(Prepare(t) \/ Share(t))
  /\ SF_vars(Cooperate)
-----------------------------------------------------------------------------
TypeOK ==
  /\ setting \in Settings
  /\ seeker \in Profile
  /\ masters \in Nat
  /\ matched \subseteq Jobs
  /\ work \in [Workers -> Activity \cup {Idle}]
  /\ shown \in Lists \cup {<<>>}
  /\ created \in 0 .. MaxProfiles
  /\ troubles \in 0 .. MaxTroubles

OneChat == Cardinality(setting.chats) = 1
Undisturbed ==
  OneChat /\ setting.senders = {} /\ "cover" \notin setting.words /\ setting.confirm

(* With one worker for tasks, no two resumes claim to be the master, however *)
(* often a task is cut off and tried again and whatever the seeker resets or *)
(* deletes while the file is read.                                           *)
OneMaster == setting.readers = 1 => masters <= 1

(* A profile that counts as complete has an answer to every question, given  *)
(* or read from a resume.  A reset is the exception: while an update is      *)
(* read, confirming that update completes the empty profile; where files are *)
(* taken over without asking, so does the file that was being read; a letter *)
(* asked for before may write back a column without the answer it keeps.     *)
CompleteMeansAnswered ==
  /\ "reset" \in setting.words =>
       OneChat /\ setting.confirm /\ setting.words \cap {"resume", "cover"} = {}
  /\ seeker.isComplete
  => \A q \in Asked : Answered(seeker, q)

(* APPLY n and NOT INTERESTED n are about job n of the list on the seeker's  *)
(* phone, as long as no alert, no letter and no resume that is taken over    *)
(* unasked writes a list meanwhile and every list that is saved is also sent.*)
AppliesToListed ==
  [][Undisturbed /\ setting.faults \cap {"crash", "send"} = {} =>
       \A c \in Chats :
         /\ At(c, "apply") \/ At(c, "dismiss")
         /\ work'[c] # work[c] /\ work'[c] # Idle
         => work[c].meant \subseteq RangeOf(work'[c].list)]_vars

(* An interview ends when the seeker ends it or has answered the last        *)
(* question, and then it is in the history: no other step makes it go away.  *)
(* Without those who write back a column that may be older: alerts, letters  *)
(* and resumes taken over unasked, which end in a list of matches.           *)
InterviewKept ==
  [][Undisturbed /\ seeker.data.session.answers > 0
                 /\ seeker'.data.session = NoSession =>
       \/ seeker'.data.history > seeker.data.history
       \/ seeker.data.history = MaxInterviews
       \/ ~seeker'.isComplete]_vars

(* A patient seeker who answers what is asked, and does not start anew, gets *)
(* through the questions, whatever else is written, unreadable, fails or is  *)
(* cut off on the way.                                                       *)
Onboards == setting.patient /\ "reset" \notin setting.words ~> seeker.isComplete

=============================================================================
