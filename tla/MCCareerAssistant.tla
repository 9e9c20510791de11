--------------------------- MODULE MCCareerAssistant ---------------------------
(* The circumstances under which one seeker talks to the assistant.           *)
EXTENDS CareerAssistant

MCQuestions == <<"follow_up_location", "follow_up_experience">>
MCReadable == {{}, {"follow_up_location"}}
MCLists == {<<1, 2>>, <<2>>}

Quiet == [words |-> {}, chats |-> {"c1"}, senders |-> {}, readers |-> 1,
          faults |-> {}, confirm |-> TRUE, joined |-> TRUE, patient |-> FALSE]

(* A new seeker, with and without confirmation of what was read.              *)
Newcomers ==
  {[Quiet EXCEPT !.words = {"hello", "answer", "media", "yes"}, !.confirm = c,
                 !.joined = FALSE, !.patient = TRUE,
                 !.faults = IF c THEN {"crash", "ai", "file"} ELSE {"ai"}] : c \in BOOLEAN}

(* A seeker who updates, resets or deletes while a file is read; a patient    *)
(* one waits for what was sent to be read.                                    *)
Updaters ==
  {[Quiet EXCEPT !.words = {"media"} \cup w] :
     w \in {{"resume", "delete"}, {"yes", "reset"}, {"resume", "reset"}}}
  \cup {[Quiet EXCEPT !.words = {"media", "yes", "answer", "reset"}, !.patient = TRUE],
         [Quiet EXCEPT !.words = {"media", "yes", "resume"}, !.patient = TRUE,
                       !.faults = {"ai", "crash"}],
         [Quiet EXCEPT !.words = {"media", "resume"}, !.confirm = FALSE, !.patient = TRUE,
                       !.faults = {"ai"}],
         [Quiet EXCEPT !.words = {"media", "resume"}, !.confirm = FALSE]}

(* A newcomer who sends one resume after the other.                           *)
Impatient == [Quiet EXCEPT !.words = {"hello", "answer", "media", "yes"}, !.joined = FALSE]

(* A seeker at work on lists, and one in an interview.                        *)
Applicant == [Quiet EXCEPT !.words = {"find", "apply", "dismiss", "guidance", "advice",
                                      "stop", "start"}]
Candidate == [Quiet EXCEPT !.words = {"interview", "type", "answer", "end", "find", "hello", "guidance"},
                           !.faults = {"ai", "crash"}]

(* The same beside alerts and letters, and on two servers.                    *)
Alerted == [Quiet EXCEPT !.words = {"find", "apply"},
                         !.senders = {"s1"}, !.faults = {"send"}]
Lettered == [Quiet EXCEPT !.words = {"find", "cover", "apply", "delete"}]
Servers == [Quiet EXCEPT !.words = {"resume", "media"}, !.readers = 2]

MCSettings == Newcomers \cup Updaters \cup {Impatient, Applicant, Candidate, Alerted, Lettered, Servers}

=============================================================================
