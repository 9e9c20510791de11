--------------------------- MODULE MCWorkflowRuns ---------------------------
(***************************************************************************)
(* Workflows and circumstances for the runs of WorkflowRuns.               *)
(***************************************************************************)
EXTENDS WorkflowRuns

One(set) == {CHOOSE x \in set : TRUE}

(* Two impatient customers and a worker: questions in a row, a screenshot, a *)
(* delay.                                                                    *)
Asked(f) == [flow |-> f, contacts |-> Contacts, workers |-> One(Workers),
             patient |-> FALSE, execs |-> 2, messages |-> 4, taps |-> 0, faults |-> 0]

(* A patient customer and one message with buttons, whose options lead to    *)
(* messages or a booking.                                                    *)
Tapped(f) == [flow |-> f, contacts |-> One(Contacts), workers |-> One(Workers),
              patient |-> TRUE, execs |-> 3, messages |-> 4, taps |-> 2, faults |-> 0]

(* Two workers, and a node that fails or a worker that crashes.              *)
Retried(f) == [flow |-> f, contacts |-> One(Contacts), workers |-> Workers,
               patient |-> FALSE, execs |-> 1, messages |-> 3, taps |-> 1, faults |-> 1]

Questions == <<"trigger", "send", "ask", "send", "ask", "send">>
Payment == <<"trigger", "photo", "ask", "send">>
Reminder == <<"trigger", "send", "delay", "send">>
Menu == <<"trigger", "send", "pick", "send", "send">>
Lead == <<"trigger", "ask", "pick", "book", "send">>
Booking == <<"trigger", "pick", "book", "send">>

Plain == {Questions, Payment, Reminder}

Circumstances == {Asked(f) : f \in Plain}
                 \cup {Tapped(f) : f \in {Menu, Lead}}
                 \cup {Retried(f) : f \in Plain \cup {Booking}}
=============================================================================
