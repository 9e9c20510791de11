------------------------- MODULE MCRazorpayWebhooks -------------------------
(***************************************************************************)
(* Circumstances for the runs of RazorpayWebhooks.                         *)
(***************************************************************************)
EXTENDS RazorpayWebhooks

OneTask == {CHOOSE h \in Tasks : TRUE}

AnyOrder == [inOrder |-> FALSE, tasks |-> Tasks, checkout |-> TRUE,
             faults |-> 0, events |-> 3]

InOrder == [inOrder |-> TRUE, tasks |-> OneTask, checkout |-> FALSE,
            faults |-> 0, events |-> 5]

Failing == [inOrder |-> FALSE, tasks |-> OneTask, checkout |-> TRUE,
            faults |-> 1, events |-> 3]

Circumstances == {AnyOrder, InOrder, Failing}

OneFailure == {[Failing EXCEPT !.checkout = FALSE, !.events = 2]}
=============================================================================
