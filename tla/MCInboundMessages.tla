------------------------- MODULE MCInboundMessages -------------------------
(***************************************************************************)
(* Customers, what they send and under which circumstances, for the runs   *)
(* of InboundMessages.                                                     *)
(***************************************************************************)
EXTENDS InboundMessages

CONSTANTS c1, c2, m1, m2, m3

(* c1 writes twice, the second time asking for a fresh booking; a payload    *)
(* may carry c2's message as well.                                           *)
Senders == [m \in {m1, m2, m3} |-> IF m = m2 THEN c2 ELSE c1]
BookAgain == {m3}
Batches == {<<m1>>, <<m3>>, <<m1, m2>>}

OneHook == {CHOOSE h \in Hooks : TRUE}

(* A payload is delivered again, also while it is being handled.             *)
Repeated == [payloads |-> {<<m1, m2>>}, known |-> Contacts, hooks |-> Hooks,
             faults |-> {"cutHook"}, duplicates |-> 1]

(* A worker is lost.                                                         *)
Retried == [payloads |-> {<<m1>>, <<m3>>}, known |-> {}, hooks |-> OneHook,
            faults |-> {"cutWorker"}, duplicates |-> 0]

(* First messages overlap, and a call fails.                                 *)
Strangers == [payloads |-> {<<m1>>, <<m3>>}, known |-> {}, hooks |-> Hooks,
              faults |-> {"error"}, duplicates |-> 0]

Circumstances == {Repeated, Retried, Strangers}
=============================================================================
