---------------------------- MODULE MCSlotEngine ----------------------------
(* Half hours in India, an evening's opening and the last day of a month.    *)
EXTENDS SlotEngine

HalfHours == 48
Calendar == <<31, 30, 31, 31>>
India == {[before |-> 11, after |-> 11, shift |-> 0]}
Evening == {[start |-> 36, end |-> 42, length |-> 2]}
MonthEnd == {[month |-> 2, day |-> 30]}
=============================================================================
