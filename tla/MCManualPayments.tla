-------------------------- MODULE MCManualPayments --------------------------
(* ManualPayments in two circumstances, chosen once.  Serial: one handler at *)
(* a time, with a crash or an event and every payment reference.  Otherwise  *)
(* handlers overlap over one reference within the trial, and nothing else    *)
(* interferes.                                                               *)
EXTENDS ManualPayments

VARIABLE serial

MCInit ==
  /\ Init
  /\ serial \in BOOLEAN
  /\ ~serial => \A u \in Users : trial[u]

First(S) == CHOOSE x \in S : TRUE

OneReference == \A h \in Tasks : task'[h] # NoTask => task'[h].utr \in {First(Utrs), NoUtr}

OneTask == \A h \in Tasks \ {First(Tasks)} : task'[h] = NoTask

Circumstance ==
  /\ serial => OneTask /\ crashes' + events' <= 1
  /\ ~serial => crashes' = 0 /\ events' = 0 /\ trial' = trial /\ OneReference
  /\ UNCHANGED serial

MCNext == Next /\ Circumstance

MCVars == <<vars, serial>>

(* The fairness of ManualPayments!FairSpec, in the circumstance.             *)
MCFairness ==
  /\ \A h \in Tasks : WF_MCVars(Continue(h) /\ Circumstance)
  /\ \A s \in Subs : /\ WF_MCVars(GrowStale(s) /\ Circumstance)
                     /\ SF_MCVars((\E h \in Tasks : BeginExpire(h, s)) /\ Circumstance)

MCSpec == MCInit /\ [][MCNext]_MCVars /\ MCFairness

-----------------------------------------------------------------------------
(* What handlers that do not overlap guarantee, part by part.                *)

(* One payment reference is live on at most one submission ("this UPI        *)
(* transaction ID was already submitted").                                   *)
LiveUtrUnique ==
  LET Live == {s \in Subs : sub[s].status \in {"pending", "approved"}}
  IN \A s1, s2 \in Live : sub[s1].utr = sub[s2].utr => s1 = s2

(* A user who is told that a payment is under review has a pending           *)
(* submission that somebody can decide, or that will expire.                 *)
UnderReviewHasPending ==
  \A u \in Users : user[u].status = "pending_verification" =>
    \E s \in Subs : Pending(s) /\ sub[s].user = u

(* A submission is decided once ("Submission is already ...").               *)
VerdictStands ==
  \A s \in Subs : sub[s].status \in Verdicts => sub'[s].status = sub[s].status

(* "Your subscription is now active until <period end>": a running active    *)
(* subscription stays active until time ends its period.                     *)
StaysActive ==
  \A u \in Users : user[u] = [status |-> "active", paid |-> "running"] =>
    user'[u].status = "active"

(* All of it while handlers do not overlap; what users are told of a review  *)
(* until an event or an admin's edit interferes; and what they have paid for *)
(* until that or a crash does: an approval that was cut off after its        *)
(* activation can still be rejected.                                         *)
ReviewIsSound ==
  [][serial => /\ VerdictStands
               /\ LiveUtrUnique'
               /\ events' = 0 => UnderReviewHasPending'
               /\ events' + crashes' = 0 => StaysActive]_vars
=============================================================================
