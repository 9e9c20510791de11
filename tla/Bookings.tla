------------------------------ MODULE Bookings ------------------------------
(***************************************************************************)
(* The bookings of one resource (a chair, a turf, a room): createBooking   *)
(* and updateBookingStatus of availability.service.ts, and the WhatsApp    *)
(* messages that tell the customer.                                        *)
(*                                                                         *)
(* Both handlers read, decide, and write later by id alone, with nothing   *)
(* in the database against two active rows over the same time.  Messages   *)
(* are sent without being awaited (void ...), so they reach the customer   *)
(* in any order.                                                           *)
(***************************************************************************)
EXTENDS Integers, FiniteSets

CONSTANTS
  Ids,           \* ids of the bookings that may be made
  Windows,       \* [starts, ends] that are asked for
  Requests,      \* handler activations that may be in flight at once
  NoRequest,     \* a free activation
  Reopening,     \* whether the seller moves a booking backwards, too
  Prompt         \* whether messages arrive before the next handler starts

VARIABLES
  booking,       \* the bookings rows, by id
  active,        \* service_resources.is_active
  request,       \* what each activation read, until it writes
  outbox,        \* messages to customers on their way
  told           \* the last message about each booking that arrived

vars == <<booking, active, request, outbox, told>>

-----------------------------------------------------------------------------
Status == {"pending", "confirmed", "cancelled", "completed"}

Active == {"pending", "confirmed"}        \* ACTIVE_BOOKING_STATUSES

NoRow == [status |-> "none", window |-> CHOOSE w \in Windows : TRUE]

Init ==
  /\ booking = [i \in Ids |-> NoRow]
  /\ active = TRUE
  /\ request = [r \in Requests |-> NoRequest]
  /\ outbox = {}
  /\ told = [i \in Ids |-> "nothing"]

Overlap(v, w) == v.starts < w.ends /\ v.ends > w.starts

(* Request r is at the write of handler op, and ends with this step.         *)
Finish(r, op) ==
  /\ request[r] # NoRequest
  /\ request[r].op = op
  /\ request' = [request EXCEPT ![r] = NoRequest]

Start(r, read) ==
  /\ request[r] = NoRequest
  /\ Prompt => outbox = {}
  /\ request' = [request EXCEPT ![r] = read]
  /\ UNCHANGED <<booking, active, outbox, told>>

-----------------------------------------------------------------------------
(* Mutant of Conflict: a booking that awaits approval holds no time.         *)
ConflictOfConfirmed(w) ==
  \E i \in Ids : booking[i].status = "confirmed" /\ Overlap(booking[i].window, w)

(* assertNoConflict.                                                         *)
Conflict(w) ==
  \E i \in Ids : booking[i].status \in Active /\ Overlap(booking[i].window, w)

(* createBooking up to its insert.  The book_slot node of a workflow asks    *)
(* for a pending booking, the dashboard for any status and any time.         *)
BeginCreate(r, i, w, status, from) ==
  /\ booking[i].status = "none"
  /\ \A q \in Requests : request[q] # NoRequest => request[q].id # i
  /\ from = "workflow" => status = "pending"
  /\ active
  /\ ~Conflict(w)
  /\ Start(r, [op |-> "create", id |-> i, window |-> w, status |-> status, from |-> from])

(* The insert; the node then tells the customer that the booking is pending. *)
Create(r) ==
  /\ Finish(r, "create")
  /\ LET new == request[r]
     IN /\ booking' = [booking EXCEPT ![new.id] = [status |-> new.status,
                                                   window |-> new.window]]
        /\ outbox' = IF new.from = "workflow"
                     THEN outbox \cup {[id |-> new.id, says |-> "pending"]}
                     ELSE outbox
  /\ UNCHANGED <<active, told>>

-----------------------------------------------------------------------------
(* The moves a seller makes whose calendar only goes forward.                *)
Forward(from, to) ==
  \/ from = "pending" /\ to \in {"confirmed", "cancelled", "completed"}
  \/ from = "confirmed" /\ to \in {"cancelled", "completed"}

(* updateBookingStatus (and cancelBooking): any status from any status.      *)
BeginUpdate(r, i, status) ==
  /\ booking[i].status # "none"
  /\ Reopening \/ Forward(booking[i].status, status)
  /\ Start(r, [op |-> "update", id |-> i, before |-> booking[i].status, status |-> status])

(* Mutant of Notices: only a request that is refused is told.                *)
NoticesOfRefusal(from, to) ==
  {says \in {"confirmed", "cancelled"} : says = to /\ from = "pending"}

(* What the customer is told of a move, by the status that was read.         *)
Notices(from, to) ==
  {says \in {"confirmed", "cancelled"} :
     /\ says = to
     /\ from = "pending" \/ (from = "confirmed" /\ to = "cancelled")}

Update(r) ==
  /\ Finish(r, "update")
  /\ LET change == request[r]
     IN /\ booking' = [booking EXCEPT ![change.id].status = change.status]
        /\ outbox' = outbox \cup {[id |-> change.id, says |-> says] :
                                    says \in Notices(change.before, change.status)}
  /\ UNCHANGED <<active, told>>

-----------------------------------------------------------------------------
(* updateResource and deactivateResource.                                    *)
SetActive(yes) ==
  /\ active' = yes
  /\ UNCHANGED <<booking, request, outbox, told>>

Deliver(m) ==
  /\ m \in outbox
  /\ outbox' = outbox \ {m}
  /\ told' = [told EXCEPT ![m.id] = m.says]
  /\ UNCHANGED <<booking, active, request>>

Next ==
  \/ \E r \in Requests, i \in Ids :
       \/ \E w \in Windows, status \in Status, from \in {"workflow", "dashboard"} :
            BeginCreate(r, i, w, status, from)
       \/ \E status \in Status : BeginUpdate(r, i, status)
  \/ \E r \in Requests : Create(r) \/ Update(r)
  \/ \E yes \in BOOLEAN : SetActive(yes)
  \/ \E m \in outbox : Deliver(m)

Spec == Init /\ [][Next]_vars

-----------------------------------------------------------------------------
(* No time of the resource is promised to two customers ("This time slot is  *)
(* already booked", assertNoConflict).                                       *)
NoDoubleBooking ==
  \A i, j \in Ids :
    /\ i # j
    /\ booking[i].status \in Active
    /\ booking[j].status \in Active
    => ~Overlap(booking[i].window, booking[j].window)

Quiet == outbox = {} /\ \A r \in Requests : request[r] = NoRequest

(* When nothing is under way, what the customer was last told of a booking   *)
(* is so, except that its completion is not announced (the conditions under  *)
(* which updateBookingStatus notifies).  It takes one request at a time,     *)
(* Prompt messages and no Reopening: messages are not awaited in the code,   *)
(* so that of two in a row the older may arrive last, and a booking that is  *)
(* approved after a refusal is confirmed without one.                        *)
ToldTheTruth ==
  Quiet => \A i \in Ids :
             \/ told[i] \in {"nothing", booking[i].status}
             \/ told[i] # "cancelled" /\ booking[i].status = "completed"
=============================================================================
