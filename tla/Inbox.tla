-------------------------------- MODULE Inbox --------------------------------
(***************************************************************************)
(* One conversation in a seller's inbox: what the seller, a flow or a job  *)
(* of the queue sends (inbox.service.ts), what comes in, and the seller    *)
(* who opens it (inbox.controller.ts).                                     *)
(*                                                                         *)
(* What a message says is left out.  The unit of time is long enough for a *)
(* request to be answered.                                                 *)
(***************************************************************************)
EXTENDS Integers, Sequences, FiniteSets, FiniteSetsExt

CONSTANTS
  Senders,       \* messages that may be on their way at the same time
  Careful,       \* INSTAGRAM_MESSAGING_WINDOW_MS
  PageSize,      \* messages that the portal shows at once, 50
  MaxMessages,   \* bounds
  MaxTime,
  MaxDeaths

VARIABLES
  channel,
  connected,     \* the seller's account with the channel
  thread,        \* the messages rows
  unread,        \* conversations.unread_count
  sender,        \* where each sending is
  viewer,        \* the seller's screen
  shown,         \* messages that the seller has been shown
  late,          \* a message came in while a page was put together
  now,
  deaths

vars == <<channel, connected, thread, unread, sender, viewer, shown, late, now, deaths>>

-----------------------------------------------------------------------------
Kinds == {"text", "document", "buttons", "image", "list", "recorded"}

NoSend == [step |-> "idle", since |-> 0, ok |-> FALSE, queued |-> FALSE]

NoView == [step |-> "idle", page |-> {}]

Incoming == {i \in DOMAIN thread : thread[i].incoming}

Init ==
  /\ channel \in {"whatsapp", "instagram"}
  /\ connected = TRUE
  /\ thread = <<>>
  /\ unread = 0
  /\ sender = [s \in Senders |-> NoSend]
  /\ viewer = NoView
  /\ shown = {}
  /\ late = FALSE
  /\ now = 0
  /\ deaths = 0

-----------------------------------------------------------------------------
(* storeIncomingMessage, one transaction.                                    *)
Store ==
  /\ Len(thread) < MaxMessages
  /\ thread' = Append(thread, [incoming |-> TRUE, at |-> now, sent |-> TRUE])
  /\ unread' = unread + 1
  /\ late' = (late \/ viewer.step = "clears")
  /\ UNCHANGED <<channel, connected, sender, viewer, shown, now, deaths>>

(* isWithinInstagramMessagingWindow, of the last message that came in.       *)
InWindow == Incoming # {} /\ now - thread[Max(Incoming)].at < Careful

(* Mutant of Allowed: the window is looked at for text alone.                *)
AllowedText(kind) ==
  /\ connected
  /\ channel = "instagram" => kind # "document" /\ (kind = "text" => InWindow)

(* What each kind of message asks for first.  Instagram gets text for        *)
(* buttons, lists and images, and no documents; recordBotOutgoing records    *)
(* what a flow has sent by itself.                                           *)
Allowed(kind) ==
  /\ connected
  /\ channel = "instagram" => kind # "document" /\ InWindow

FirstStep(kind) ==
  CASE kind = "document" -> "uploads" [] kind = "recorded" -> "records" [] OTHER -> "calls"

Begin(s, kind, queued) ==
  /\ sender[s].step = "idle"
  /\ queued => kind = "text"
  /\ kind # "recorded" => Allowed(kind)
  /\ Len(thread) < MaxMessages
  /\ sender' = [sender EXCEPT ![s] =
                  [step |-> FirstStep(kind), since |-> now, ok |-> kind = "recorded",
                   queued |-> queued]]
  /\ UNCHANGED <<channel, connected, thread, unread, viewer, shown, late, now, deaths>>

(* A document that cannot be uploaded is not recorded.                       *)
Upload(s, ok) ==
  /\ sender[s].step = "uploads"
  /\ sender' = [sender EXCEPT ![s] = IF ok THEN [@ EXCEPT !.step = "calls"] ELSE NoSend]
  /\ UNCHANGED <<channel, connected, thread, unread, viewer, shown, late, now, deaths>>

(* The channel takes the message or does not: it is recorded in any case.    *)
Call(s, ok) ==
  /\ sender[s].step = "calls"
  /\ sender' = [sender EXCEPT ![s].step = "records", ![s].ok = ok]
  /\ UNCHANGED <<channel, connected, thread, unread, viewer, shown, late, now, deaths>>

(* persistOutgoingMessage.                                                   *)
Record(s) ==
  /\ sender[s].step = "records"
  /\ thread' = Append(thread, [incoming |-> FALSE, at |-> now, sent |-> sender[s].ok])
  /\ sender' = [sender EXCEPT ![s] = NoSend]
  /\ UNCHANGED <<channel, connected, unread, viewer, shown, late, now, deaths>>

(* A server that dies takes the sending with it; the queue tries again.      *)
Die(s) ==
  /\ sender[s].step # "idle" /\ deaths < MaxDeaths
  /\ deaths' = deaths + 1
  /\ sender' = [sender EXCEPT ![s] =
                  IF sender[s].queued THEN [@ EXCEPT !.step = "again"] ELSE NoSend]
  /\ UNCHANGED <<channel, connected, thread, unread, viewer, shown, late, now>>

Retry(s) ==
  /\ sender[s].step = "again"
  /\ sender' = [sender EXCEPT ![s] =
                  IF Allowed("text") THEN [@ EXCEPT !.step = "calls", !.since = now] ELSE NoSend]
  /\ UNCHANGED <<channel, connected, thread, unread, viewer, shown, late, now, deaths>>

-----------------------------------------------------------------------------
(* Opening the conversation: a page, the oldest messages first, and then     *)
(* nothing is unread, whichever page it was.                                 *)
Page(n) == {i \in DOMAIN thread : PageSize * (n - 1) < i /\ i <= PageSize * n}

View(n) ==
  /\ viewer = NoView
  /\ n > 1 => Page(n) # {}
  /\ viewer' = [step |-> "clears", page |-> Page(n)]
  /\ UNCHANGED <<channel, connected, thread, unread, sender, shown, late, now, deaths>>

Clear ==
  /\ viewer.step = "clears"
  /\ unread' = 0
  /\ shown' = shown \cup viewer.page
  /\ viewer' = NoView
  /\ UNCHANGED <<channel, connected, thread, sender, late, now, deaths>>

-----------------------------------------------------------------------------
Connect ==
  /\ connected' = ~connected
  /\ UNCHANGED <<channel, thread, unread, sender, viewer, shown, late, now, deaths>>

Pass ==
  /\ now < MaxTime
  /\ now' = now + 1
  /\ UNCHANGED <<channel, connected, thread, unread, sender, viewer, shown, late, deaths>>

Next ==
  \/ Store \/ Clear \/ Connect \/ Pass
  \/ \E n \in 1..2 : View(n)
  \/ \E s \in Senders :
       \/ \E kind \in Kinds, queued \in BOOLEAN : Begin(s, kind, queued)
       \/ \E ok \in BOOLEAN : Upload(s, ok) \/ Call(s, ok)
       \/ Record(s) \/ Die(s) \/ Retry(s)

-----------------------------------------------------------------------------
(* The badge counts the messages that the seller has not been shown.  It is  *)
(* true of a conversation of one page, unless a message comes in between the *)
(* page and the counter.                                                     *)
UnreadCounts ==
  Len(thread) <= PageSize /\ ~late => unread = Cardinality(Incoming \ shown)

(* "Instagram only allows replies within 24 hours of the customer's last     *)
(* message": nothing is handed to Instagram outside of it, whatever it was   *)
(* to begin with, unless the time runs out while it is handed over.          *)
WindowKept ==
  channel = "instagram" =>
    \A s \in Senders : sender[s].step = "calls" /\ sender[s].since = now => InWindow

InboxIsRight == UnreadCounts /\ WindowKept
=============================================================================
