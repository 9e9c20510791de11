---------------------------- MODULE OfficeParts ----------------------------
(***************************************************************************)
(* Seven of the smaller parts of a seller's office, each on an instance of *)
(* its own.  They share no state: the first state of a behaviour picks the *)
(* part that moves in it, and the variables of the others stay Off.  Their *)
(* constants are parameters, with what OfficeProofs assumes of them.       *)
(* MCOffice adds the parts that are only checked.                          *)
(***************************************************************************)
EXTENDS Integers, Sequences, FiniteSets

CONSTANTS
  Off,           \* the value of what belongs to another part
  None,
  Twins,         \* two of a kind: handlers, deliveries, searches
  Ids, Windows, Requests,                                  \* Bookings
  Listings, Seekers, Suits, Enough, Top, MaxStarts, MaxHours, MaxDeaths,
                                                           \* JobFeed
  Users, Fresh, Passwords, ResetLife, VerifyLife, SessionLife, MustVerify,
  MaxRequests, MaxTime,                                    \* Accounts
  Senders, Careful, PageSize, MaxThread,                   \* Inbox
  Sellers, Trial, Period, Window, Dates, MaxDays, MaxPayments, \* Reminders
  Flows, Resources, Openings, Services, Zone, India, Clock, Texts, MaxTroubles, MaxChanges,
                                                           \* BookingConversation
  Marks, Minute, Reach, Recent, Delays, Minutes, MaxEdits, MaxLost \* Triggers

VARIABLES
  part,                                                    \* the one that moves
  booking, active, request, outbox, told,                  \* Bookings
  job, clock, hour, run, lane, known, heard, excused, deaths, \* JobFeed
  account, links, sessions, handler, requests, time, spent,   \* Accounts
  channel, connected, thread, unread, sender, viewer, seen, late, now, cuts,
                                                           \* Inbox
  today, bill, sweep, due, notices, changed, forgiven, adjusted, payments, outages,
                                                           \* Reminders
  flow, tick, taken, team, status, at, context, shown, chosen, troubles, changes,
                                                           \* BookingConversation
  minute, jobs, check, workflow, editor, starts, ticked, hook, claimed, called, revisions,
  edited, crossed, lost                                    \* Triggers

bookingVars == <<booking, active, request, outbox, told>>
feedVars == <<job, clock, hour, run, lane, known, heard, excused, deaths>>
accountVars == <<account, links, sessions, handler, requests, time, spent>>
inboxVars == <<channel, connected, thread, unread, sender, viewer, seen, late, now, cuts>>
billVars == <<today, bill, sweep, due, notices, changed, forgiven, adjusted, payments, outages>>
talkVars == <<flow, tick, taken, team, status, at, context, shown, chosen, troubles, changes>>
triggerVars == <<minute, jobs, check, workflow, editor, starts, ticked, hook, claimed, called,
                 revisions, edited, crossed, lost>>

-----------------------------------------------------------------------------
(* The bookings of a resource are handled one at a time.                     *)
Book == INSTANCE Bookings WITH NoRequest <- None, Reopening <- FALSE, Prompt <- TRUE

ASSUME BookingConstants ==
  /\ Windows # {} /\ Windows \subseteq [starts : Int, ends : Int]
  /\ \A q, r \in Requests : q = r

(* Jobs for seekers; searches go on at the same time.                        *)
Feed == INSTANCE JobFeed WITH Searches <- Twins

ASSUME FeedConstants ==
  None \notin Listings /\ None \notin [seeker : Seekers, jobs : SUBSET Nat]

(* Somebody registers under an address that an older account may have,       *)
(* spelled otherwise.                                                        *)
Auth == INSTANCE Accounts WITH Handlers <- Twins

ASSUME AccountConstants ==
  /\ Fresh \in Users /\ None \notin [password : Passwords, verified : BOOLEAN]
  /\ ResetLife \in Nat /\ VerifyLife \in Nat /\ SessionLife \in Nat
  /\ MaxRequests \in Nat /\ MaxTime \in Nat

(* A conversation that outgrows its page.                                    *)
Chat == INSTANCE Inbox WITH
  MaxMessages <- MaxThread, shown <- seen, deaths <- cuts

ASSUME InboxConstants == Careful \in Nat \ {0} /\ PageSize \in Nat \ {0}

(* The end of a trial and of paid periods, which are not shorter.            *)
Remind == INSTANCE Reminders WITH
  MaxChanges <- MaxPayments, row <- bill, changes <- payments, deaths <- outages

ASSUME ReminderConstants ==
  /\ Trial \in Nat \ {0} /\ Period \in Nat /\ Trial <= Period
  /\ Window \in Nat /\ MaxDays \in Nat /\ Dates \subseteq 1..(MaxDays + Period)
  /\ None \notin Nat
  /\ None \notin [kind : {"expiring", "expired"}, end : Nat]
  /\ None \notin [seller : Sellers, kind : {"expiring", "expired"}, end : Nat]

(* A customer who taps their way to an appointment.                          *)
Talk == INSTANCE BookingConversation WITH active <- team, Offset <- Zone

(* A flow with a schedule and a token.  The schedule names whole minutes,    *)
(* far enough apart for the ticks of one to be through before the next.      *)
Trigger == INSTANCE Triggers WITH
  Servers <- Twins, Editors <- Twins, Deliveries <- Twins, Slots <- Marks,
  clock <- minute, tick <- check, flow <- workflow, edits <- revisions

ASSUME TriggerConstants ==
  /\ Minute \in Nat \ {0} /\ Reach \in Nat /\ Recent \in Nat /\ Minutes \in Nat
  /\ Reach < 2 * Minute
  /\ 0 \in Delays /\ Delays \subseteq 0..(Minute - 1)
  /\ Marks \subseteq Nat /\ \A s \in Marks : s % Minute = 0
  /\ \A s, r \in Marks : s < r => s + Reach + 2 * Minute + Recent <= r
  /\ MaxEdits \in Nat /\ None \notin Nat
-----------------------------------------------------------------------------
(* The parts that do not move.                                               *)
NoBook ==
  /\ booking = Off /\ active = Off /\ request = Off /\ outbox = Off
  /\ told = Off
NoTalk ==
  /\ flow = Off /\ tick = Off /\ taken = Off /\ team = Off /\ status = Off
  /\ at = Off /\ context = Off /\ shown = Off /\ chosen = Off
  /\ troubles = Off /\ changes = Off
NoFeed ==
  /\ job = Off /\ clock = Off /\ hour = Off /\ run = Off /\ lane = Off
  /\ known = Off /\ heard = Off /\ excused = Off /\ deaths = Off
NoAuth ==
  /\ account = Off /\ links = Off /\ sessions = Off /\ handler = Off
  /\ requests = Off /\ time = Off /\ spent = Off
NoRemind ==
  /\ today = Off /\ bill = Off /\ sweep = Off /\ due = Off /\ notices = Off
  /\ changed = Off /\ forgiven = Off /\ adjusted = Off /\ payments = Off /\ outages = Off
NoChat ==
  /\ channel = Off /\ connected = Off /\ thread = Off /\ unread = Off
  /\ sender = Off /\ viewer = Off /\ seen = Off /\ late = Off /\ now = Off
  /\ cuts = Off
NoTrigger ==
  /\ minute = Off /\ jobs = Off /\ check = Off /\ workflow = Off /\ editor = Off
  /\ starts = Off /\ ticked = Off /\ hook = Off /\ claimed = Off /\ called = Off
  /\ revisions = Off /\ edited = Off /\ crossed = Off /\ lost = Off
NoPart ==
  NoBook /\ NoTalk /\ NoFeed /\ NoAuth /\ NoRemind /\ NoChat /\ NoTrigger

PartsInit ==
  \/ /\ part = "bookings" /\ Book!Init
     /\ NoTalk /\ NoFeed /\ NoAuth /\ NoRemind /\ NoChat /\ NoTrigger
  \/ /\ part = "talk" /\ Talk!Init
     /\ NoBook /\ NoFeed /\ NoAuth /\ NoRemind /\ NoChat /\ NoTrigger
  \/ /\ part = "feed" /\ Feed!Init
     /\ NoBook /\ NoTalk /\ NoAuth /\ NoRemind /\ NoChat /\ NoTrigger
  \/ /\ part = "accounts" /\ Auth!Init
     /\ NoBook /\ NoTalk /\ NoFeed /\ NoRemind /\ NoChat /\ NoTrigger
  \/ /\ part = "reminders" /\ Remind!Init
     /\ NoBook /\ NoTalk /\ NoFeed /\ NoAuth /\ NoChat /\ NoTrigger
  \/ /\ part = "inbox" /\ Chat!Init
     /\ NoBook /\ NoTalk /\ NoFeed /\ NoAuth /\ NoRemind /\ NoTrigger
  \/ /\ part = "triggers" /\ Trigger!Init
     /\ NoBook /\ NoTalk /\ NoFeed /\ NoAuth /\ NoRemind /\ NoChat
  \/ /\ part \notin {"bookings", "talk", "feed", "accounts", "reminders", "inbox", "triggers"}
     /\ NoPart

PartsNext ==
  /\ \/ part = "bookings" /\ Book!Next
        /\ UNCHANGED <<talkVars, feedVars, accountVars, billVars, inboxVars, triggerVars>>
     \/ part = "talk" /\ Talk!Next
        /\ UNCHANGED <<bookingVars, feedVars, accountVars, billVars, inboxVars, triggerVars>>
     \/ part = "feed" /\ Feed!Next
        /\ UNCHANGED <<bookingVars, talkVars, accountVars, billVars, inboxVars, triggerVars>>
     \/ part = "accounts" /\ Auth!Next
        /\ UNCHANGED <<bookingVars, talkVars, feedVars, billVars, inboxVars, triggerVars>>
     \/ part = "reminders" /\ Remind!Next
        /\ UNCHANGED <<bookingVars, talkVars, feedVars, accountVars, inboxVars, triggerVars>>
     \/ part = "inbox" /\ Chat!Next
        /\ UNCHANGED <<bookingVars, talkVars, feedVars, accountVars, billVars, triggerVars>>
     \/ part = "triggers" /\ Trigger!Next
        /\ UNCHANGED <<bookingVars, talkVars, feedVars, accountVars, billVars, inboxVars>>
  /\ UNCHANGED part

partsVars == <<part, bookingVars, talkVars, feedVars, accountVars, billVars, inboxVars, triggerVars>>

PartsSpec == PartsInit /\ [][PartsNext]_partsVars

-----------------------------------------------------------------------------
(* What their modules say of them.                                           *)
NoDoubleBooking == part = "bookings" => Book!NoDoubleBooking
ToldTheTruth == part = "bookings" => Book!ToldTheTruth
PeriodWasChosen == part = "talk" => Talk!PeriodWasChosen
AlwaysAWay == part = "talk" => Talk!AlwaysAWay
AlertedOnce == part = "feed" => Feed!AlertedOnce
OldLinksAreDead == part = "accounts" => Auth!OldLinksAreDead
ToldExactlyOnce == part = "reminders" => Remind!ToldExactlyOnce
InboxIsRight == part = "inbox" => Chat!InboxIsRight
StartedAsDue == part = "triggers" => Trigger!StartedAsDue
=============================================================================
