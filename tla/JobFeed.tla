------------------------------- MODULE JobFeed -------------------------------
(***************************************************************************)
(* Where the jobs come from, and who is told: refreshes by schedule and    *)
(* from the portal (career-job-refresh.scheduler.ts), the playbook for     *)
(* seekers without matches (career-zero-match.service.ts), the upsert of a *)
(* listing (career-job-upsert.service.ts) and the instant alerts           *)
(* (career-job-alert.service.ts).                                          *)
(*                                                                         *)
(* One tenant with credentials for its sources.  What a listing says is    *)
(* left out, and so are the matching itself (JobMatching) and the messages *)
(* and plans of a seeker (CareerAssistant, SeekerPlans): Seekers are those *)
(* who have completed their profile, did not opt out and have access.      *)
(***************************************************************************)
EXTENDS Integers, Sequences, FiniteSets, FiniteSetsExt

CONSTANTS
  Listings,      \* what the sources list
  Searches,      \* the searches made at the same time: keyword and source
  Seekers,
  Suits,         \* [Seekers -> SUBSET Listings], what is a strong match
  Enough,        \* active jobs that make a playbook search needless, 30
  Top,           \* jobs in an alert, 3
  MaxStarts,     \* bound on refreshes and playbooks
  MaxHours,      \* bound on cooldowns that pass
  MaxDeaths,     \* bound on processes that die
  None

Refreshes == {"schedule", "portal"}
Runs == Refreshes \cup {"playbook"}

VARIABLES
  job,           \* the career_jobs rows, by id
  clock,         \* the time, in starts
  hour,          \* the time, in cooldowns
  run,           \* what each of Runs is doing
  lane,          \* [Runs -> [Searches -> where a search is]]
  known,         \* [Seekers -> the alert state in onboardingData]
  heard,         \* [Seekers -> [Listings -> how often they were told of it]]
  excused,       \* two passes of alerts at a time, or one that died halfway
  deaths

vars == <<job, clock, hour, run, lane, known, heard, excused, deaths>>

-----------------------------------------------------------------------------
(* Rows of before have the id of the source as it is, not source::id.        *)
Row(listing, keyed) ==
  [listing |-> listing, keyed |-> keyed, active |-> TRUE, fresh |-> TRUE, born |-> clock]

NoAlerts == [told |-> {}, last |-> None]

Idle == [phase |-> "idle", since |-> 0, jobs |-> {}, state |-> <<>>, left |-> {}, sent |-> None]

NoLane == [step |-> "done", listing |-> None, row |-> 0]

Active == {i \in DOMAIN job : job[i].active}

Init ==
  /\ clock = 0 /\ hour = 0
  /\ \/ job = <<>>
     \/ \E l \in Listings, keyed \in BOOLEAN : job = <<Row(l, keyed)>>
  /\ run = [r \in Runs |-> Idle]
  /\ lane = [r \in Runs |-> [s \in Searches |-> NoLane]]
  /\ known = [s \in Seekers |-> NoAlerts]
  /\ heard = [s \in Seekers |-> [l \in Listings |-> 0]]
  /\ excused = FALSE
  /\ deaths = 0

-----------------------------------------------------------------------------
Search(r) == lane' = [lane EXCEPT ![r] = [s \in Searches |-> [NoLane EXCEPT !.step = "asks"]]]

(* A refresh: listings that no source has shown for 30 days expire first.  A *)
(* portal refresh is refused while one is running.                           *)
Start(r) ==
  /\ r \in Refreshes
  /\ run[r].phase = "idle" /\ clock < MaxStarts
  /\ clock' = clock + 1
  /\ job' = [i \in DOMAIN job |-> [job[i] EXCEPT !.active = @ /\ job[i].fresh]]
  /\ run' = [run EXCEPT ![r] = [Idle EXCEPT !.phase = "searches", !.since = clock']]
  /\ Search(r)
  /\ UNCHANGED <<hour, known, heard, excused, deaths>>

(* The playbook for a seeker searches when nothing good is on offer for them *)
(* or there are few jobs.                                                    *)
StartPlaybook(seeker) ==
  /\ run["playbook"].phase = "idle" /\ clock < MaxStarts
  /\ \/ \A i \in Active : job[i].listing \notin Suits[seeker]
     \/ Cardinality(Active) < Enough
  /\ clock' = clock + 1
  /\ run' = [run EXCEPT !["playbook"].phase = "searches"]
  /\ Search("playbook")
  /\ UNCHANGED <<job, hour, known, heard, excused, deaths>>

(* A source answers with a listing, or fails.                                *)
Answer(r, s, listing) ==
  /\ lane[r][s].step = "asks"
  /\ lane' = [lane EXCEPT ![r][s] =
                IF listing = None THEN NoLane
                ELSE [step |-> "finds", listing |-> listing, row |-> 0]]
  /\ UNCHANGED <<job, clock, hour, run, known, heard, excused, deaths>>

(* upsert looks for the row by key, then by the id it had of old.            *)
Find(r, s, keyed) ==
  LET l == lane[r][s]
      rows == {i \in DOMAIN job : job[i].listing = l.listing /\ job[i].keyed = keyed}
  IN /\ l.step = IF keyed THEN "finds" ELSE "finds-old"
     /\ lane' = [lane EXCEPT ![r][s] =
                   IF rows # {} THEN [l EXCEPT !.step = "stores", !.row = Min(rows)]
                   ELSE [l EXCEPT !.step = IF keyed THEN "finds-old" ELSE "stores"]]
     /\ UNCHANGED <<job, clock, hour, run, known, heard, excused, deaths>>

(* Mutant of Store: the table has no key that is unique.                     *)
StoreRegardless(r, s) ==
  LET l == lane[r][s]
  IN /\ l.step = "stores"
     /\ job' = IF l.row # 0
               THEN [job EXCEPT ![l.row] =
                       [@ EXCEPT !.keyed = TRUE, !.active = TRUE, !.fresh = TRUE]]
               ELSE Append(job, Row(l.listing, TRUE))
     /\ lane' = [lane EXCEPT ![r][s] = NoLane]
     /\ UNCHANGED <<clock, hour, run, known, heard, excused, deaths>>

(* A row that another search has made meanwhile makes this one skip it.      *)
Store(r, s) ==
  LET l == lane[r][s]
      taken == \E i \in DOMAIN job : job[i].listing = l.listing /\ job[i].keyed
  IN /\ l.step = "stores"
     /\ job' = CASE l.row # 0 ->
                      [job EXCEPT ![l.row] =
                         [@ EXCEPT !.keyed = TRUE, !.active = TRUE, !.fresh = TRUE]]
                 [] l.row = 0 /\ taken -> job
                 [] OTHER -> Append(job, Row(l.listing, TRUE))
     /\ lane' = [lane EXCEPT ![r][s] = NoLane]
     /\ UNCHANGED <<clock, hour, run, known, heard, excused, deaths>>

Searched(r) == run[r].phase = "searches" /\ \A s \in Searches : lane[r][s].step = "done"

(* The playbook tells nobody of what it finds.                               *)
EndPlaybook ==
  /\ Searched("playbook")
  /\ run' = [run EXCEPT !["playbook"] = Idle]
  /\ UNCHANGED <<job, clock, hour, lane, known, heard, excused, deaths>>

(* findJobsCreatedSince and the seekers' profiles, read before the first     *)
(* alert.  A refresh with nothing new has no alerts.                         *)
BeginAlerts(r) ==
  LET new == {i \in Active : job[i].born >= run[r].since}
  IN /\ r \in Refreshes /\ Searched(r)
     /\ run' = [run EXCEPT ![r] =
                  IF new = {} THEN Idle
                  ELSE [@ EXCEPT !.phase = "alerts", !.jobs = new, !.state = known,
                                 !.left = Seekers]]
     /\ excused' = (excused \/ (new # {} /\ \E q \in Refreshes : run[q].phase = "alerts"))
     /\ UNCHANGED <<job, clock, hour, lane, known, heard, deaths>>

(* What is new to a seeker, going by the profile as it was read.             *)
News(r, seeker) ==
  {i \in run[r].jobs \cap Active : job[i].listing \in Suits[seeker]} \ run[r].state[seeker].told

CoolingDown(r, seeker) == run[r].state[seeker].last = hour

Skip(r, seeker) ==
  /\ run[r].phase = "alerts" /\ run[r].sent = None /\ seeker \in run[r].left
  /\ CoolingDown(r, seeker) \/ News(r, seeker) = {}
  /\ run' = [run EXCEPT ![r].left = @ \ {seeker}]
  /\ UNCHANGED <<job, clock, hour, lane, known, heard, excused, deaths>>

(* The best of them go out, or no channel takes the alert.                   *)
Alert(r, seeker, best, delivered) ==
  /\ run[r].phase = "alerts" /\ run[r].sent = None /\ seeker \in run[r].left
  /\ ~CoolingDown(r, seeker) /\ News(r, seeker) # {}
  /\ best \subseteq News(r, seeker) /\ Cardinality(best) = Min({Top, Cardinality(News(r, seeker))})
  /\ run' = IF delivered THEN [run EXCEPT ![r].sent = [seeker |-> seeker, jobs |-> best]]
            ELSE [run EXCEPT ![r].left = @ \ {seeker}]
  /\ heard' = IF ~delivered THEN heard
              ELSE [heard EXCEPT ![seeker] =
                      [l \in Listings |-> @[l] + Cardinality({i \in best : job[i].listing = l})]]
  /\ UNCHANGED <<job, clock, hour, lane, known, excused, deaths>>

(* What the seeker has been told, on top of what the profile said then.      *)
Remember(r) ==
  LET sent == run[r].sent
  IN /\ sent # None
     /\ known' = [known EXCEPT ![sent.seeker] =
                    [told |-> run[r].state[sent.seeker].told \cup sent.jobs, last |-> hour]]
     /\ run' = [run EXCEPT ![r].sent = None, ![r].left = @ \ {sent.seeker}]
     /\ UNCHANGED <<job, clock, hour, lane, heard, excused, deaths>>

EndRefresh(r) ==
  /\ run[r].phase = "alerts" /\ run[r].left = {}
  /\ run' = [run EXCEPT ![r] = Idle]
  /\ UNCHANGED <<job, clock, hour, lane, known, heard, excused, deaths>>

(* The process a run is in dies; the schedule and the portal may be served   *)
(* by different ones.                                                        *)
Die(r) ==
  /\ deaths < MaxDeaths /\ run[r].phase # "idle"
  /\ deaths' = deaths + 1
  /\ run' = [run EXCEPT ![r] = Idle]
  /\ lane' = [lane EXCEPT ![r] = [s \in Searches |-> NoLane]]
  /\ excused' = (excused \/ run[r].sent # None)
  /\ UNCHANGED <<job, clock, hour, known, heard>>

HoursPass ==
  /\ hour < MaxHours
  /\ hour' = hour + 1
  /\ UNCHANGED <<job, clock, run, lane, known, heard, excused, deaths>>

(* 30 days, while nothing runs.                                              *)
MonthPasses ==
  /\ hour < MaxHours /\ \A r \in Runs : run[r].phase = "idle"
  /\ hour' = hour + 1
  /\ job' = [i \in DOMAIN job |-> [job[i] EXCEPT !.fresh = FALSE]]
  /\ UNCHANGED <<clock, run, lane, known, heard, excused, deaths>>

Next ==
  \/ \E r \in Refreshes : Start(r) \/ BeginAlerts(r) \/ Remember(r) \/ EndRefresh(r)
  \/ \E seeker \in Seekers : StartPlaybook(seeker)
  \/ EndPlaybook
  \/ \E r \in Runs, s \in Searches :
       \/ \E listing \in Listings \cup {None} : Answer(r, s, listing)
       \/ \E keyed \in BOOLEAN : Find(r, s, keyed)
       \/ Store(r, s)
  \/ \E r \in Refreshes, seeker \in Seekers :
       \/ Skip(r, seeker)
       \/ \E best \in SUBSET DOMAIN job, delivered \in BOOLEAN : Alert(r, seeker, best, delivered)
  \/ \E r \in Runs : Die(r)
  \/ HoursPass \/ MonthPasses

Spec == Init /\ [][Next]_vars

-----------------------------------------------------------------------------
(* A seeker is not told of the same opening twice, though searches that run  *)
(* at the same time find it together, refreshes overlap and cooldowns end in *)
(* the middle of them; unless two passes of alerts went on at the same time, *)
(* or one was cut after the message and before the note that it was sent.    *)
AlertedOnce == ~excused => \A s \in Seekers, l \in Listings : heard[s][l] <= 1
=============================================================================
