------------------------------ MODULE MCOffice ------------------------------
(***************************************************************************)
(* The parts of OfficeParts and four more, on the same terms: as long as   *)
(* one of these moves, all of those are Off, and the other way round, so a *)
(* behaviour of this module is one of PartsSpec.                           *)
(***************************************************************************)
EXTENDS OfficeParts, FiniteSetsExt, TLC

VARIABLES
  seeker, prefs, dismissals, edition, table, matching,     \* JobMatching
  scope, category, cases, row, setup, talk, messages,      \* WorkflowSetup
  zone, schedule, ticks, bookings, asked, offered,         \* SlotEngine
  site, shelf, product, media, access, page, progress, node, memory, buttons, order, wanted,
  edits, written, losses                                   \* Storefront

matchingVars == <<seeker, prefs, dismissals, edition, table, matching>>
setupVars == <<scope, category, cases, row, setup, talk, messages>>
slotVars == <<zone, schedule, ticks, bookings, asked, offered>>
shopVars == <<site, shelf, product, media, access, page, progress, node, memory, buttons, order,
              wanted, edits, written, losses>>

-----------------------------------------------------------------------------
(* Matching seekers with jobs.                                               *)
Unknown == -1
Job(title, company, must, nice) ==
  [title |-> title, company |-> company, must |-> must, nice |-> nice, says |-> must,
   minExp |-> 2, maxExp |-> 6, rank |-> 1, minPay |-> 100, maxPay |-> 160,
   mode |-> "onsite", city |-> "bengaluru", notice |-> 30]

(* A database job with something nice to have, a remote one by the same      *)
(* employer that asks for more, and one that gives next to no facts.         *)
ThreeListings == <<
  Job(<<"database", "engineer">>, "acme", {"postgresql", "docker"}, {"git"}),
  [Job(<<"data", "analyst">>, "acme", {"sql"}, {}) EXCEPT
     !.mode = "remote", !.city = "remote", !.rank = 2, !.minExp = 6, !.maxExp = 12],
  [Job(<<"platform", "engineer">>, "initech", {}, {"kubernetes"}) EXCEPT
     !.city = "delhi", !.minPay = Unknown, !.maxPay = Unknown, !.notice = Unknown]>>

Seeker(skills, roles, places, years, work) ==
  [skills |-> skills, roles |-> roles, places |-> places, years |-> years, work |-> work,
   salary |-> 150, notice |-> 60]

SomeSeekers == {
  Seeker({"mysql"}, {<<"backend", "engineer">>}, {"bangalore"}, 4, "onsite"),
  Seeker({"excel", "aws"}, {<<"data", "analyst">>}, {"pune"}, 12, "remote"),
  [Seeker({}, {}, {}, 1, "hybrid") EXCEPT !.salary = Unknown, !.notice = Unknown]}

MoreSkills == {"postgresql", "docker"}
MorePlaces == {"bengaluru"}
MoreRoles == {<<"database", "engineer">>}

(* SKILL_RELATED and SKILL_CATEGORIES, of the skills above.                  *)
RelatedSkills == [postgresql |-> {"sql", "mysql"}, docker |-> {"kubernetes", "linux", "aws"},
                  git |-> {}, sql |-> {}, kubernetes |-> {"docker", "aws"}]
Kinds == {{"aws", "docker", "kubernetes", "linux"},
          {"python", "sql", "postgresql", "mongodb", "excel"}}
Names == {<<"bangalore", "bengaluru">>}

(* An AI that counts skills.                                                 *)
Counting(s, j) == Min({100, 30 * Cardinality(s.skills) + 10 * j})

Matching == INSTANCE JobMatching WITH
  Listings <- ThreeListings, Seekers <- SomeSeekers, Skills <- MoreSkills,
  Related <- RelatedSkills, Categories <- Kinds, Near <- Names, Places <- MorePlaces,
  Roles <- MoreRoles, AiScore <- Counting, TopN <- 2, MaxAdjust <- 15,
  KeptCompanies <- 1, KeptTokens <- 3, Matchers <- {"m1"}, MaxEditions <- 2

(* About the profile alone, so it is looked at before anything is learned;    *)
(* and about what is learned alone.                                           *)
MoreNeverHurts ==
  part = "matching" /\ prefs = Matching!NoPrefs => Matching!MoreNeverHurts
FeedbackPointsOneWay ==
  [][part = "matching" /\ prefs' # prefs => Matching!FeedbackPointsOneWay]_matchingVars

-----------------------------------------------------------------------------
(* Setting up the flows of a business.                                       *)
Flow == INSTANCE WorkflowTemplates

(* Every business and little to do, or one business and more.                *)
BroadAndDeep == {
  [businesses |-> DOMAIN Flow!Verticals, operations |-> 2],
  [businesses |-> {"coaching"}, operations |-> 3]}

(* A booking flow of before the buttons, the empty draft of the editor, and  *)
(* one that runs in a circle.                                                *)
FreeText == Flow!Linear(<<Flow!Trigger, Flow!Collect("ask-day", "preferred_date"), Flow!Send("send-1", {"preferred_date"}, {"text"})>>)
EmptyDraft == Flow!Linear(<<Flow!Trigger>>)
Circle == [Flow!Linear(<<Flow!Trigger, Flow!Send("a", {}, {"text"}), Flow!Send("b", {}, {"text"})>>)
             EXCEPT !.edges = @ \cup {<<"b", "a">>}]
SomeDrawings == {FreeText, EmptyDraft, Circle}

Text(words, from) == [words |-> words, channel |-> from]
SomeMessages == {Text({"book", "price", "help"}, "whatsapp"), Text({"hi", "order"}, "whatsapp"),
                 Text({"hours"}, "instagram")}

Setup == INSTANCE WorkflowSetup WITH
  Scopes <- BroadAndDeep, Drawings <- SomeDrawings, Messages <- SomeMessages,
  Rows <- {1, 2, 3}, MaxMessages <- 1

NeverWithoutFacts == part = "setup" => Setup!NeverWithoutFacts
SetupServes == [][part = "setup" => Setup!SetupServes /\ Setup!UpgradeSettles]_setupVars

-----------------------------------------------------------------------------
(* The slots of a day.                                                       *)
HalfHours == 48
Calendar == <<31, 30, 31, 31>>

Fixed(offset) == [before |-> offset, after |-> offset, shift |-> 0]

Kolkata == Fixed(11)

(* Clocks change in the night after the 10th of the second month.            *)
Spring == [before |-> -10, after |-> -8, shift |-> 40 * 48 + 14]
Autumn == [before |-> -8, after |-> -10, shift |-> 40 * 48 + 12]

AnyZone == {Kolkata, Spring, Autumn, Fixed(26)}

OpenFrom == {[start |-> 18, end |-> 21, length |-> 1],
             [start |-> 37, end |-> 42, length |-> 2],
             [start |-> 0, end |-> 47, length |-> 23]}

MidMonth == {[month |-> 2, day |-> 10], [month |-> 2, day |-> 12]}

Slot == INSTANCE SlotEngine WITH
  Months <- Calendar, Units <- HalfHours, Zones <- AnyZone, Schedules <- OpenFrom,
  Dates <- MidMonth, MaxBookings <- 2, MaxTicks <- 3

OffersAreRight == [][part = "slots" => Slot!OfferIsRight]_slotVars

-----------------------------------------------------------------------------
(* The bookings of a resource.                                               *)
(* Two windows that touch and one that overlaps both.                        *)
Hours == {[starts |-> 0, ends |-> 2], [starts |-> 2, ends |-> 4],
          [starts |-> 1, ends |-> 3]}


-----------------------------------------------------------------------------
(* A customer taps their way to an appointment: the template's flow, one     *)
(* without times of day, and one that asks for the day in words.  The first  *)
(* resource is open in the morning and at night.                             *)
Guided == <<"pick-service", "pick-date", "list-resources", "pick-time-period", "list-slots",
            "book-slot">>
Short == <<"pick-service", "pick-date", "list-resources", "list-slots", "book-slot">>
Typed == <<"ask-day", "list-resources", "pick-time-period", "list-slots", "book-slot">>
AllFlows == {Guided, Short, Typed}

OpenAt == [anna |-> {10, 22}, bela |-> {14}]

(* Before noon, and shortly before midnight (5 hours ahead of UTC).          *)
MorningAndNight == <<6, 23>>

TomorrowOrNonsense == {-2, -3}


-----------------------------------------------------------------------------
(* Shops with a page for every product and every category: one with all of   *)
(* it, one with a hidden category, one that has sold out and one that is     *)
(* all categories and nothing in them.                                       *)
Stocked(c) == [category |-> c, active |-> TRUE, stocked |-> TRUE]
Empty(c) == [category |-> c, active |-> TRUE, stocked |-> FALSE]
SomeShelves == {
  [category |-> <<"open", "open">>, product |-> <<Stocked(1), Stocked(1), Stocked(2)>>],
  [category |-> <<"open", "closed">>, product |-> <<Stocked(1), Stocked(2), Stocked(2)>>],
  [category |-> <<"open", "none">>, product |-> <<Empty(0), Empty(0), Stocked(0)>>],
  [category |-> <<"open", "open">>, product |-> <<None, None, None>>]}

Shop == INSTANCE Storefront WITH
  Categories <- 1..2, Products <- 1..3, Media <- {"qr"}, Slugs <- {"shop"},
  Catalogs <- SomeShelves, CategoryPage <- 1, ProductPage <- 1,
  MaxEdits <- 1, MaxMessages <- 2, MaxTroubles <- 1,
  category <- shelf, status <- progress, at <- node, context <- memory, troubles <- losses

EverythingOnOffer == part = "shop" => Shop!EverythingOnOffer
OneOrderEach == part = "shop" => Shop!OneOrderEach

-----------------------------------------------------------------------------
(* Jobs for a seeker; two searches go on at the same time.                   *)
SuitEverybody == [s \in Seekers |-> Listings]


-----------------------------------------------------------------------------
Symmetry == Permutations(Twins)

-----------------------------------------------------------------------------
(* The parts that do not move.                                               *)
NoMatching ==
  /\ seeker = Off /\ prefs = Off /\ dismissals = Off /\ edition = Off
  /\ table = Off /\ matching = Off
NoSetup ==
  /\ scope = Off /\ category = Off /\ cases = Off /\ row = Off /\ setup = Off
  /\ talk = Off /\ messages = Off
NoSlot ==
  /\ zone = Off /\ schedule = Off /\ ticks = Off /\ bookings = Off
  /\ asked = Off /\ offered = Off
NoShop ==
  /\ site = Off /\ shelf = Off /\ product = Off /\ media = Off
  /\ access = Off /\ page = Off /\ progress = Off /\ node = Off /\ memory = Off
  /\ buttons = Off /\ order = Off /\ wanted = Off /\ edits = Off
  /\ written = Off /\ losses = Off

Init ==
  \/ /\ part \in {"bookings", "talk", "feed", "accounts", "reminders", "inbox", "triggers"}
     /\ PartsInit
     /\ NoMatching /\ NoSetup /\ NoSlot /\ NoShop
  \/ /\ part = "matching" /\ Matching!Init
     /\ NoPart /\ NoSetup /\ NoSlot /\ NoShop
  \/ /\ part = "setup" /\ Setup!Init
     /\ NoPart /\ NoMatching /\ NoSlot /\ NoShop
  \/ /\ part = "slots" /\ Slot!Init
     /\ NoPart /\ NoMatching /\ NoSetup /\ NoShop
  \/ /\ part = "shop" /\ Shop!Init
     /\ NoPart /\ NoMatching /\ NoSetup /\ NoSlot

(* The call from outside is made before the first tick is late, or never.    *)
Next ==
  \/ /\ PartsNext
     /\ part = "triggers" /\ minute' > 0 => claimed' = {}
     /\ UNCHANGED <<matchingVars, setupVars, slotVars, shopVars>>
  \/ /\ part = "matching" /\ Matching!Next
     /\ UNCHANGED <<partsVars, setupVars, slotVars, shopVars>>
  \/ /\ part = "setup" /\ Setup!Next
     /\ UNCHANGED <<partsVars, matchingVars, slotVars, shopVars>>
  \/ /\ part = "slots" /\ Slot!Next
     /\ UNCHANGED <<partsVars, matchingVars, setupVars, shopVars>>
  \/ /\ part = "shop" /\ Shop!Next
     /\ UNCHANGED <<partsVars, matchingVars, setupVars, slotVars>>

vars == <<partsVars, matchingVars, setupVars, slotVars, shopVars>>

Spec == Init /\ [][Next]_vars
=============================================================================
