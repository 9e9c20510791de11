SPECIFICATION Spec
CONSTANTS
  None = None
  Off = Off
  Twins = {t1, t2}
  Ids = {b1, b2, b3}
  Windows <- Hours
  Requests = {r1}
  Listings = {x}
  Seekers = {anna}
  Suits <- SuitEverybody
  Enough = 1
  Top = 1
  MaxStarts = 2
  MaxHours = 1
  MaxDeaths = 1
  Users = {old, new}
  Fresh = new
  Passwords = {p, q}
  ResetLife = 0
  VerifyLife = 0
  SessionLife = 0
  MustVerify = TRUE
  MaxRequests = 3
  MaxTime = 1
  Senders = {m1}
  Careful = 1
  PageSize = 2
  MaxThread = 2
  Sellers = {s1}
  Trial = 2
  Period = 3
  Window = 2
  MaxDays = 7
  Dates = {3, 8}
  MaxPayments = 3
  Flows <- AllFlows
  Resources = {"anna", "bela"}
  Openings <- OpenAt
  Services = {"cut"}
  Zone = 5
  India = 5
  Clock <- MorningAndNight
  Texts <- TomorrowOrNonsense
  MaxTroubles = 1
  MaxChanges = 2
  Marks = {12}
  Minute = 12
  Reach = 18
  Recent = 11
  Delays = {0, 7}
  Minutes = 2
  MaxEdits = 2
  MaxLost = 1
SYMMETRY Symmetry
INVARIANTS MoreNeverHurts NeverWithoutFacts NoDoubleBooking ToldTheTruth PeriodWasChosen AlwaysAWay EverythingOnOffer AlertedOnce OldLinksAreDead  InboxIsRight StartedAsDue
PROPERTIES FeedbackPointsOneWay SetupServes OffersAreRight
CHECK_DEADLOCK FALSE
