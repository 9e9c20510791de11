SPECIFICATION MCSpec
CONSTANTS
  Modes = {"razorpay", "upi_manual", "both"}
  Subs = {s1, s2}
  Utrs = {t1, t2}
  Links = {l1, l2}
  NoUtr = NoUtr
  NoLink = NoLink
  NoTask = NoTask
  MaxEvents = 2
  MaxCrashes = 1
INVARIANTS ChargedIsServed
PROPERTIES PaidAccessKept UnderReviewEnds
CHECK_DEADLOCK FALSE
