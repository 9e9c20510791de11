SPECIFICATION MCSpec
CONSTANTS
  Users = {u1}
  Subs = {s1, s2}
  Utrs = {t1, t2}
  Tasks = {h1, h2}
  NoTask = NoTask
  NoUser = NoUser
  NoUtr = NoUtr
  MaxCrashes = 1
  MaxEvents = 1
PROPERTIES ReviewIsSound ReviewEnds
CHECK_DEADLOCK FALSE
