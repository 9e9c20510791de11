CONSTANTS
  Settings <- Circumstances
  Contacts = {c1, c2}
  Workers = {w1, w2}
  None = None
  MaxExecs = 3
  MaxMessages = 4
  MaxTaps = 2
  MaxRetries = 1
SPECIFICATION FairSpec
INVARIANTS ActsOnce AnswersFollowQuestions ButtonsWork
PROPERTIES ComesToRest
CHECK_DEADLOCK FALSE
