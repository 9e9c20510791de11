SPECIFICATION FairSpec
CONSTANTS
  Chats = {"c1"}
  Tasks = {"t1", "t2"}
  Senders = {"s1"}
  Jobs = {1, 2}
  Questions <- MCQuestions
  Experience = "follow_up_experience"
  Readable <- MCReadable
  Lists <- MCLists
  Rounds = 2
  MaxInterviews = 2
  MaxProfiles = 2
  MaxTroubles = 1
  Retries = 2
  Settings <- MCSettings
  Idle = Idle
INVARIANTS OneMaster CompleteMeansAnswered
PROPERTIES AppliesToListed InterviewKept Onboards
CHECK_DEADLOCK FALSE
