SPECIFICATION FairSpec
CONSTANTS
  c1 = c1
  c2 = c2
  m1 = m1
  m2 = m2
  m3 = m3
  From <- Senders
  Keywords <- BookAgain
  Payloads <- Batches
  Settings <- Circumstances
  Contacts = {c1, c2}
  Messages = {m1, m2, m3}
  Hooks = {h1, h2}
  Workers = {w1}
  None = None
  MaxFaults = 1
  MaxExecs = 3
  RetryLimit = 1
INVARIANTS HandledOnce AcknowledgedIsKept
PROPERTIES EveryMessageHeard
CHECK_DEADLOCK FALSE
