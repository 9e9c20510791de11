SPECIFICATION FairSpec
CONSTANTS
  Tasks = {h1, h2}
  NoTask = NoTask
  Settings <- Circumstances
  MaxEvents = 5
  MaxCancels = 1
INVARIANTS AppliedOnce OneTransactionPerPayment SettlesOnProvider
PROPERTIES ChargesRecorded
CHECK_DEADLOCK FALSE
