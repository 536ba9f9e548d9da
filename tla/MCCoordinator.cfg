\* Two rounds and one Manual Flag; two store or recorder calls may fail, retries are asked for
SPECIFICATION FairSpec
CONSTANTS
  r1 = r1
  r2 = r2
  Rounds = {r1, r2}
  Flags = {f1}
  Receipts <- SmallReceipts
  None = None
  PostRoll = 2
  Lag = 1
  MaxTime = 3
  MaxFaults = 2
  FaultKinds = {"store", "recorder"}
  Retries = TRUE
\* The clock and the receipts run out
CHECK_DEADLOCK FALSE
INVARIANTS
  SavedOnce
  AckIsRecorded
PROPERTIES
  CancelledIsNeverSaved
  ScheduledIsDecided
  RequestedBecomesClip
