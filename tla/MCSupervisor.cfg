\* Three requests, three exits, every file discovery in between
SPECIFICATION FairSpec
CONSTANTS
  Requests = {r1, r2, r3}
  None = None
  RestartDelays <- SmallDelays
  StableAfter = 2
  MaxTime = 3
  MaxExits = 3
\* The requests, the exits and the clock run out, and a supervisor that was shut down stays so
CHECK_DEADLOCK FALSE
INVARIANTS
  DeliveredOwnFile
  CrashLoopIsSlow
PROPERTIES
  ImplementsSaveChannel
  SaveIsAnswered
