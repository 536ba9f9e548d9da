SPECIFICATION FairSpec
CONSTANTS
  Requests = {r1, r2}
  None = None
  RestartDelays <- SmallDelays
  StableAfter = 2
  MaxTime = 3
  MaxExits = 2
\* Requests and exits run out
CHECK_DEADLOCK FALSE
PROPERTIES
  RestartPermitsLaterSaves
