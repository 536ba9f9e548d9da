\* The key is pressed, the portal loses sessions and the daemon restarts until the bounds run out.
CONSTANTS
    MaxPresses = 2
    MaxSessions = 3
    MaxRuns = 2
    Capacity = 1
    Nothing = Nothing
SPECIFICATION PortalFairSpec
\* The presses, the sessions and the runs of the daemon run out
CHECK_DEADLOCK FALSE
INVARIANTS
  OneSessionIsPolled
  TokenIsKept
PROPERTIES
  LossIsNoticed
  StopEnds
