\* Two rounds and a Manual Flag, a restart, one failing call
SPECIFICATION Spec
CONSTANTS
  None = None
  r1 = r1  r2 = r2  f1 = f1
  kill = kill  end1 = end1  end2 = end2  both = both  break = break
  Rounds = {r1, r2}
  Flags = {f1}
  Payloads = {kill, end1, end2, break}
  Breaks = {break}
  Kills <- MCKills
  Ends <- MCEnds
  MaxSession = 2
  MaxOrdinal = 3
  MaxRequests = 3
  MaxFaults = 1
\* The receipts, the requests and the sessions run out
CHECK_DEADLOCK FALSE
INVARIANTS
  RequestedIsDeliverable
  CaptureIsTraceable
  ClipNamesItsCaptures
  OriginIsStored
