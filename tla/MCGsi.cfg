\* Two posts at a time beside the poll, one rejected identity, malformed body or failing sink
SPECIFICATION FairSpec
CONSTANTS
  map1 = map1
  map2 = map2
  Payloads <- FewPayloads
  None = None
  Window = 1
  StaleAfter = 2
  MaxTasks = 2
  MaxTime = 2
  MaxReceipts = 3
  MaxFaults = 1
\* The clock, the receipts and the faults run out
CHECK_DEADLOCK FALSE
INVARIANTS
  StaleOncePerOutage
  BaselineIsLastReceipt
  FactsNeedBaseline
PROPERTIES
  OutageIsReported
