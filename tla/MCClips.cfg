\* Two callers and the live runtime on one capture, with one failing statement or restart.
SPECIFICATION Spec
CONSTANTS
  c1 = c1
  c2 = c2
  v1 = v1
  v2 = v2
  t1 = t1
  t2 = t2
  Callers = {c1, c2}
  Live = live
  Videos = {v1}
  Cut <- MCCut
  None = None
  MaxClips = 2
  MaxRevision = 1
  MaxExports = 1
  MaxFaults = 1
SYMMETRY Symmetry
\* The bounds on Clips, revisions, exports and faults run out
CHECK_DEADLOCK FALSE
INVARIANTS
  LiveClipHasFile
  FailedTrimLeavesNothing
PROPERTIES
  RejectionIsFinal
  TrimIsOfCurrentReview
