\* Two dashboards, two ffprobe paths, the two commands, a failing save and a restart
CONSTANTS
  Clients = {c1, c2}
  Optional = {"gsi", "capture", "manual_flag"}
  Probes = {p1, p2}
  Marker = marker
  None = None
  Down = Down
  MaxRevision = 2
  MaxTokens = 1
  MaxFaults = 2
SPECIFICATION Spec
SYMMETRY Symmetry
\* The bounds on revisions, tokens and faults run out
CHECK_DEADLOCK FALSE
INVARIANTS
  TestedIsConfigured
  AnsweredIsKept
PROPERTIES
  AnsweredIsShown
