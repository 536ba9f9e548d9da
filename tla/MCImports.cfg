\* Two imports of one demo, two builds of the analyser, two failing calls or restarts
SPECIFICATION Spec
CONSTANTS
  None = None
  w1 = w1  w2 = w2
  d1 = d1
  j1 = j1  j2 = j2
  b1 = b1  b2 = b2
  local = local  other = other
  Workers <- MCWorkers
  Demos = {d1}
  JobIds <- MCJobIds
  Builds <- MCBuilds
  Players <- MCPlayers
  Local = local
  Roster <- MCRoster
  Parses <- MCParses
  Candidates = 1
  LeaseTime = 0
  MaxTime = 1
  MaxFaults = 2
SYMMETRY MCSymmetry
\* Every job is finished and the faults run out
CHECK_DEADLOCK FALSE
INVARIANTS
  CanonicalIsAnalysed
  SucceededImportIsComplete
  RosterIsComplete
PROPERTIES
  AnalysedOnce
  ImplementsJobs
