\* Halves of one round: the teams change sides between the two rounds of the match.
CONSTANTS
    Local = l
    Players = {l, m, e, f}
    TeamMates = {m}
    Health = 2
    HalfTime = 1
    MaxRounds = 2
    MaxPlays = 2
    MaxGaps = 0
    None = None
    TradeWindow = 0
    TickRate = 64
    FullTeam = 2
    Milestone = 2
    MergeGap = 1
    Retention = 3
    Budget = 3
    MaxTime = 5
    MaxCandidates = 3
    MaxMedia = 4
    RuleRounds = {1, 2}
    Sizes = {1, 2}
    RoundCounts = {7, 8, 11, 12}
    MaxMetric = 4
    Demos = {1, 2, 3, 4, 5}
    Intervals <- MyIntervals
    Values = {0, 8}
    MaxHistory = 4
    MinimumMatches = 2
    WindowMatches = 2
    GoalMatches = 2
    SessionGap = 1
    Cutoff = 6
    GoalCreated = 1
    Target = 4
    MaxValue = 8
    Absent = Absent
SPECIFICATION RulesSpec
SYMMETRY Symmetry
\* The match ends, and the bounds of the other subjects run out
CHECK_DEADLOCK FALSE
INVARIANT ClutchIsOfTheTeam
