------------------------------ MODULE Baselines -----------------------------
(***************************************************************************)
(* openfrag-domain's personal baselines: which earlier matches a match is  *)
(* compared with, how the matches of an evening form sessions, and when a  *)
(* goal is decided.  Matches are imported in any order.                    *)
(***************************************************************************)
EXTENDS Integers, Sequences, FiniteSets, FiniteSetsExt

CONSTANTS
    Demos,          \* demos in the order of their hashes
    Intervals,      \* Demos -> <<start, end>>, or Absent without a chronology
    Values,         \* ratings, in quarters so that the halves stay whole
    MaxHistory,     \* bound: matches imported
    MinimumMatches, \* BASELINE_MINIMUM_MATCHES
    WindowMatches,  \* BASELINE_WINDOW_MATCHES
    GoalMatches,    \* GOAL_EVALUATION_MATCHES
    SessionGap,     \* SESSION_GAP_MS
    Cutoff,         \* when the match compared with the baseline starts
    GoalCreated,    \* when the goal was created
    Target,         \* the goal's target value
    MaxValue,       \* the top of the scale
    Absent

ASSUME BaselineAssumption ==
    /\ Demos \subseteq Int /\ MaxHistory \in Nat
    /\ \A d \in Demos : Intervals[d] = Absent \/ Intervals[d] \in Int \X Int
    /\ MaxValue \in Nat /\ Values \subseteq 0..MaxValue
    /\ MinimumMatches \in Nat \ {0} /\ WindowMatches \in Nat /\ GoalMatches \in Nat
    /\ SessionGap \in Nat /\ Cutoff \in Int /\ GoalCreated \in Int /\ Target \in Int
    /\ Absent \notin Int /\ Absent \notin Int \X Int
    /\ Absent \notin {"trend", "other_series", "non_canonical", "missing_chronology",
                      "reversed_chronology", "current_or_future", "missing_value",
                      "duplicate_demo", "outside_recent_window"}

VARIABLES
    history,   \* the matches, in the order of their import
    shown      \* what was shown before the last import

baselineVars == <<history, shown>>

-----------------------------------------------------------------------------
(* cohort_reason: the first reason to leave a match out.                   *)

Span(m) == Intervals[m.demo]

(* Mutant: does not look at the cutoff.                                    *)
ReasonAnyTime(m, cutoff) ==
    IF m.kind # "trend" THEN m.kind
    ELSE IF Span(m) = Absent THEN "missing_chronology"
    ELSE IF Span(m)[1] > Span(m)[2] THEN "reversed_chronology" ELSE Absent

Reason(m, cutoff) ==
    IF m.kind # "trend" THEN m.kind          \* series, canonical run, trend rule
    ELSE IF Span(m) = Absent THEN "missing_chronology"
    ELSE IF Span(m)[1] > Span(m)[2] THEN "reversed_chronology"
    ELSE IF cutoff # Absent /\ Span(m)[2] > cutoff THEN "current_or_future"
    ELSE IF m.value = Absent THEN "missing_value"
    ELSE Absent

(* Positions of the history that nothing leaves out.                       *)
Comparable(cutoff) == {i \in DOMAIN history : Reason(history[i], cutoff) = Absent}

(* A stable sort, then the first match of each demo.                       *)
FirstOfDemo(C, Precedes(_, _)) ==
    {i \in C : \A j \in C \ {i} : history[j].demo = history[i].demo =>
        Precedes(i, j) \/ (~Precedes(j, i) /\ i < j)}

(* The first n in the order.                                               *)
FirstN(n, C, Precedes(_, _)) == {i \in C : Cardinality({j \in C : Precedes(j, i)}) < n}

-----------------------------------------------------------------------------
(* build_lens and finalize_baseline: the latest matches first.             *)

(* Mutant: orders the matches by their start.                              *)
LaterStart(i, j) ==
    LET a == history[i]
        b == history[j]
    IN  Span(a)[1] > Span(b)[1] \/ (Span(a)[1] = Span(b)[1] /\ a.demo > b.demo)

Later(i, j) ==
    LET a == history[i]
        b == history[j]
    IN  Span(a)[2] > Span(b)[2] \/ (Span(a)[2] = Span(b)[2] /\ a.demo > b.demo)

Distinct == LET C == Comparable(Cutoff) IN FirstOfDemo(C, Later)
Cohort == LET D == Distinct IN FirstN(WindowMatches, D, Later)

(* The k-th smallest of the values of f.                                   *)
Kth(k, f) ==
    CHOOSE v \in {f[i] : i \in DOMAIN f} :
        /\ Cardinality({i \in DOMAIN f : f[i] < v}) < k
        /\ Cardinality({i \in DOMAIN f : f[i] <= v}) >= k

Median(f) ==
    LET n == Cardinality(DOMAIN f)
    IN  IF n % 2 = 1 THEN Kth((n + 1) \div 2, f)
        ELSE (Kth(n \div 2, f) + Kth(n \div 2 + 1, f)) \div 2

ValuesOf(C) == [i \in C |-> history[i].value]
Distance(x, y) == IF x < y THEN y - x ELSE x - y
InScale(x) == IF x < 0 THEN 0 ELSE IF x > MaxValue THEN MaxValue ELSE x

Stats(values) ==
    IF Cardinality(DOMAIN values) < MinimumMatches THEN Absent
    ELSE LET center == Median(values)
             distances == [i \in DOMAIN values |-> Distance(values[i], center)]
             mad == Median(distances)
         IN  [median |-> center, mad |-> mad,
              lower |-> InScale(center - 2 * mad), upper |-> InScale(center + 2 * mad)]

Baseline ==
    LET cohort == Cohort
        values == ValuesOf(cohort)
    IN  [cohort |-> cohort, stats |-> Stats(values)]

LeftOut(i, cohort) ==
    LET reason == Reason(history[i], Cutoff)
    IN  IF reason # Absent THEN reason
        ELSE IF i \notin Distinct THEN "duplicate_demo"
        ELSE IF i \notin cohort THEN "outside_recent_window" ELSE Absent

-----------------------------------------------------------------------------
(* group_sessions                                                          *)

Dated == {i \in DOMAIN history : Span(history[i]) # Absent /\ Span(history[i])[1] <= Span(history[i])[2]}

Sooner(i, j) ==
    LET a == history[i]
        b == history[j]
    IN  \/ Span(a)[1] < Span(b)[1]
        \/ Span(a)[1] = Span(b)[1] /\ Span(a)[2] < Span(b)[2]
        \/ Span(a)[1] = Span(b)[1] /\ Span(a)[2] = Span(b)[2] /\ a.demo < b.demo

LastOf(C) == CHOOSE i \in C : \A j \in C \ {i} : Sooner(j, i) \/ (~Sooner(i, j) /\ j < i)

Continues(at, session) == at[1] - session.to <= SessionGap

(* A match overlaps the last session, continues it or opens the next one.  *)
Extended(sessions, i) ==
    LET at == Span(history[i])
        n == Len(sessions)
        opened == Append(sessions, [demos |-> {history[i].demo}, from |-> at[1], to |-> at[2]])
        joined == [sessions EXCEPT ![n].demos = @ \cup {history[i].demo}, ![n].to = at[2]]
    IN  IF n = 0 THEN opened
        ELSE IF at[1] <= sessions[n].to THEN sessions
        ELSE IF Continues(at, sessions[n]) THEN joined ELSE opened

(* One match at a time, by start.                                          *)
Grouped[C \in SUBSET Dated] ==
    IF C = {} THEN <<>> ELSE Extended(Grouped[C \ {LastOf(C)}], LastOf(C))

Sessions == Grouped[Dated]

-----------------------------------------------------------------------------
(* evaluate_goal: the first matches after the goal was created.            *)

(* No cutoff: what starts after the goal's creation counts.                *)
Future == {i \in Comparable(Absent) : Span(history[i])[1] > GoalCreated}
Qualifying == LET C == Future IN FirstOfDemo(C, Sooner)
Evaluated == LET Q == Qualifying IN FirstN(GoalMatches, Q, Sooner)

GoalStatus ==
    LET values == ValuesOf(Evaluated)
    IN  IF Cardinality(DOMAIN values) < GoalMatches THEN "in_progress"
        ELSE IF Median(values) >= Target THEN "achieved" ELSE "not_achieved"

-----------------------------------------------------------------------------
(* Imports. A demo has at most one canonical run, but may be imported and  *)
(* analysed again.                                                         *)

Matches == [demo : Demos, kind : {"trend"}, value : Values]
           \cup [demo : Demos, kind : {"other_series", "non_canonical"}, value : {Absent}]

Showing == [baseline |-> Baseline, goal |-> GoalStatus, evaluated |-> Evaluated,
            sessions |-> Sessions]

BaselineInit == history = <<>> /\ shown = Absent

Import(m) ==
    /\ Len(history) < MaxHistory
    /\ m.kind # "non_canonical" => \A i \in DOMAIN history :
           history[i].demo = m.demo => history[i].kind = "non_canonical"
    /\ history' = Append(history, m)
    /\ shown' = Showing

BaselineNext == \E m \in Matches : Import(m)

BaselineSpec == BaselineInit /\ [][BaselineNext]_baselineVars

-----------------------------------------------------------------------------

(* A baseline is made of the latest matches that ended no later than the   *)
(* cutoff: every match of the history is in it or has one reason not to    *)
(* be, none that is left out for its age is later than one that counts,    *)
(* and half of them lie within the deviation of the median (build_lens,    *)
(* finalize_baseline).                                                     *)
BaselineIsRecent ==
    LET baseline == Baseline
        cohort == baseline.cohort
        stats == baseline.stats
        near == {i \in cohort : Distance(history[i].value, stats.median) <= stats.mad}
    IN  /\ \A i \in DOMAIN history : (i \in cohort) = (LeftOut(i, cohort) = Absent)
        /\ \A i \in cohort : /\ Span(history[i])[2] <= Cutoff
                             /\ \A j \in DOMAIN history :
                                    LeftOut(j, cohort) = "outside_recent_window" =>
                                        Span(history[i])[2] >= Span(history[j])[2]
        /\ stats # Absent => /\ stats.lower <= stats.median /\ stats.median <= stats.upper
                           /\ 2 * Cardinality(near) >= Cardinality(cohort)

(* What is imported later does not rewrite what is settled: a baseline     *)
(* only changes with a match that ended no later than its cutoff, a        *)
(* decided goal only with a match that was played before the last one it   *)
(* was decided by, and a session only with a match that started at most    *)
(* the gap after its end; sessions stay apart by more than the gap         *)
(* (cohort_reason, evaluate_goal, group_sessions).                         *)
SettledStaysSettled ==
    history # <<>> =>
        LET at == Span(history[Len(history)])
            now == Showing
        IN  /\ at = Absent \/ at[2] > Cutoff => now.baseline = shown.baseline
            /\ shown.goal # "in_progress" /\ now.goal # shown.goal =>
                   \E j \in shown.evaluated : at[1] <= Span(history[j])[1]
            /\ \A n \in DOMAIN shown.sessions :
                   at = Absent \/ at[1] - shown.sessions[n].to > SessionGap =>
                       n \in DOMAIN now.sessions /\ now.sessions[n] = shown.sessions[n]
            /\ \A n \in 1..Len(now.sessions) - 1 :
                   now.sessions[n + 1].from - now.sessions[n].to > SessionGap
=============================================================================
