------------------------------- MODULE MCRules ------------------------------
(***************************************************************************)
(* The rules that are pure functions of their inputs, in one run: a        *)
(* behaviour looks at one of them and leaves the inputs of the others      *)
(* alone.                                                                  *)
(***************************************************************************)
EXTENDS MatchReview, HighlightRules, RatingRules, Baselines, TLC

VARIABLE subject

Subjects == {"review", "candidates", "media", "rating", "baseline"}
MyIntervals == <<<<1, 2>>, <<3, 5>>, <<6, 7>>, <<0, 6>>, <<9, 8>>>>
Symmetry == Permutations(Players \ MyTeam)

allVars == <<vars, ruleVars, ratingVars, baselineVars, subject>>

RulesInit ==
    /\ subject \in Subjects
    /\ Init /\ RuleInit /\ RatingInit /\ BaselineInit
    /\ subject # "review" => ~game.warmup /\ Alive(Local)
    /\ subject # "rating" => metrics.rounds = 12 /\ ~\E f \in DOMAIN flags : flags[f]

Look(s) == subject = s /\ UNCHANGED subject
ButReview == UNCHANGED <<ruleVars, ratingVars, baselineVars>>
ButHighlights == UNCHANGED <<vars, ratingVars, baselineVars>>
ButRating == UNCHANGED <<vars, ruleVars, baselineVars>>
ButBaseline == UNCHANGED <<vars, ruleVars, ratingVars>>

RulesNext ==
    \/ Look("review") /\ Next /\ ButReview
    \/ Look("candidates") /\ CandidateNext /\ ButHighlights
    \/ Look("media") /\ MediaNext /\ ButHighlights
    \/ Look("rating") /\ RatingNext /\ ButRating
    \/ Look("baseline") /\ BaselineNext /\ ButBaseline

RulesSpec == RulesInit /\ [][RulesNext]_allVars
=============================================================================
