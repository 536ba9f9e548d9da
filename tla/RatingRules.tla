----------------------------- MODULE RatingRules ----------------------------
(***************************************************************************)
(* openfrag-domain's rating: six components in exact fractions, their      *)
(* weighted sum in basis points, and when a match is rated at all.         *)
(***************************************************************************)
EXTENDS Integers, Sequences, FiniteSets

CONSTANTS
    RoundCounts,   \* the eligible rounds of the matches considered
    MaxMetric      \* bound: plays of a match that are scored

ASSUME RatingAssumption == RoundCounts \subseteq Nat /\ MaxMetric \in Nat

VARIABLES
    metrics,  \* the counts of the local player's match
    flags     \* its irregularities, and whether its evidence is complete

ratingVars == <<metrics, flags>>

-----------------------------------------------------------------------------
(* Exact fractions <<n, d>>, reduced, d > 0.                               *)

Magnitude(x) == IF x < 0 THEN -x ELSE x

Gcd[p \in Nat \X Nat] == IF p[2] > 0 THEN Gcd[<<p[2], p[1] % p[2]>>]
                         ELSE IF p[1] > 0 THEN p[1] ELSE 1

Fraction(n, d) == LET g == Gcd[<<Magnitude(n), d>>]
                  IN  <<IF n < 0 THEN -(Magnitude(n) \div g) ELSE n \div g, d \div g>>

Plus(x, y) == Fraction(x[1] * y[2] + y[1] * x[2], x[2] * y[2])
Times(x, y) == Fraction(x[1] * y[1], x[2] * y[2])
AtMost(x, y) == x[1] * y[2] <= y[1] * x[2]

Zero == <<0, 1>>
Half == <<1, 2>>
One == <<1, 1>>

Clamped(x) == IF AtMost(x, Zero) THEN Zero ELSE IF AtMost(One, x) THEN One ELSE x

(* Half up; only for what is not negative.                                 *)
Rounded(x) == (2 * x[1] + x[2]) \div (2 * x[2])

-----------------------------------------------------------------------------
(* component_vector and weighted_rating                                    *)

Share(won, total) == IF total = 0 THEN Half ELSE Fraction(won, total)

(* Mutant: trades are counted per kill.                                    *)
TradeRateOfKills(m) == Share(m.trades, m.kills)

TradeRate(m) == Clamped(Fraction(2 * m.trades, m.rounds))

Components(m) ==
    [damage   |-> Clamped(Fraction(m.damage, 160 * m.rounds)),
     frags    |-> Clamped(Plus(Half, Fraction(m.kills - m.deaths, 2 * m.rounds))),
     openings |-> Share(m.wins, m.wins + m.losses),
     trades   |-> TradeRate(m),
     utility  |-> Plus(Times(Clamped(Fraction(m.utility, 30 * m.rounds)), <<7, 10>>),
                       Times(Clamped(Fraction(2 * m.flashes, m.rounds)), <<3, 10>>)),
     clutches |-> Share(m.clutchWins, m.clutches)]

Weighted(c) ==
    LET sum == Plus(Plus(Plus(Times(c.damage, <<3, 10>>), Times(c.frags, <<3, 10>>)),
                         Plus(Times(c.openings, <<3, 20>>), Times(c.trades, <<1, 10>>))),
                    Plus(Times(c.utility, <<1, 10>>), Times(c.clutches, <<1, 20>>)))
    IN  Times(sum, <<2, 1>>)

BasisPoints(m) == Rounded(Times(Weighted(Components(m)), <<10000, 1>>))

-----------------------------------------------------------------------------
(* calculate_rating: unavailable, a preview, or rated.                     *)

Unavailable(m, f) ==
    \/ f.missingEvidence \/ f.evidenceFailure \/ f.forfeit
    \/ m.rounds < 8

Preview(m, f) == m.rounds < 12 \/ f.missedRound \/ f.surrender

Status(m, f) == IF Unavailable(m, f) THEN "unavailable"
                ELSE IF Preview(m, f) THEN "preview" ELSE "rated"

TrendEligible(m, f) == Status(m, f) = "rated" /\ ~f.imbalanced

Rating(m, f) == IF Status(m, f) = "unavailable" THEN -1 ELSE BasisPoints(m)

-----------------------------------------------------------------------------
(* A match: its plays are counted one after the other.                     *)

Counts == {"damage", "kills", "deaths", "wins", "losses", "trades", "utility", "flashes",
           "clutchWins", "clutches"}

RatingInit ==
    /\ \E rounds \in RoundCounts :
           metrics = [c \in Counts \cup {"rounds", "plays"} |-> IF c = "rounds" THEN rounds ELSE 0]
    /\ \E broken \in {"none", "missingEvidence", "evidenceFailure", "forfeit", "missedRound",
                      "surrender", "imbalanced"} :
           flags = [f \in {"missingEvidence", "evidenceFailure", "forfeit", "missedRound",
                           "surrender", "imbalanced"} |-> f = broken]

(* What one play adds to the counts.                                       *)
Play(gain) ==
    /\ metrics.plays < MaxMetric
    /\ metrics' = [c \in DOMAIN metrics |->
                      IF c \in DOMAIN gain THEN metrics[c] + gain[c]
                      ELSE IF c = "plays" THEN metrics.plays + 1 ELSE metrics[c]]
    /\ UNCHANGED flags

Hit == Play([damage |-> 160])
Burn == Play([utility |-> 30])
Frag == Play([kills |-> 1])
TradeFrag == Play([kills |-> 1, trades |-> 1])
OpeningFrag == Play([kills |-> 1, wins |-> 1])
Death == Play([deaths |-> 1])
OpeningDeath == Play([deaths |-> 1, losses |-> 1])
Flash == Play([flashes |-> 1])
ClutchLost == Play([clutches |-> 1])
ClutchWon == Play([clutches |-> 1, clutchWins |-> 1])

Gains == Hit \/ Burn \/ Frag \/ TradeFrag \/ OpeningFrag \/ Flash \/ ClutchWon
Losses == Death \/ OpeningDeath \/ ClutchLost

RatingNext == Gains \/ Losses

RatingSpec == RatingInit /\ [][RatingNext]_ratingVars

-----------------------------------------------------------------------------

(* A play in the player's favour never lowers the rating and a play        *)
(* against them never raises it, through every clamp and rounding, and no  *)
(* play decides whether the match is rated or enters a trend               *)
(* (component_vector, weighted_rating, calculate_rating).                  *)
PlaysCountTheirWay ==
    [][/\ Gains => Rating(metrics', flags') >= Rating(metrics, flags)
       /\ Losses => Rating(metrics', flags') <= Rating(metrics, flags)
       /\ TrendEligible(metrics', flags') = TrendEligible(metrics, flags)]_ratingVars
=============================================================================
