----------------------------- MODULE MatchReview ----------------------------
(***************************************************************************)
(* The analysis and the reconciliation of the same demo, compared with     *)
(* what happened in the match.                                             *)
(***************************************************************************)
EXTENDS DemoAnalysis, DemoReconcile

-----------------------------------------------------------------------------
(* What happened in round r, told by the teams and by when it was played.  *)

Of(r) == {i \in DOMAIN truth.events : truth.inRound[i] = r}
T(i) == truth.events[i]

TrueDeaths(r) == {i \in Of(r) : T(i).kind = "player_death"}
EnemyDeaths(r) == {i \in TrueDeaths(r) : /\ T(i).attacker # None
                                         /\ T(i).victim \in Opponents(T(i).attacker)}
MyKills(r) == {i \in EnemyDeaths(r) : T(i).attacker = Local}
MyDeaths(r) == {i \in TrueDeaths(r) : T(i).victim = Local}
FirstDuel(r) == LET duels == EnemyDeaths(r) IN {i \in duels : \A j \in duels : i <= j}

(* A kill of who killed a team mate a moment ago.                          *)
Avenging(r) ==
    LET deaths == EnemyDeaths(r)
    IN  {i \in MyKills(r) :
            \E j \in deaths : /\ j < i /\ T(i).tick - T(j).tick <= TradeWindow
                              /\ T(j).attacker = T(i).victim /\ T(j).victim \in MyTeam}

FriendlyFire(r) == \E i \in TrueDeaths(r) : T(i).attacker = Local /\ T(i).victim \in MyTeam

(* The hits that enemies survived, as of the end of the packet: each takes *)
(* one of their health.                                                    *)
Survived(r) == {i \in Of(r) : /\ T(i).kind = "player_hurt" /\ T(i).victim \notin MyTeam
                              /\ truth.states[T(i).tick].health[T(i).victim] > 0}

Start(r) == CHOOSE i \in Of(r) : T(i).kind = "round_freeze_end"
End(r) == CHOOSE i \in Of(r) : T(i).kind = "round_end"

(* It counts if the local player is alive after the packet that starts it. *)
Played(r) == /\ ~T(Start(r)).warmup
             /\ truth.states[T(Start(r)).tick].health[Local] > 0
Won(r) == T(End(r)).winner = truth.states[T(End(r)).tick].side[Local]

(* The local player stands alone when every team mate is dead and an       *)
(* opponent is not.                                                        *)
Standing(S, tick) == {p \in S : truth.states[tick].health[p] > 0}
AloneAt(tick) == /\ Standing(MyTeam, tick) = {Local}
                 /\ Standing(Players \ MyTeam, tick) # {}
Stands(r) == {tick \in {T(i).tick : i \in Of(r)} : AloneAt(tick)}
Against(r) == LET stands == Stands(r)
              IN  IF stands = {} THEN 0
                  ELSE Cardinality(Standing(Players \ MyTeam, Min(stands)))

(* The labels a round has earned between its freeze end and its end.       *)
Earned(r) == LET kills == MyKills(r)
             IN  FinalLabels(Cardinality(kills), Against(r), Won(r),
                             \E i \in kills : T(i).weapon = "knife")

-----------------------------------------------------------------------------
(* What the demo tells of round r.                                         *)

AttackersTold(r) == \A i \in Of(r) : E(i).attacker = T(i).attacker
LocalKillsTold(r) == \A i \in Of(r) : T(i).attacker = Local => E(i).attacker = Local

FieldTold(tick, field) == \A p \in Players : SnapshotAt(p, tick)[field] # None
StatesTold(r) == \A tick \in Freezes[r].tick..Rounds[r].tick :
                    FieldTold(tick, "team") /\ FieldTold(tick, "alive")

(* The teams of the round are told, or are those of the participants: the  *)
(* sides have not been swapped since.                                      *)
TeamsTold(r) ==
    \/ r > HalfTime \/ Len(Rounds) <= HalfTime
    \/ \A tick \in PreviousEnd(r) + 1..Rounds[r].tick : FieldTold(tick, "team")

-----------------------------------------------------------------------------
(* Of a round whose snapshots and attackers are told, every kill, death    *)
(* and opening duel from the packet of its freeze end to the packet of its *)
(* end is counted, and nothing that was played outside of them; every      *)
(* trade, and nothing but trades if the local player killed no one of its  *)
(* own team; of the damage exactly what enemies survived (score_round).    *)
MetricsCountTheRound ==
    LET review == Analyze IN
    Finished /\ review.ok =>
        \A r \in DOMAIN review.value.rounds : StatesTold(r) =>
            /\ review.value.rounds[r].eligible = Played(r)
            /\ Played(r) /\ AttackersTold(r) =>
                LET score == review.value.scores[r]
                    duel == FirstDuel(r)
                    trades == Cardinality(Avenging(r))
                    survived == Survived(r)
                    thrown == {i \in survived : T(i).weapon = "hegrenade"} IN
                /\ score.kills = Cardinality(MyKills(r))
                /\ score.deaths = Cardinality(MyDeaths(r))
                /\ score.wins = Ones(\E i \in duel : T(i).attacker = Local)
                /\ score.losses = Ones(\E i \in duel : T(i).victim = Local)
                /\ score.trades >= trades
                /\ ~FriendlyFire(r) => score.trades = trades
                /\ score.utility = Cardinality(thrown)
                /\ score.damage = Cardinality(survived \ thrown)

(* A round that earned a label is never rejected as ordinary, whatever     *)
(* victims, weapons, liveness or winner the demo leaves out, as long as it *)
(* tells the local player's kills and does not make the reconciliation     *)
(* guess a team of the other half (evaluate).                              *)
NeverRejectsHighlight ==
    Finished => \A r \in DOMAIN Rounds :
        LocalKillsTold(r) /\ TeamsTold(r) =>
            LET verdict == Evaluate(r)
                earned == Earned(r) IN
            /\ verdict.decision = "reject" => earned = {}
            /\ verdict.complete => earned \cap {"clutch", "knife"} \subseteq verdict.labels

(* docs/openfrag-rating.md:110: a clutch opportunity is a moment when the  *)
(* player is the sole living player of their team.                         *)
ClutchIsOfTheTeam ==
    LET review == Analyze IN
    Finished /\ review.ok =>
        \A r \in DOMAIN review.value.scores : StatesTold(r) =>
            review.value.scores[r].clutches = Ones(Stands(r) # {})
=============================================================================
