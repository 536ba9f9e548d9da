---------------------------- MODULE DemoAnalysis ----------------------------
(***************************************************************************)
(* openfrag-analysis: the rounds of a parsed demo that count for the local *)
(* player, and the metrics the rating is computed from.                    *)
(***************************************************************************)
EXTENDS ParsedDemo

CONSTANTS TickRate,     \* the tick rate the demo states, or None
          FullTeam      \* players of a side, five in the code

ASSUME ReasonsAssumption ==
    None \notin {"warmup", "local_player_not_alive", "invalid_team"}

Ok(value) == [ok |-> TRUE, value |-> value]
Refused(why) == [ok |-> FALSE, why |-> why]

-----------------------------------------------------------------------------
(* build_rounds: one ledger entry for every freeze end, with the single    *)
(* round end before the next freeze end.                                   *)

Freezes == demo.freezes

EndsOf(i) ==
    {e \in {Rounds[j] : j \in DOMAIN Rounds} :
        /\ e.tick > Freezes[i].tick
        /\ i < Len(Freezes) => e.tick < Freezes[i + 1].tick}

EndOf(i) == CHOOSE e \in EndsOf(i) : TRUE

Exclusion(i) ==
    LET state == SnapshotAt(Local, Freezes[i].tick)
    IN  IF Freezes[i].warmup THEN "warmup"
        ELSE IF state.alive # TRUE THEN "local_player_not_alive"
        ELSE IF state.team \notin Sides THEN "invalid_team"
        ELSE None

CountsOneRound(i) ==
    SnapshotAt(Local, EndOf(i).tick).counter = SnapshotAt(Local, Freezes[i].tick).counter + 1

Ledger(i) == [freeze |-> Freezes[i].tick, end |-> EndOf(i).tick, winner |-> EndOf(i).winner,
              team |-> SnapshotAt(Local, Freezes[i].tick).team,
              eligible |-> Exclusion(i) = None]

BuildRounds ==
    IF \E i \in DOMAIN Freezes :
          \/ Cardinality(EndsOf(i)) # 1
          \/ Exclusion(i) = None /\ ~CountsOneRound(i)
          \/ EndOf(i).winner = None
      THEN Refused("malformed_evidence")
    ELSE IF Len(Rounds) # Len(Freezes) THEN Refused("malformed_evidence")
    ELSE IF Freezes = <<>> THEN Refused("missing_required_stream")
    ELSE Ok([i \in DOMAIN Freezes |-> Ledger(i)])

-----------------------------------------------------------------------------
(* score_round: what the local player did between freeze end and round end,*)
(* both ticks included.  Flash assists, the one field with an assister,    *)
(* are left out.                                                           *)

(* Mutant: the events since the last round end, not since the freeze end.  *)
WithinFromEnd(round) ==
    LET past == {0} \cup {Rounds[j].tick : j \in {k \in DOMAIN Rounds : Rounds[k].tick < round.end}}
    IN  {i \in DOMAIN demo.events : demo.events[i].tick \in Max(past) + 1..round.end}
Within(round) == {i \in DOMAIN demo.events : demo.events[i].tick \in round.freeze..round.end}
Deaths(round) == {i \in Within(round) : demo.events[i].kind = "player_death"}
Hurts(round) == {i \in Within(round) : /\ demo.events[i].kind = "player_hurt"
                                       /\ demo.events[i].attacker = Local}

E(i) == demo.events[i]

(* As the snapshot of the packet has it: a team left out is not the other's*)
TeamAt(p, tick) == SnapshotAt(p, tick).team
Opposed(a, b, tick) == TeamAt(a, tick) # TeamAt(b, tick)
BothTold(a, b, tick) == TeamAt(a, tick) # None /\ TeamAt(b, tick) # None

Least(a, b) == IF a < b THEN a ELSE b

(* Damage counts up to the victim's health after the packet: nothing of a  *)
(* hit that killed.                                                        *)
Scored(i) == IF E(i).victim # Local /\ Opposed(Local, E(i).victim, E(i).tick)
               THEN Least(E(i).reported, SnapshotAt(E(i).victim, E(i).tick).health)
               ELSE 0

Utility(i) == E(i).weapon \in {"hegrenade", "inferno", "molotov", "incgrenade"}

Killed(round) == {i \in Deaths(round) : /\ E(i).attacker = Local
                                        /\ Opposed(Local, E(i).victim, E(i).tick)}
Died(round) == {i \in Deaths(round) : E(i).victim = Local}

(* The first death of the round that one side inflicts on the other.       *)
Duels(round) == {i \in Deaths(round) : /\ E(i).attacker \notin {None, E(i).victim}
                                       /\ BothTold(E(i).attacker, E(i).victim, E(i).tick)
                                       /\ Opposed(E(i).attacker, E(i).victim, E(i).tick)}
Opening(round) == LET duels == Duels(round) IN {i \in duels : \A j \in duels : i <= j}

(* A kill of whoever killed a team mate at most TradeWindow ticks before;  *)
(* nobody asks whose side the victim is on.                                *)
Trades(round) ==
    LET deaths == Deaths(round)
    IN  {i \in deaths : /\ E(i).attacker = Local
                        /\ \E j \in deaths :
                              /\ E(j).tick <= E(i).tick
                              /\ E(i).tick - E(j).tick <= TradeWindow
                              /\ E(j).attacker = E(i).victim
                              /\ E(j).victim # None
                              /\ TeamAt(E(j).victim, E(j).tick) = round.team}

(* A clutch opportunity: team mates and enemies are told apart by the team *)
(* the participants end the demo with.  Whoever is not told is not alive,  *)
(* but of the local player it must be told.                                *)
AliveAt(p, tick) == SnapshotAt(p, tick).alive = TRUE
MatesAlive(team, tick) == {p \in Players \ {Local} : Participants[p] = team /\ AliveAt(p, tick)}
EnemiesAlive(team, tick) == {p \in Players : /\ Participants[p] \in Sides \ {team}
                                             /\ AliveAt(p, tick)}

ClutchTicks(round) ==
    {tick \in round.freeze..round.end : /\ AliveAt(Local, tick)
                                       /\ MatesAlive(round.team, tick) = {}
                                       /\ EnemiesAlive(round.team, tick) # {}}

Clutch(round) == ClutchTicks(round) # {}

Ones(b) == IF b THEN 1 ELSE 0

Score(round) ==
    [damage |-> MapThenSumSet(Scored, {i \in Hurts(round) : ~Utility(i)}),
     utility |-> MapThenSumSet(Scored, {i \in Hurts(round) : Utility(i)}),
     kills |-> Cardinality(Killed(round)),
     deaths |-> Cardinality(Died(round)),
     wins |-> Ones(\E i \in Opening(round) : E(i).attacker = Local),
     losses |-> Ones(\E i \in Opening(round) : E(i).victim = Local),
     trades |-> Cardinality(Trades(round)),
     clutches |-> Ones(Clutch(round)),
     clutchWins |-> Ones(Clutch(round) /\ round.winner = round.team)]

(* What is missing stops the analysis of the whole demo: the victim of a   *)
(* death, a team of the local player's hits, the local player's liveness   *)
(* before the tick of a clutch. The killer of a death may be missing.      *)
Scorable(round) ==
    /\ \A i \in Deaths(round) : E(i).victim # None
    /\ \A i \in Hurts(round) : BothTold(Local, E(i).victim, E(i).tick)
    /\ \A tick \in round.freeze..round.end :
          \/ SnapshotAt(Local, tick).alive # None
          \/ \E clutch \in ClutchTicks(round) : clutch < tick

-----------------------------------------------------------------------------
(* analyze: the whole demo, or the reason why there is no rating.          *)

Roster(side, tick) == {p \in Players : Participants[p] = side /\ AliveAt(p, tick)}

ShortRounds(rounds) ==
    {i \in DOMAIN rounds : /\ rounds[i].eligible
                           /\ \E side \in Sides :
                                 Cardinality(Roster(side, rounds[i].freeze)) < FullTeam}

Analyze ==
    IF TickRate \in {None, 0} THEN Refused("missing_tick_rate")
    ELSE IF ~ParserAccepts THEN Refused("missing_required_stream")
    ELSE LET built == BuildRounds
             rounds == built.value
         IN  IF ~built.ok THEN built
             ELSE IF \E i \in DOMAIN rounds : rounds[i].eligible /\ ~Scorable(rounds[i])
               THEN Refused("missing_identity_or_state")
               ELSE Ok([rounds |-> rounds,
                        scores |-> [i \in {j \in DOMAIN rounds : rounds[j].eligible}
                                      |-> Score(rounds[i])],
                        imbalanced |-> Cardinality(ShortRounds(rounds)) > 1])
=============================================================================
