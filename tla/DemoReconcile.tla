---------------------------- MODULE DemoReconcile ---------------------------
(***************************************************************************)
(* openfrag-pipeline's reconciliation: what the demo says of a provisional *)
(* candidate, round by round.  A decision is made from whatever evidence   *)
(* the demo holds; what it lacks makes the decision partial.               *)
(***************************************************************************)
EXTENDS ParsedDemo

CONSTANT Milestone   \* enemy kills that make a multikill, 3 in the code

ASSUME MilestoneAssumption == Milestone \in Nat

-----------------------------------------------------------------------------
(* final_labels                                                            *)

FinalLabels(kills, opponents, won, knife) ==
    (IF kills >= Milestone + 2 THEN {"ace"}
     ELSE IF kills = Milestone + 1 THEN {"four_kill"}
     ELSE IF kills = Milestone THEN {"multikill"} ELSE {})
    \cup (IF won /\ opponents >= 2 THEN {"clutch"} ELSE {})
    \cup (IF knife THEN {"knife"} ELSE {})

-----------------------------------------------------------------------------
(* evaluate: the deaths between the end of the previous round and the end  *)
(* of this one.                                                            *)

PreviousEnd(r) == IF r = 1 THEN 0 ELSE Rounds[r - 1].tick

LocalKills(r) ==
    {i \in DOMAIN demo.events : LET e == demo.events[i] IN
        /\ e.kind = "player_death" /\ e.attacker = Local
        /\ e.tick > PreviousEnd(r) /\ e.tick <= Rounds[r].tick}

Nameless(r) == {i \in LocalKills(r) : demo.events[i].victim = None}

(* A team the snapshot lacks is taken from the participants.               *)
LikelyTeam(p, tick) == LET team == SnapshotAt(p, tick).team
                       IN  IF team = None THEN Participants[p] ELSE team

EnemyKills(r) ==
    {i \in LocalKills(r) : LET e == demo.events[i] IN
        /\ e.victim # None
        /\ LikelyTeam(Local, e.tick) # LikelyTeam(e.victim, e.tick)}

KillsWith(kills, weapon) == {i \in kills : demo.events[i].weapon = weapon}

(* clutch_opponents: the first snapshot that shows the local player alone  *)
(* against two or more, unless one before it leaves that open.             *)

Told(p, tick) == SnapshotAt(p, tick).team # None /\ SnapshotAt(p, tick).alive # None

Unclear(tick) == \/ ~Told(Local, tick)
                 \/ /\ SnapshotAt(Local, tick).alive = TRUE
                    /\ \E p \in Players : ~Told(p, tick)

MatesAt(tick) == {p \in Players \ {Local} : /\ SnapshotAt(p, tick).alive
                                            /\ SnapshotAt(p, tick).team = SnapshotAt(Local, tick).team}
EnemiesAt(tick) ==
    {p \in Players \ {Local} : /\ SnapshotAt(p, tick).alive
                              /\ SnapshotAt(p, tick).team \in Sides \ {SnapshotAt(Local, tick).team}}

Decides(tick) == \/ Unclear(tick)
                 \/ /\ SnapshotAt(Local, tick).alive
                    /\ MatesAt(tick) = {} /\ Cardinality(EnemiesAt(tick)) >= 2

Decisive(r) == {tick \in PreviousEnd(r) + 1..Rounds[r].tick : Decides(tick)}

(* No opponents stand for no clutch.                                       *)
ClutchOpponents(r) ==
    LET ticks == Decisive(r)
        first == Min(ticks)
        unclear == ticks # {} /\ Unclear(first)
    IN  [unclear |-> unclear,
         number |-> IF ticks = {} \/ unclear THEN 0 ELSE Cardinality(EnemiesAt(first))]

TeamWonRound(r, opponents) ==
    opponents > 0 /\ Rounds[r].winner = LikelyTeam(Local, Rounds[r].tick)

(* Mutant: only a missing victim makes the evidence partial.               *)
PartialVictims(r, kills, clutch) == Nameless(r) # {}

(* The participants' teams are known, so no team is missing where it falls *)
(* back on them.                                                           *)
Partial(r, kills, clutch) ==
    \/ Nameless(r) # {}
    \/ KillsWith(kills, None) # {}
    \/ clutch.unclear
    \/ clutch.number > 0 /\ Rounds[r].winner = None

(* The decision about a candidate linked to round r of the demo.           *)
Evaluate(r) ==
    IF r \notin DOMAIN Rounds
      THEN [decision |-> "unavailable", labels |-> {}, kills |-> 0, complete |-> FALSE]
      ELSE LET kills == EnemyKills(r)
               clutch == ClutchOpponents(r)
               labels == FinalLabels(Cardinality(kills), clutch.number,
                                     TeamWonRound(r, clutch.number),
                                     KillsWith(kills, "knife") # {})
               partial == Partial(r, kills, clutch)
           IN  [decision |-> IF labels # {} THEN "confirm"
                             ELSE IF partial THEN "unavailable" ELSE "reject",
                labels |-> labels, kills |-> Cardinality(kills), complete |-> ~partial]
=============================================================================
