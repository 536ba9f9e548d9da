----------------------------- MODULE ParsedDemo -----------------------------
(***************************************************************************)
(* A match and the parsed demo of it, as the analysis and the              *)
(* reconciliation read it: the events in order, one snapshot of every      *)
(* player after each packet that carried an event, the rounds numbered by  *)
(* their round_end events, and the participants with the one team that the *)
(* parser's roster ends the demo with.                                     *)
(*                                                                         *)
(* The game itself is external: it is modelled as far as the source relies *)
(* on it (sides swap at half time, players may still be killed between the *)
(* end of a round and the next freeze, the local player may join late).    *)
(* A packet may hold several plays, the start of a round with plays after  *)
(* it and the end of a round with plays around it; the source tells the    *)
(* packets apart by their tick only, so a play belongs to a round from the *)
(* packet of its freeze end to the packet of its round end.                *)
(***************************************************************************)
EXTENDS Integers, Sequences, FiniteSets, FiniteSetsExt

CONSTANTS
    Players,        \* everyone on the server
    Local,          \* the player whose demo it is
    TeamMates,      \* the other players of the local player's team
    Health,         \* health of a player at the start of a round
    HalfTime,       \* the number of rounds before the sides are swapped
    MaxRounds,      \* bound: rounds of the match
    MaxPlays,       \* bound: wounds and kills of the match, and gaps in its snapshots
    MaxGaps,        \* bound: fields the demo leaves out
    TradeWindow,    \* five seconds, in ticks
    None

ASSUME PlayersAssumption ==
    /\ Local \in Players /\ TeamMates \subseteq Players \ {Local}
    /\ None \notin Players /\ None \notin {2, 3} /\ None \notin BOOLEAN
    /\ None \notin {"gun", "knife"}
    /\ Health \in Nat \ {0} /\ HalfTime \in Nat
    /\ IsFiniteSet(Players) /\ MaxRounds \in Nat \ {0} /\ TradeWindow \in Nat

VARIABLES
    game,   \* external: phase, round, sides, health and plays so far
    demo,   \* the parsed output: ticks, events and snapshots
    truth   \* the same with nothing left out, and the round of every event,
            \* for the properties only

vars == <<game, demo, truth>>

Sides == {2, 3}
MyTeam == TeamMates \cup {Local}
Opponents(p) == IF p \in MyTeam THEN Players \ MyTeam ELSE MyTeam

Alive(p) == game.health[p] > 0
Living(S) == {p \in S : Alive(p)}

Init ==
    /\ \E warmup, late \in BOOLEAN :
           /\ ~(warmup /\ late)
           /\ game = [phase |-> "freeze", round |-> 1, warmup |-> warmup,
                      side |-> [p \in Players |-> IF p \in MyTeam THEN 2 ELSE 3],
                      health |-> [p \in Players |-> IF late /\ p = Local THEN 0 ELSE Health],
                      plays |-> 0, gaps |-> 0]
    /\ demo = [tick |-> 0, events |-> <<>>, freezes |-> <<>>, rounds |-> <<>>, snapshots |-> <<>>]
    /\ truth = [events |-> <<>>, inRound |-> <<>>, states |-> <<>>]

-----------------------------------------------------------------------------
(* The parse: a packet that carries a requested event ends with a snapshot *)
(* of all players. The demo may leave out a field of an event, or the team *)
(* or the liveness of a player in a snapshot.                              *)

StateGaps == Players \X {"team", "alive"}
EventGaps(fields) == {None} \X fields

(* What the demo leaves out beside so many plays: nothing, or one field.   *)
(* A gap in a snapshot takes the place of a play.                          *)
Gaps(plays, fields) ==
    {{}} \cup {{gap} : gap \in IF game.gaps = MaxGaps THEN {}
                               ELSE IF game.plays + plays = MaxPlays THEN EventGaps(fields)
                               ELSE EventGaps(fields) \cup StateGaps}

(* Either in the latest packet, the same, or in one of its own.            *)
TickOf(same) == IF same THEN demo.tick ELSE demo.tick + 1

Event(kind, tick) == [kind |-> kind, tick |-> tick, attacker |-> None, victim |-> None,
                      reported |-> 0, weapon |-> None, winner |-> None, warmup |-> FALSE]

Seen(field, value, gaps) == IF <<None, field>> \in gaps THEN None ELSE value
EventSeen(e, gaps) == [e EXCEPT !.attacker = Seen("attacker", @, gaps),
                                !.victim = Seen("victim", @, gaps),
                                !.weapon = Seen("weapon", @, gaps),
                                !.winner = Seen("winner", @, gaps)]

StateSeen(p, health, counter, gaps) ==
    [team |-> IF <<p, "team">> \in gaps THEN None ELSE game.side[p],
     alive |-> IF <<p, "alive">> \in gaps THEN None ELSE health[p] > 0,
     health |-> health[p], counter |-> counter]

(* The events that a packet adds, of which the last may have a gap.  They  *)
(* are of the round that is on, if one is.                                 *)
OfTheRound(same) == \/ game.phase # "over"
                    \/ same /\ demo.rounds[Len(demo.rounds)].tick = demo.tick

Packet(same, before, last, health, counter, gaps) ==
    LET tick == TickOf(same)
        seen == EventSeen(last, gaps)
        round == IF OfTheRound(same) THEN game.round ELSE 0
        old == tick - 1
    IN  /\ demo' = [tick |-> tick,
                    events |-> demo.events \o Append(before, seen),
                    freezes |-> IF last.kind = "round_freeze_end"
                                  THEN Append(demo.freezes, seen) ELSE demo.freezes,
                    rounds |-> IF last.kind = "round_end"
                                 THEN Append(demo.rounds, seen) ELSE demo.rounds,
                    snapshots |-> Append(SubSeq(demo.snapshots, 1, old),
                        [p \in Players |-> StateSeen(p, health, counter, gaps)])]
        /\ truth' = [events |-> truth.events \o Append(before, last),
                     inRound |-> truth.inRound \o [i \in 1..Len(before) + 1 |-> round],
                     states |-> Append(SubSeq(truth.states, 1, old),
                                       [health |-> health, side |-> game.side])]

Rounds == demo.rounds
Participants == [p \in Players |-> game.side[p]]

(* The latest snapshot at or before a tick: every event has a tick, the    *)
(* n-th packet is tick n, and it ended with a snapshot.                    *)
SnapshotAt(p, tick) == demo.snapshots[tick][p]

(* What the parser refuses before anything is analysed.                    *)
ParserAccepts ==
    \A kind \in {"round_end", "player_death", "round_freeze_end", "player_hurt"} :
        \E i \in DOMAIN demo.events : demo.events[i].kind = kind

-----------------------------------------------------------------------------
(* The game.                                                               *)

Counter == IF game.phase = "over" THEN game.round ELSE game.round - 1

After(plays, gaps, changed) ==
    game' = [changed EXCEPT !.plays = @ + plays + Cardinality(gaps \cap StateGaps),
                            !.gaps = @ + Cardinality(gaps)]

FreezeEnd(gaps) ==
    /\ game.phase = "freeze"
    /\ After(0, gaps, [game EXCEPT !.phase = "live"])
    /\ Packet(FALSE, <<>>, [Event("round_freeze_end", TickOf(FALSE)) EXCEPT !.warmup = game.warmup],
              game.health, Counter, gaps)

Hurt(tick, victim, reported, weapon) ==
    [Event("player_hurt", tick) EXCEPT !.attacker = Local, !.victim = victim,
                                       !.reported = reported, !.weapon = weapon]

(* Play goes on after a round has ended, until the next freeze.            *)
Playing == /\ game.phase = "live" \/ (game.phase = "over" /\ game.round < MaxRounds)
           /\ game.plays < MaxPlays

(* The local player hurts an enemy without killing them.                   *)
Wound(victim, weapon, same, gaps) ==
    /\ Playing /\ Alive(Local) /\ victim \notin MyTeam /\ game.health[victim] > 1
    /\ LET health == [game.health EXCEPT ![victim] = @ - 1]
       IN  /\ After(1, gaps, [game EXCEPT !.health = health])
           /\ Packet(same, <<>>, Hurt(TickOf(same), victim, 1, weapon), health, Counter, gaps)

(* Someone, or the world, kills a player.  The weapon matters for the      *)
(* local player's kills of enemies alone.  Of a death that another player  *)
(* inflicts the victim is told; their friendly fire is left out.           *)
Kill(attacker, victim, weapon, same, gaps) ==
    /\ Playing /\ Alive(victim)
    /\ attacker # None => Alive(attacker)
    /\ <<None, "attacker">> \in gaps => attacker # None
    /\ attacker # Local \/ victim \in MyTeam => /\ weapon = "gun"
                                              /\ gaps \cap EventGaps({"weapon"}) = {}
    /\ attacker # Local => /\ gaps \cap EventGaps({"victim"}) = {}
                           /\ \/ attacker \in Opponents(victim)
                              \/ attacker = None /\ victim \in MyTeam
    /\ LET health == [game.health EXCEPT ![victim] = 0]
           hurt == Hurt(TickOf(same), victim, Health, weapon)
           death == [Event("player_death", TickOf(same)) EXCEPT
                        !.attacker = attacker, !.victim = victim, !.weapon = weapon]
       IN  /\ After(1, gaps, [game EXCEPT !.health = health])
           /\ Packet(same, IF attacker = Local THEN <<hurt>> ELSE <<>>, death,
                     health, Counter, gaps)

(* A round and the freeze before it last longer than a packet.             *)
RoundEnd(winner, same, gaps) ==
    /\ game.phase = "live"
    /\ same => demo.freezes[Len(demo.freezes)].tick < demo.tick
    /\ After(0, gaps, [game EXCEPT !.phase = "over"])
    /\ Packet(same, <<>>, [Event("round_end", TickOf(same)) EXCEPT !.winner = winner],
              game.health, game.round, gaps)

(* Everybody respawns; at half time the sides are swapped.                 *)
NextRound ==
    /\ game.phase = "over" /\ game.round < MaxRounds
    /\ game' = [game EXCEPT !.phase = "freeze", !.round = @ + 1, !.warmup = FALSE,
                            !.health = [p \in Players |-> Health],
                            !.side = IF game.round = HalfTime THEN [p \in Players |-> 5 - @[p]] ELSE @]
    /\ UNCHANGED <<demo, truth>>

Next ==
    \/ \E gaps \in Gaps(0, {}) : FreezeEnd(gaps)
    \/ /\ Playing
       /\ \E same \in BOOLEAN, victim \in Players, weapon \in {"gun", "hegrenade"},
             gaps \in Gaps(1, {"attacker"}) :
             Wound(victim, weapon, same, gaps)
    \/ /\ Playing
       /\ \E attacker \in Players \cup {None}, victim \in Players, weapon \in {"gun", "knife"},
             same \in BOOLEAN, gaps \in Gaps(1, {"attacker", "victim", "weapon"}) :
             Kill(attacker, victim, weapon, same, gaps)
    \/ \E same \in BOOLEAN, winner \in Sides, gaps \in Gaps(0, {"winner"}) :
           RoundEnd(winner, same, gaps)
    \/ NextRound

MatchSpec == Init /\ [][Next]_vars

(* The demo is read once it is over, at the end of some round.             *)
Finished == game.phase = "over" /\ game.round = MaxRounds /\ ParserAccepts
=============================================================================
