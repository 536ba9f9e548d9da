--------------------------- MODULE MCImportPipeline ---------------------------
(* Two imports of one demo, side by side or one after the other.  Demos     *)
(* share no row but those of players.  The demo names the local player first *)
(* and only the second build reads it.                                      *)
EXTENDS ImportPipeline, TLC

CONSTANTS w1, w2, d1, j1, j2, b1, b2, local, other

MCWorkers == {w1, w2}
MCJobIds == {j1, j2}
MCSymmetry == Permutations(MCWorkers) \cup Permutations(MCJobIds)
MCBuilds == {b1, b2}
MCPlayers == {local, other}
MCRoster == d1 :> <<local, other>>
MCParses == d1 :> {b2}
===============================================================================
