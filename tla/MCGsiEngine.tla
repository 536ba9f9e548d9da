---------------------------- MODULE MCGsiEngine ----------------------------
(* Small instances of GsiEngine for TLC. *)
EXTENDS GsiEngine

CONSTANTS map1, map2

Body(s, r, c, k) == [session |-> s, round |-> r, counter |-> c, roundKills |-> k]

(* Kills within a round, and another session.                               *)
FewPayloads ==
  { Body(map1, 1, 1, 0), Body(map1, 1, 2, 1), Body(map2, 0, 4, 0) }
=============================================================================
