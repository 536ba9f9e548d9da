--------------------------- MODULE MCEvidenceLedger ---------------------------
(* Two rounds, a Manual Flag, and the payloads that matter to them: a third *)
(* kill in the first round, the end of each, the end of both at once (the   *)
(* listener missed a payload) and a break of the stream.                    *)
EXTENDS EvidenceLedger, TLC

CONSTANTS r1, r2, f1, kill, end1, end2, both, break

MCKills == [p \in Payloads |-> IF p = kill THEN r1 ELSE None]
MCEnds == [p \in Payloads |->
  CASE p = end1 -> <<r1>> [] p = end2 -> <<r2>> [] p = both -> <<r1, r2>> [] OTHER -> <<>>]
===============================================================================
