---------------------------- MODULE MCClipLibrary ----------------------------
(* Two callers beside the live runtime, two captures and their trims.       *)
EXTENDS ClipLibrary, TLC

CONSTANTS c1, c2, v1, v2, t1, t2
MCCut(v) == IF v = v1 THEN t1 ELSE t2
Symmetry == Permutations({c1, c2})
=============================================================================
