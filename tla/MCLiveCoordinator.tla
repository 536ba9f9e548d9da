------------------------- MODULE MCLiveCoordinator -------------------------
(* Small instances of LiveCoordinator for TLC. *)
EXTENDS LiveCoordinator

CONSTANTS r1, r2

(* A round end, a jump over two rounds after missed payloads, which ends    *)
(* the first one again in a later match, and a stale stream (a session      *)
(* reset is handled by the same code).                                      *)
SmallReceipts ==
  { [id |-> 1, output |-> "healthy", ends |-> {r1}],
    [id |-> 2, output |-> "healthy", ends |-> {r1, r2}],
    [id |-> 3, output |-> "stale", ends |-> {}] }
=============================================================================
