------------------------ MODULE MCRecorderSupervisor ------------------------
(* Small instances of RecorderSupervisor for TLC. *)
EXTENDS RecorderSupervisor, TLC

\* A shrunken table with the shape of the code's: growing, then capped.
SmallDelays == <<1, 2>>

Symmetry == Permutations(Requests)
=============================================================================
