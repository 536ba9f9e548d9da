----------------------------- MODULE MCManualFlag ----------------------------
(* A few presses, sessions and runs of the daemon; Nothing is a model value.  *)
EXTENDS ManualFlagPortal
=============================================================================
