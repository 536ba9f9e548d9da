----------------------------- MODULE SaveChannel -----------------------------
(***************************************************************************)
(* What the recorder supervisor promises to the live coordinator, with the *)
(* child process, its files and its restarts left out: a channel with one  *)
(* save in flight and at most one queued behind it.  A request is told     *)
(* which save stands for it, and a save ends by being acknowledged, in     *)
(* which case the queued one takes its place, or by being lost together    *)
(* with the queued one (crates/openfrag-capture/src/lib.rs, acknowledge).  *)
(* RecorderSupervisor implements this specification; LiveCoordinator is    *)
(* built on it.                                                            *)
(***************************************************************************)
CONSTANTS Requests, None

VARIABLES
  inFlight,   \* the save the child was signalled for
  queued,     \* the one save waiting behind it
  accepted,   \* history: [id, provenance] of every request answered Ok
  delivered   \* history: every acknowledgement returned

channelVars == <<inFlight, queued, accepted, delivered>>

Provenance == {"auto", "manual"}
Save(r, p) == [id |-> r, provenance |-> p]

Init == inFlight = None /\ queued = None /\ accepted = {} /\ delivered = {}

\* The save that stands for a request made now.
Joined(r, p) ==
  IF inFlight = None \/ queued = None THEN Save(r, p)
  ELSE [queued EXCEPT !.provenance = IF p = "manual" THEN "manual" ELSE @]

Request(r, p) ==
  /\ IF inFlight = None
     THEN inFlight' = Joined(r, p) /\ UNCHANGED queued
     ELSE queued' = Joined(r, p) /\ UNCHANGED inFlight
  /\ accepted' = accepted \cup {Save(Joined(r, p).id, p)}
  /\ UNCHANGED delivered

Acknowledgement == [id |-> inFlight.id, provenance |-> inFlight.provenance, file |-> inFlight.id]

Acknowledge ==
  /\ inFlight # None
  /\ delivered' = delivered \cup {Acknowledgement}
  /\ inFlight' = queued
  /\ queued' = None
  /\ UNCHANGED accepted

\* The follow-up signal failed: nothing is acknowledged and both are gone.
Lose ==
  /\ inFlight # None /\ queued # None
  /\ inFlight' = None /\ queued' = None
  /\ UNCHANGED <<accepted, delivered>>

Next ==
  \/ \E r \in Requests, p \in Provenance : Request(r, p)
  \/ Acknowledge
  \/ Lose

Spec == Init /\ [][Next]_channelVars
=============================================================================
