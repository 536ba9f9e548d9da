------------------------- MODULE RecorderSupervisor -------------------------
(***************************************************************************)
(* The supervisor of the gpu-screen-recorder child                         *)
(* (crates/openfrag-capture/src/lib.rs, struct Supervisor) together with   *)
(* the child, which is external: a process that may exit at any moment and *)
(* that answers SIGUSR1 by writing one replay file.                        *)
(*                                                                         *)
(* A save is signalled to the child, is "in flight" until an output file   *)
(* is discovered and probed, and one more save may be queued behind it:    *)
(* every further request is coalesced into the queued one.  The child is   *)
(* restarted after an exit with a growing delay.                           *)
(*                                                                         *)
(* Time is counted in seconds and matters for restarts only.  The code     *)
(* compares a file's mtime with the time of the signal; here an output is  *)
(* "fresh" when it was last written after the in-flight save was signalled *)
(* (probing a file takes far longer than the millisecond in which the two  *)
(* stamps could tie, and the wall clock is assumed not to be stepped).     *)
(***************************************************************************)
EXTENDS Naturals, FiniteSets, Sequences

CONSTANTS
  Requests,       \* recorder request ids; RecorderFacade never reuses one
  None,           \* the Option::None of the code
  RestartDelays,  \* the table of restart_delay, in seconds
  StableAfter,    \* Config::stable_after, in seconds
  MaxTime,        \* bound on the clock
  MaxExits        \* bound on how often the child exits

Provenance == {"auto", "manual"}
PendingSave == [id : Requests, provenance : Provenance]
Output == [req : Requests, valid : BOOLEAN, fresh : BOOLEAN]

ASSUME SupervisorAssumption ==
  /\ None \notin PendingSave
  /\ None \notin Nat
  /\ RestartDelays \in Seq(Nat) /\ Len(RestartDelays) > 0
  /\ StableAfter \in Nat
  /\ MaxTime \in Nat
  /\ MaxExits \in Nat

VARIABLES
  running,       \* Supervisor::running
  shuttingDown,  \* Supervisor::shutting_down
  stable,        \* Supervisor::stable
  startedAt,     \* Supervisor::started_ms
  inFlight,      \* Supervisor::in_flight
  queued,        \* Supervisor::queued
  nextRestart,   \* Supervisor::next_restart_ms
  failures,      \* Supervisor::failures
  child,         \* the OS process: none, alive, zombie (exited), reaped
  owed,          \* requests the living child was signalled for and has not served
  outputs,       \* files in the output directory
  now,           \* the monotonic clock
  exits,         \* how many times the child has exited
  accepted,      \* history: [id, provenance] of every request answered Ok
  delivered,     \* history: every acknowledgement returned to the caller
  streak,        \* history: exits in a row of children that lived too briefly
  streakStart    \* history: when the first of them was noticed

saveVars == <<inFlight, queued, accepted, delivered>>
policyVars == <<shuttingDown, stable, startedAt, nextRestart, failures, streak, streakStart>>
childVars == <<running, child, exits>>
vars == <<saveVars, policyVars, childVars, owed, outputs, now>>

TypeOK ==
  /\ running \in BOOLEAN
  /\ shuttingDown \in BOOLEAN
  /\ stable \in BOOLEAN
  /\ startedAt \in Nat
  /\ inFlight \in PendingSave \cup {None}
  /\ queued \in PendingSave \cup {None}
  /\ nextRestart \in Nat \cup {None}
  /\ failures \in Nat
  /\ child \in {"none", "alive", "zombie", "reaped"}
  /\ owed \subseteq Requests
  /\ outputs \subseteq Output
  /\ now \in Nat
  /\ exits \in Nat
  /\ accepted \subseteq PendingSave
  /\ delivered \subseteq [id : Requests, provenance : Provenance, file : Requests]
  /\ streak \in Nat
  /\ streakStart \in Nat

Init ==
  /\ running = FALSE /\ shuttingDown = FALSE /\ stable = FALSE /\ startedAt = 0
  /\ inFlight = None /\ queued = None
  /\ nextRestart = None /\ failures = 0
  /\ child = "none" /\ owed = {} /\ outputs = {}
  /\ now = 0 /\ exits = 0
  /\ accepted = {} /\ delivered = {} /\ streak = 0 /\ streakStart = 0

-----------------------------------------------------------------------------
(* Signals.  kill(2) succeeds on a zombie, which writes nothing, and fails  *)
(* with ESRCH once the child has been reaped.                               *)

CanSignal == child \in {"alive", "zombie"}

\* restart_delay: the table indexed by the failures so far, capped at its end.
RestartDelay(n) == RestartDelays[IF n < Len(RestartDelays) THEN n + 1 ELSE Len(RestartDelays)]

\* A variant of SignalSave: since_wall_ms is not taken anew.
SignalSaveKeepsSince(r, p) ==
  /\ inFlight' = [id |-> r, provenance |-> p]
  /\ owed' = IF child = "alive" THEN owed \cup {r} ELSE owed
  /\ UNCHANGED outputs

\* What a successful signal_save(r, p) does: the save is in flight and every
\* file already written is older than it.
SignalSave(r, p) ==
  /\ inFlight' = [id |-> r, provenance |-> p]
  /\ owed' = IF child = "alive" THEN owed \cup {r} ELSE owed
  /\ outputs' = {[o EXCEPT !.fresh = FALSE] : o \in outputs}

\* Supervisor::spawn: a new child owes nothing.
Spawn ==
  /\ child' = "alive" /\ running' = TRUE /\ owed' = {}
  /\ shuttingDown' = FALSE /\ stable' = FALSE
  /\ startedAt' = now /\ nextRestart' = None

-----------------------------------------------------------------------------
\* CaptureRuntime::start_at, called once by production_runtime.
Start ==
  /\ child = "none"
  /\ Spawn
  /\ UNCHANGED <<saveVars, failures, exits, outputs, now, streak, streakStart>>

\* request_save with nothing in flight signals the child at once.
RequestSignalled(r, p) ==
  /\ running /\ inFlight = None
  /\ CanSignal
  /\ SignalSave(r, p)
  /\ accepted' = accepted \cup {[id |-> r, provenance |-> p]}
  /\ UNCHANGED <<queued, delivered, policyVars, childVars, now>>

\* request_save behind a save in flight: queued, or merged into the queued one,
\* which a Manual Flag turns into a manual save.  The caller is told the id of
\* the queued save.
Coalesced(r, p) ==
  IF queued = None THEN [id |-> r, provenance |-> p]
  ELSE [queued EXCEPT !.provenance = IF p = "manual" THEN "manual" ELSE @]

RequestCoalesced(r, p) ==
  /\ running /\ inFlight # None
  /\ queued' = Coalesced(r, p)
  /\ accepted' = accepted \cup {[id |-> queued'.id, provenance |-> p]}
  /\ UNCHANGED <<inFlight, delivered, policyVars, childVars, owed, outputs, now>>

\* Request ids are fresh.
IsFresh(r) ==
  /\ \A a \in accepted : a.id # r
  /\ \A o \in outputs : o.req # r

RequestSave ==
  \E r \in Requests, p \in Provenance :
    IsFresh(r) /\ (RequestSignalled(r, p) \/ RequestCoalesced(r, p))

\* The acknowledgement of the save in flight with the file o.
Acknowledgement(o) ==
  [id |-> inFlight.id, provenance |-> inFlight.provenance, file |-> o.req]

\* discover_save and acknowledge: the newest file written since the signal is
\* probed; when it is valid the save is over and the queued one is signalled.
Discoverable(o) == inFlight # None /\ o \in outputs /\ o.fresh /\ o.valid

\* Variants of DiscoverSave: the queued save is signalled but stays queued;
\* a save is only acknowledged when none is queued.
DiscoverSaveKeepsQueued(o) ==
  /\ Discoverable(o)
  /\ \/ queued = None /\ inFlight' = None /\ UNCHANGED <<owed, outputs>>
     \/ queued # None /\ CanSignal /\ SignalSave(queued.id, queued.provenance)
  /\ delivered' = delivered \cup {Acknowledgement(o)}
  /\ UNCHANGED <<queued, accepted, policyVars, childVars, now>>

DiscoverSaveOnlyAlone(o) ==
  /\ Discoverable(o) /\ queued = None
  /\ inFlight' = None
  /\ delivered' = delivered \cup {Acknowledgement(o)}
  /\ UNCHANGED <<queued, owed, outputs, accepted, policyVars, childVars, now>>

DiscoverSave(o) ==
  /\ Discoverable(o)
  /\ \/ queued = None /\ inFlight' = None /\ UNCHANGED <<owed, outputs>>
     \/ queued # None /\ CanSignal /\ SignalSave(queued.id, queued.provenance)
  /\ queued' = None
  /\ delivered' = delivered \cup {Acknowledgement(o)}
  /\ UNCHANGED <<accepted, policyVars, childVars, now>>

\* The same call when the follow-up signal fails: in_flight is already cleared
\* and queued already taken when the `?` returns the error, so neither the
\* acknowledgement nor the queued save reaches anyone.
DiscoverSaveSignalFails(o) ==
  /\ Discoverable(o)
  /\ queued # None /\ ~CanSignal
  /\ inFlight' = None
  /\ queued' = None
  /\ UNCHANGED <<accepted, delivered, policyVars, childVars, owed, outputs, now>>

Discover == \E o \in outputs : DiscoverSave(o) \/ DiscoverSaveSignalFails(o)

-----------------------------------------------------------------------------
(* Supervisor::poll, called by every drive of the runtime worker.           *)

\* The first part of poll: a child that has lived long enough forgives failures.
LivedLongEnough == now - startedAt >= StableAfter
BecomesStable == running /\ ~stable /\ LivedLongEnough

FailuresNow == IF BecomesStable THEN 0 ELSE failures

\* The child runs: only the stability bookkeeping can change.
PollRunning ==
  /\ running /\ child = "alive"
  /\ BecomesStable
  /\ stable' = TRUE /\ failures' = FailuresNow
  /\ UNCHANGED <<saveVars, shuttingDown, startedAt, nextRestart, streak, streakStart,
                 childVars, owed, outputs, now>>

\* try_wait reaps the child and, unless the daemon shuts down, a restart is due
\* after the delay d.  A save in flight stays.
Exited(d) ==
  /\ running /\ child = "zombie"
  /\ running' = FALSE /\ child' = "reaped"
  /\ stable' = (stable \/ BecomesStable)
  /\ streak' = IF LivedLongEnough THEN 1 ELSE streak + 1
  /\ streakStart' = IF streak' = 1 THEN now ELSE streakStart
  /\ IF shuttingDown
     THEN failures' = FailuresNow /\ UNCHANGED nextRestart
     ELSE failures' = FailuresNow + 1 /\ nextRestart' = d
  /\ UNCHANGED <<saveVars, shuttingDown, startedAt, exits, owed, outputs, now>>

\* A variant of PollExit: a constant delay.
PollExitFlat == Exited(now + RestartDelay(0))

PollExit == Exited(now + RestartDelay(FailuresNow))

\* A due restart.  A failing spawn changes nothing and is retried by the next poll.
PollRestart ==
  /\ ~running /\ ~shuttingDown
  /\ nextRestart # None /\ now >= nextRestart
  /\ Spawn
  /\ UNCHANGED <<saveVars, failures, exits, outputs, now, streak, streakStart>>

Poll == PollRunning \/ PollExit \/ PollRestart

\* Supervisor::shutdown; the SIGINT it sends is one of the reasons to exit.
Shutdown ==
  /\ child # "none"
  /\ shuttingDown' = TRUE
  /\ nextRestart' = None
  /\ UNCHANGED <<saveVars, stable, startedAt, failures, streak, streakStart, childVars,
                 owed, outputs, now>>

-----------------------------------------------------------------------------
(* The child and the rest of the world.                                     *)

\* The child exits, crashed or interrupted; what it was writing stays partial.
ChildExits ==
  /\ child = "alive" /\ exits < MaxExits
  /\ child' = "zombie" /\ owed' = {} /\ exits' = exits + 1
  /\ UNCHANGED <<saveVars, policyVars, running, outputs, now>>

\* The child starts the replay file of a request it was signalled for.
BeginOutput(r) ==
  /\ child = "alive" /\ r \in owed
  /\ \A o \in outputs : o.req # r
  /\ outputs' = outputs \cup {[req |-> r, valid |-> FALSE, fresh |-> TRUE]}
  /\ UNCHANGED <<saveVars, policyVars, childVars, owed, now>>

\* The child completes it.
FinishOutput(o) ==
  /\ child = "alive" /\ o \in outputs /\ ~o.valid /\ o.req \in owed
  /\ outputs' = (outputs \ {o}) \cup {[o EXCEPT !.valid = TRUE, !.fresh = TRUE]}
  /\ owed' = owed \ {o.req}
  /\ UNCHANGED <<saveVars, policyVars, childVars, now>>

ChildWrites ==
  \/ \E r \in Requests : BeginOutput(r)
  \/ \E o \in outputs : FinishOutput(o)

\* The evidence store removes the source of a save it has made a Clip of.
RemoveOutput(o) ==
  /\ o \in outputs
  /\ \E d \in delivered : d.file = o.req
  /\ outputs' = outputs \ {o}
  /\ UNCHANGED <<saveVars, policyVars, childVars, owed, now>>

Tick ==
  /\ now < MaxTime
  /\ now' = now + 1
  /\ UNCHANGED <<saveVars, policyVars, childVars, owed, outputs>>

-----------------------------------------------------------------------------
Next ==
  \/ Start \/ RequestSave \/ Discover \/ Poll \/ Shutdown
  \/ ChildExits \/ ChildWrites \/ Tick
  \/ \E o \in outputs : RemoveOutput(o)

Spec == Init /\ [][Next]_vars

(* The runtime worker drives discover_save and poll every 25 ms, time       *)
(* passes, and a child that lives writes what it was signalled for.  Nobody *)
(* owes a save request, an exit, a shutdown or a removal.                   *)
Fairness ==
  /\ WF_vars(Discover)
  /\ WF_vars(Poll)
  /\ WF_vars(ChildWrites)
  /\ WF_vars(Tick)

FairSpec == Spec /\ Fairness

-----------------------------------------------------------------------------
(* The supervisor believes a child runs exactly while there is one to wait  *)
(* for, so no child is ever spawned over a living one.                      *)
RunningMatchesChild == running <=> child \in {"alive", "zombie"}

(* Saves are serialised: whatever the child still has to write was asked    *)
(* for by the save in flight, across coalescing, exits and restarts.        *)
OwedIsInFlight == \A r \in owed : inFlight # None /\ inFlight.id = r

(* A save waits in the queue only behind another one, and they differ.      *)
QueuedBehindInFlight == queued # None => inFlight # None /\ queued.id # inFlight.id

(* An acknowledgement names the file the child wrote for that very request, *)
(* and no file is ever acknowledged for two requests.                       *)
DeliveredOwnFile == \A d \in delivered : d.file = d.id

(* Every file written since the signal belongs to the save in flight: the   *)
(* newest candidate of discover_save is the only one.                       *)
FreshOutputIsInFlight ==
  \A o \in outputs : o.fresh /\ inFlight # None => o.req = inFlight.id

(* Once a Manual Flag was told that save s stands for it, s stays a manual  *)
(* save through the queue, the signal and the acknowledgement.              *)
Pending == {inFlight, queued} \ {None}
ManualFlagStaysManual ==
  \A a \in accepted : a.provenance = "manual" =>
    /\ \A s \in Pending : s.id = a.id => s.provenance = "manual"
    /\ \A d \in delivered : d.id = a.id => d.provenance = "manual"

(* A child that keeps exiting is restarted ever more slowly: n exits in a   *)
(* row of children that did not live long enough to be stable span at least *)
(* the n - 1 first delays of the table.                                     *)
TotalDelay[n \in Nat] == IF n = 0 THEN 0 ELSE TotalDelay[n - 1] + RestartDelay(n - 1)
CrashLoopIsSlow == streak > 0 => now >= streakStart + TotalDelay[streak - 1]

(* Once shutdown was called no poll restarts the child, whatever restart    *)
(* was pending and whenever the exit is noticed.                            *)
NoRestartAfterShutdown ==
  [][shuttingDown => shuttingDown' /\ (child' = "alive" => child = "alive")]_vars

(* A save that a living child owes is acknowledged unless that child exits: *)
(* the worker's next drives discover the file and signal the queued save.   *)
SaveIsAnswered ==
  \A r \in Requests :
    (r \in owed) ~> (child # "alive" \/ \E d \in delivered : d.id = r)

(* docs/highlight-rules-v1.md:35, "Restart the supervised child according   *)
(* to the recorder control policy, then permit later saves": a save queued  *)
(* while a child runs is eventually signalled, unless that child exits or   *)
(* the daemon shuts down.                                                   *)
RestartPermitsLaterSaves ==
  (queued # None /\ child = "alive")
    ~> (queued = None \/ child # "alive" \/ shuttingDown)

(* The supervisor implements the channel the live coordinator relies on:    *)
(* request_save joins or starts a save, discover_save acknowledges the save *)
(* in flight with its own file or loses it with the queued one, and exits,  *)
(* restarts, shutdowns and the child's writing change nothing of it.        *)
Channel == INSTANCE SaveChannel
ImplementsSaveChannel == Channel!Spec
=============================================================================
