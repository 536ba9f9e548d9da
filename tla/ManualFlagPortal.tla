-------------------------- MODULE ManualFlagPortal --------------------------
(***************************************************************************)
(* The Manual Flag hotkey: openfrag-shortcuts and the worker thread of     *)
(* openfragd that polls it.  The desktop portal announces presses and      *)
(* releases of the shortcut on two streams, a forwarding task moves what   *)
(* is ready on either of them into a channel, and the worker flags the     *)
(* moment of a press.  The portal may close a session at any time, also    *)
(* before anybody listens to that, may refuse to close one, and may never  *)
(* answer; every await of the worker but the last close is cut short by a  *)
(* stop.                                                                   *)
(***************************************************************************)
EXTENDS Integers, Sequences, FiniteSets

CONSTANTS
    MaxPresses,    \* bound: presses of the key
    MaxSessions,   \* bound: sessions created at the portal
    MaxRuns,       \* bound: runs of the daemon
    Capacity,      \* capacity of the signal channel, 16 in the code
    Nothing        \* the Option::None of the code

ASSUME PortalAssumption ==
    /\ MaxPresses \in Nat /\ MaxSessions \in Nat /\ MaxRuns \in Nat
    /\ Capacity \in Nat \ {0} /\ Nothing \notin Int

VARIABLES
    key,      \* external: [down, presses]
    portal,   \* external: sessions open at the portal, those bound, and the last one created
    past,     \* history: kept, the sessions the portal refused to close; unheard, those
              \* of the worker that it closed before the forwarding task listened
    streams,  \* external: the stage of the streams, and what is pending on them
    channel,  \* signals forwarded to the worker
    active,   \* LinuxPortalBackend.active: its session, or Nothing
    service,  \* ManualFlagService: session, token, held
    worker,   \* [pc, status, run, stop, given]: given is the token the open is called with
    file      \* the token in manual-flag-restore-token

portalVars == <<key, portal, past, streams, channel, active, service, worker, file>>

(* The streams of presses are opened before the session is created, that   *)
(* of its closing when the forwarding task starts.                         *)
Silent(stage) == [stage |-> stage, activated |-> <<>>, deactivated |-> <<>>, closed |-> FALSE]
NoPast == [kept |-> {}, unheard |-> {}]
Idle == [session |-> Nothing, token |-> Nothing, held |-> FALSE]

PortalInit ==
    /\ key = [down |-> FALSE, presses |-> 0]
    /\ portal = [sessions |-> {}, bound |-> {}, last |-> 0]
    /\ past = NoPast
    /\ streams = Silent("none") /\ channel = <<>> /\ active = Nothing /\ service = Idle
    /\ worker = [pc |-> "load", status |-> "starting", run |-> 1, stop |-> FALSE, given |-> Nothing]
    /\ file = Nothing

-----------------------------------------------------------------------------
(* The user and the portal.                                                *)

(* Every bound session of the program announces a press, to whoever        *)
(* listens: the streams are not those of one session.                      *)
Announced(pending, press) ==
    IF streams.stage = "none" THEN pending
    ELSE pending \o [i \in 1..Cardinality(portal.bound) |-> press]

Press ==
    /\ ~key.down /\ key.presses < MaxPresses
    /\ key' = [down |-> TRUE, presses |-> key.presses + 1]
    /\ streams' = [streams EXCEPT !.activated = Announced(@, key.presses + 1)]
    /\ UNCHANGED <<portal, past, channel, active, service, worker, file>>

Release ==
    /\ key.down
    /\ key' = [key EXCEPT !.down = FALSE]
    /\ streams' = [streams EXCEPT !.deactivated = Announced(@, key.presses)]
    /\ UNCHANGED <<portal, past, channel, active, service, worker, file>>

Without(s) == [portal EXCEPT !.sessions = @ \ {s}, !.bound = @ \ {s}]

PortalCloses ==
    \E s \in portal.sessions :
        /\ portal' = Without(s)
        /\ streams' = [streams EXCEPT !.closed = @ \/ (s = active /\ streams.stage = "all")]
        /\ past' = IF s = active /\ streams.stage = "presses"
                     THEN [past EXCEPT !.unheard = @ \cup {s}] ELSE past
        /\ UNCHANGED <<key, channel, active, service, worker, file>>

-----------------------------------------------------------------------------
(* forward_signals: listens to the closing of the session, then takes      *)
(* whatever stream is ready, in no order.                                  *)

ListenToClosed ==
    /\ active # Nothing /\ streams.stage = "presses"
    /\ streams' = [streams EXCEPT !.stage = "all"]
    /\ UNCHANGED <<key, portal, past, channel, active, service, worker, file>>

Forwarding == active # Nothing /\ streams.stage = "all" /\ Len(channel) < Capacity

Signal(kind, press) == [kind |-> kind, press |-> press]

ForwardActivated ==
    /\ Forwarding /\ streams.activated # <<>>
    /\ channel' = Append(channel, Signal("activated", Head(streams.activated)))
    /\ streams' = [streams EXCEPT !.activated = Tail(@)]
    /\ UNCHANGED <<key, portal, past, active, service, worker, file>>

ForwardDeactivated ==
    /\ Forwarding /\ streams.deactivated # <<>>
    /\ channel' = Append(channel, Signal("deactivated", Head(streams.deactivated)))
    /\ streams' = [streams EXCEPT !.deactivated = Tail(@)]
    /\ UNCHANGED <<key, portal, past, active, service, worker, file>>

ForwardClosed ==
    /\ Forwarding /\ streams.closed
    /\ channel' = Append(channel, Signal("session_lost", Nothing))
    /\ streams' = [streams EXCEPT !.closed = FALSE]
    /\ UNCHANGED <<key, portal, past, active, service, worker, file>>

(* The connection breaks, or the task cannot listen: it says so, and ends. *)
StreamsEnd ==
    /\ active # Nothing /\ streams.stage # "none" /\ Len(channel) < Capacity
    /\ channel' = Append(channel, Signal("session_lost", Nothing))
    /\ streams' = Silent("none")
    /\ UNCHANGED <<key, portal, past, active, service, worker, file>>

Forward == ListenToClosed \/ ForwardActivated \/ ForwardDeactivated \/ ForwardClosed

-----------------------------------------------------------------------------
(* run_manual_flag_service.                                                *)

At(pc) == worker.pc = pc
To(pc) == [worker EXCEPT !.pc = pc]
Ended(status) == [worker EXCEPT !.pc = "ended", !.status = status]

(* An error of start ends the worker; an error of poll shuts it down.      *)
Failed == IF worker.status = "starting" THEN Ended("unavailable") ELSE To("fail")

Load ==
    /\ At("load")
    /\ \/ worker' = [worker EXCEPT !.pc = "discard", !.given = file]
       \/ worker' = Ended("unavailable")
    /\ UNCHANGED <<key, portal, past, streams, channel, active, service, file>>

(* The session the worker leaves, when there is one: closed, already gone, *)
(* or left open by a portal that refuses.                                  *)
Leave(s) ==
    \/ s = Nothing /\ UNCHANGED <<portal, past>>
    \/ s # Nothing /\ portal' = Without(s) /\ UNCHANGED past
    \/ s \in portal.sessions /\ past' = [past EXCEPT !.kept = @ \cup {s}] /\ UNCHANGED portal

(* Mutant: the previous session is forgotten, but not closed.              *)
DiscardUnclosed ==
    /\ At("discard")
    /\ active' = Nothing /\ streams' = Silent("none") /\ channel' = <<>>
    /\ worker' = To("listen")
    /\ UNCHANGED <<key, portal, past, service, file>>

(* discard_previous: the task is aborted and the session closed; an error  *)
(* of the close is dropped.                                                *)
Discard ==
    /\ At("discard")
    /\ Leave(active)
    /\ active' = Nothing /\ streams' = Silent("none") /\ channel' = <<>>
    /\ worker' = To("listen")
    /\ UNCHANGED <<key, service, file>>

(* receive_activated, receive_deactivated.                                 *)
ListenToPresses ==
    /\ At("listen")
    /\ \/ streams' = Silent("presses") /\ worker' = To("create")
       \/ worker' = Failed /\ UNCHANGED streams
    /\ UNCHANGED <<key, portal, past, channel, active, service, file>>

CreateSession ==
    /\ At("create")
    /\ \/ /\ portal.last < MaxSessions
          /\ portal' = [portal EXCEPT !.sessions = @ \cup {portal.last + 1}, !.last = @ + 1]
          /\ worker' = To("bind")
       \/ worker' = Failed /\ UNCHANGED portal
    /\ UNCHANGED <<key, past, streams, channel, active, service, file>>

(* list_shortcuts, bind_shortcuts: an error leaves the session behind.     *)
BindShortcut ==
    /\ At("bind")
    /\ \/ /\ portal.last \in portal.sessions
          /\ portal' = [portal EXCEPT !.bound = @ \cup {portal.last}]
          /\ active' = portal.last /\ worker' = To("keep")
       \/ worker' = Failed /\ UNCHANGED <<portal, active>>
    /\ UNCHANGED <<key, past, streams, channel, service, file>>

(* The token of the process, were it to generate one.                      *)
Generated == worker.run

(* Mutant: the token of the session is not stored.                         *)
KeepTokenInMemory ==
    /\ At("keep")
    /\ LET token == IF worker.given = Nothing THEN Generated ELSE worker.given
       IN  /\ service' = [service EXCEPT !.token = token, !.session = active]
           /\ worker' = [worker EXCEPT !.pc = "poll", !.status = "ready"]
    /\ UNCHANGED <<key, portal, past, streams, channel, active, file>>

(* The rest of ManualFlagService::open: a new token is stored first.       *)
KeepToken ==
    /\ At("keep")
    /\ LET token == IF worker.given = Nothing THEN Generated ELSE worker.given
       IN  \/ /\ file' = IF worker.given = Nothing THEN token ELSE file
              /\ service' = [service EXCEPT !.token = token, !.session = active]
              /\ worker' = [worker EXCEPT !.pc = "poll", !.status = "ready"]
           \/ /\ worker.given = Nothing
              /\ worker' = Failed /\ UNCHANGED <<file, service>>
    /\ UNCHANGED <<key, portal, past, streams, channel, active>>

(* ManualFlagService::poll, for each signal.                               *)
Received(kind) == At("poll") /\ channel # <<>> /\ Head(channel).kind = kind

Flag ==
    /\ Received("activated") /\ ~service.held
    /\ channel' = Tail(channel)
    /\ \/ service' = [service EXCEPT !.held = TRUE] /\ UNCHANGED worker
       \/ worker' = Failed /\ UNCHANGED service    \* the sink's error
    /\ UNCHANGED <<key, portal, past, streams, active, file>>

Ignore ==
    /\ Received("activated") /\ service.held
    /\ channel' = Tail(channel)
    /\ UNCHANGED <<key, portal, past, streams, active, service, worker, file>>

Rearm ==
    /\ Received("deactivated")
    /\ channel' = Tail(channel)
    /\ service' = [service EXCEPT !.held = FALSE]
    /\ UNCHANGED <<key, portal, past, streams, active, worker, file>>

(* Mutant: the loss of the session is ignored.                             *)
ReconnectNever ==
    /\ Received("session_lost")
    /\ channel' = Tail(channel)
    /\ UNCHANGED <<key, portal, past, streams, active, service, worker, file>>

Reconnect ==
    /\ Received("session_lost")
    /\ channel' = Tail(channel)
    /\ service' = [service EXCEPT !.held = FALSE, !.session = Nothing]
    /\ worker' = [worker EXCEPT !.pc = "discard", !.given = service.token]
    /\ UNCHANGED <<key, portal, past, streams, active, file>>

(* ManualFlagService::shutdown, after an error or a stop while polling:    *)
(* it waits for the portal to close the session, without looking at stop.  *)
Closing == (At("fail") \/ At("stop")) /\ service.session # Nothing

Shutdown ==
    /\ At("fail") \/ At("stop")
    /\ service' = [service EXCEPT !.held = FALSE, !.session = Nothing]
    /\ Leave(service.session)
    /\ IF service.session = Nothing
         THEN UNCHANGED <<active, streams, channel>>
         ELSE active' = Nothing /\ streams' = Silent("none") /\ channel' = <<>>
    /\ \/ worker' = Ended(IF At("fail") THEN "unavailable" ELSE "stopped") /\ past' = past
       \/ service.session # Nothing /\ worker' = Ended("unavailable")
    /\ UNCHANGED <<key, file>>

Stop == /\ ~worker.stop /\ worker.pc # "ended"
        /\ worker' = [worker EXCEPT !.stop = TRUE]
        /\ UNCHANGED <<key, portal, past, streams, channel, active, service, file>>

(* The stop wins a select!: the start or the poll is dropped as it awaits. *)
Awaiting == worker.pc \in {"discard", "listen", "create", "bind", "poll"}

(* Mutant: the stop is only looked at before the first session.            *)
StoppedStarting ==
    /\ worker.stop /\ Awaiting /\ worker.status = "starting"
    /\ worker' = Ended("stopped")
    /\ UNCHANGED <<key, portal, past, streams, channel, active, service, file>>

Stopped ==
    /\ worker.stop /\ Awaiting
    /\ worker' = IF worker.status = "starting" THEN Ended("stopped") ELSE To("stop")
    /\ UNCHANGED <<key, portal, past, streams, channel, active, service, file>>

(* The daemon starts again: the portal drops what the last one had open.   *)
Restart ==
    /\ At("ended") /\ worker.run < MaxRuns
    /\ portal' = [portal EXCEPT !.sessions = {}, !.bound = {}]
    /\ streams' = Silent("none") /\ channel' = <<>> /\ active' = Nothing /\ service' = Idle
    /\ worker' = [pc |-> "load", status |-> "starting", run |-> worker.run + 1,
                  stop |-> FALSE, given |-> Nothing]
    /\ past' = NoPast
    /\ UNCHANGED <<key, file>>

Polled == Flag \/ Ignore \/ Rearm \/ Reconnect
Open == Discard \/ ListenToPresses \/ CreateSession \/ BindShortcut
Work == Load \/ Open \/ KeepToken \/ Polled \/ Shutdown \/ Stopped

PortalNext == Press \/ Release \/ PortalCloses \/ StreamsEnd \/ Forward \/ Work \/ Stop \/ Restart

PortalSpec == PortalInit /\ [][PortalNext]_portalVars

(* The worker waits for an answer of the portal, or of the user it asks.   *)
Asking == (At("discard") /\ active # Nothing) \/ worker.pc \in {"listen", "create", "bind"} \/ Closing

(* The thread runs, but nobody has to answer it; its forwarding task runs, *)
(* and so does the stop in a select!: the poll never starves the receiver. *)
PortalFairSpec ==
    /\ PortalSpec
    /\ WF_portalVars(~Asking /\ Work) /\ WF_portalVars(Forward) /\ SF_portalVars(Stopped)

-----------------------------------------------------------------------------

(* While the worker polls, the portal holds no session of this run but the *)
(* one it polls and those it refused to close, whatever was lost, denied   *)
(* or cut short before: otherwise a press would be announced twice (open,  *)
(* discard_previous, close).                                               *)
OneSessionIsPolled ==
    At("poll") => /\ service.session = active /\ active # Nothing
                  /\ portal.sessions \subseteq {active} \cup past.kept

(* A session is opened with the stored token, and the token, once stored,  *)
(* is the one of every later session and every later run (start,           *)
(* reconnect, FileRestoreTokenStore).                                      *)
TokenIsKept ==
    /\ service.session # Nothing => file # Nothing /\ service.token = file
    /\ worker.status = "ready" => worker.given \in {Nothing, file}

(* A polled session that is lost once the task listens, however full the   *)
(* channel is, is replaced, or the worker ends, unless the portal leaves   *)
(* one of its calls unanswered for ever (forward_signals, poll,            *)
(* reconnect).  A session closed before that is polled for ever.           *)
LossIsNoticed ==
    (At("poll") /\ active \notin portal.sessions \cup past.unheard)
        ~> (active \in portal.sessions \/ At("ended") \/ []Asking)

(* A stop ends the worker wherever it waits for the portal or the user but *)
(* in the close it shuts down with, which may last for ever (the selects   *)
(* of run_manual_flag_service, ManualFlagWorker::drop).                    *)
StopEnds == worker.stop ~> (At("ended") \/ []Closing)

=============================================================================
