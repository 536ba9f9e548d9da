--------------------------- MODULE LiveCoordinator ---------------------------
(***************************************************************************)
(* The live coordinator (crates/openfrag-live/src/lib.rs, Coordinator) and *)
(* the daemon threads around it (crates/openfragd/src/live_runtime.rs).    *)
(*                                                                         *)
(*   - the GSI thread ingests receipts: a round end schedules one auto     *)
(*     save PostRoll later, a stale stream or a session reset cancels what *)
(*     has not been saved;                                                 *)
(*   - the worker thread drives: it takes the due timers, dispatches them, *)
(*     looks for the file of the save in flight and finalizes its Clip;    *)
(*   - a Manual Flag asks for a save at once.                              *)
(*                                                                         *)
(* Coordinator operations exclude each other by a mutex; the recorder has  *)
(* a mutex of its own and is the SaveChannel.  The only step of the worker *)
(* that runs outside the coordinator's mutex is the discovery of a save,   *)
(* so request_capture_save is two steps: the recorder's answer, and what   *)
(* is recorded of it before the mutex is released.                         *)
(*                                                                         *)
(* The mpsc channel of ChannelScheduler is drained before each look at the *)
(* deadlines, so a command acts here when it is sent.  A processed receipt *)
(* that is ingested again changes nothing.  Candidates and the rows of the *)
(* evidence store are left out, except which recorder request each capture *)
(* was recorded under: EvidenceStore calls succeed or fail.                *)
(***************************************************************************)
EXTENDS Naturals, FiniteSets

CONSTANTS
  Rounds,      \* observed rounds; a round's auto capture has its name
  Flags,       \* Manual Flag captures
  Receipts,    \* [id, output, ends]: what the GSI engine may emit
  None,        \* the Option::None of the code
  PostRoll,    \* AUTO_POST_ROLL_MS, in clock units
  Lag,         \* how long a receipt waits between its stamp and its ingest
  MaxTime,     \* bound on the clock
  MaxFaults,   \* bound on failing calls
  FaultKinds,  \* which calls may fail: "store", "recorder"
  Retries      \* whether somebody calls retry_capture (the daemon does not)

Captures == Rounds \cup Flags
RequestIds == Captures \X Nat
Provenance == {"auto", "manual"}
Recordings == [capture : Captures, request : RequestIds \cup {None}, by : {"worker", "caller"}]
Statuses == {"absent", "scheduled", "requesting", "requested", "retryable", "cancelled"}

ASSUME CoordinatorAssumption ==
  /\ Rounds \cap Flags = {}
  /\ None \notin Captures /\ None \notin Nat /\ None \notin RequestIds
  /\ None \notin [id : RequestIds, provenance : Provenance]
  /\ None \notin Recordings
  /\ \A rc \in Receipts : rc.ends \subseteq Rounds
  /\ \A rc \in Receipts : rc.output \in {"healthy", "stale", "session_reset"}
  /\ PostRoll \in Nat /\ Lag \in Nat /\ Lag < PostRoll
  /\ MaxTime \in Nat /\ MaxFaults \in Nat
  /\ FaultKinds \subseteq {"store", "recorder"}
  /\ Retries \in BOOLEAN

VARIABLES
  now,         \* the monotonic clock
  processed,   \* Coordinator::processed_receipts
  status,      \* CaptureRecord::status; absent when captures has no such id
  deadline,    \* CaptureRecord::deadline_ms
  driver,      \* DeadlineDriver::deadlines, with the commands on their way
  due,         \* the timers drive_once has taken and not dispatched yet
  pc,          \* where the worker is in drive_once
  ack,         \* the acknowledgement the worker holds
  recording,   \* request_capture_save between the recorder and the store
  ordinal,     \* RecorderFacade::request_ordinal, per capture
  recordedAs,  \* StorageEvidenceStore: the recorder request of a capture
  clips,       \* [id, provenance] of the durable Clips
  inFlight, queued, accepted, delivered,   \* the recorder
  granted,     \* history: how often the recorder accepted a capture
  unrecorded,  \* history: [capture, request] accepted, which the store failed to record
  faults       \* history: how many calls have failed

recorderVars == <<inFlight, queued, accepted, delivered>>
captureVars == <<processed, status, deadline, recordedAs>>
workerVars == <<due, pc, ack>>
vars == <<now, captureVars, driver, workerVars, recording, ordinal, clips,
          recorderVars, granted, unrecorded, faults>>

Recorder == INSTANCE SaveChannel WITH Requests <- RequestIds

Saves == [id : RequestIds, provenance : Provenance]

TypeOK ==
  /\ now \in Nat
  /\ processed \subseteq Receipts
  /\ status \in [Captures -> Statuses]
  /\ deadline \in [Rounds -> Nat \cup {None}]
  /\ driver \in [Rounds -> Nat \cup {None}]
  /\ due \subseteq Rounds
  /\ pc \in {"idle", "dispatch", "discover", "finalize"}
  /\ ack \in Saves \cup {None}
  /\ recording \in Recordings \cup {None}
  /\ ordinal \in [Captures -> Nat]
  /\ recordedAs \in [Captures -> RequestIds \cup {None}]
  /\ clips \subseteq Saves
  /\ inFlight \in Saves \cup {None}
  /\ queued \in Saves \cup {None}
  /\ accepted \subseteq Saves
  /\ delivered \subseteq [id : RequestIds, provenance : Provenance, file : RequestIds]
  /\ granted \in [Captures -> Nat]
  /\ unrecorded \subseteq [capture : Captures, request : RequestIds]
  /\ faults \in Nat

Init ==
  /\ now = 0 /\ processed = {}
  /\ status = [c \in Captures |-> "absent"]
  /\ deadline = [r \in Rounds |-> None] /\ driver = [r \in Rounds |-> None]
  /\ due = {} /\ pc = "idle" /\ ack = None /\ recording = None
  /\ ordinal = [c \in Captures |-> 0]
  /\ recordedAs = [c \in Captures |-> None]
  /\ clips = {}
  /\ Recorder!Init
  /\ granted = [c \in Captures |-> 0] /\ unrecorded = {} /\ faults = 0

\* The coordinator's mutex is held across request_capture_save.
Unlocked == recording = None

\* A call of the given kind fails.
Fails(kind) ==
  /\ kind \in FaultKinds /\ faults < MaxFaults
  /\ faults' = faults + 1

-----------------------------------------------------------------------------
(* Coordinator::ingest.                                                     *)

\* schedule_round_capture for each completed round that has no capture yet.
\* A round whose record cannot be stored is taken back from the scheduler and
\* ends the call; the rounds before it stay (any of them, as rounds are not
\* ordered here), and the receipt is not processed.
Schedule(new, at) ==
  /\ status' = [c \in Captures |-> IF c \in new THEN "scheduled" ELSE status[c]]
  /\ deadline' = [r \in Rounds |-> IF r \in new THEN at + PostRoll ELSE deadline[r]]
  /\ driver' = [r \in Rounds |-> IF r \in new THEN at + PostRoll ELSE driver[r]]

IngestRoundEnds(rc, at) ==
  /\ Unlocked /\ rc \in Receipts \ processed /\ rc.output = "healthy"
  /\ at <= now /\ now <= at + Lag
  /\ LET new == {r \in rc.ends : status[r] = "absent"} IN
       \/ /\ Schedule(new, at)
          /\ processed' = processed \cup {rc}
          /\ UNCHANGED faults
       \/ \E stored \in SUBSET new :
            /\ stored # new
            /\ Fails("store")
            /\ Schedule(stored, at)
            /\ UNCHANGED processed
  /\ UNCHANGED <<now, recordedAs, workerVars, recording, ordinal, clips,
                 recorderVars, granted, unrecorded>>

\* cancel_unsaved: captures is a HashMap, so any of the captures may come
\* first.  The timer is cancelled before the record is stored.
Unsaved == {r \in Rounds : status[r] \in {"scheduled", "retryable"}}

Cancel(stopped, stored) ==
  /\ driver' = [r \in Rounds |-> IF r \in stopped THEN None ELSE driver[r]]
  /\ status' = [c \in Captures |-> IF c \in stored THEN "cancelled" ELSE status[c]]

IngestCancellation(rc) ==
  /\ Unlocked /\ rc \in Receipts \ processed
  /\ rc.output \in {"stale", "session_reset"}
  /\ \/ /\ Cancel(Unsaved, Unsaved)
        /\ processed' = processed \cup {rc}
        /\ UNCHANGED faults
     \/ \E stored \in SUBSET Unsaved : \E c \in Unsaved \ stored :
          /\ Fails("store")
          /\ Cancel(stored \cup {c}, stored)
          /\ UNCHANGED processed
  /\ UNCHANGED <<now, deadline, recordedAs, workerVars, recording, ordinal, clips,
                 recorderVars, granted, unrecorded>>

Ingest ==
  \E rc \in Receipts :
    IngestCancellation(rc) \/ \E at \in 0 .. now : IngestRoundEnds(rc, at)

-----------------------------------------------------------------------------
(* Coordinator::request_capture_save.                                       *)

ProvenanceOf(c) == IF c \in Flags THEN "manual" ELSE "auto"

\* The recorder answers: which save stands for the capture, or an error.
RequestSave(c, by) ==
  LET r == <<c, ordinal[c] + 1>> IN
    /\ ordinal' = [ordinal EXCEPT ![c] = @ + 1]
    /\ \/ /\ Recorder!Request(r, ProvenanceOf(c))
          /\ granted' = [granted EXCEPT ![c] = @ + 1]
          /\ recording' = [capture |-> c, by |-> by,
                           request |-> Recorder!Joined(r, ProvenanceOf(c)).id]
          /\ UNCHANGED faults
       \/ /\ Fails("recorder")
          /\ recording' = [capture |-> c, by |-> by, request |-> None]
          /\ UNCHANGED <<recorderVars, granted>>

\* The answer is stored as request id, and the coordinator's own record follows
\* only when that succeeds.  Whoever waited gets the recorder's or the store's
\* error; for the worker an error ends drive_once, and the timers it has taken
\* are gone, while success leaves it with the given timers.
Record(id, left) ==
  /\ LET c == recording.capture IN
     /\ \/ /\ status' = [status EXCEPT ![c] = IF id = None THEN "retryable" ELSE "requested"]
           /\ recordedAs' = [recordedAs EXCEPT ![c] = id]
           /\ UNCHANGED <<unrecorded, faults>>
        \/ /\ Fails("store")
           /\ unrecorded' = unrecorded \cup {[capture |-> c, request |-> i] : i \in {id} \ {None}}
           /\ UNCHANGED <<status, recordedAs>>
     /\ IF recording.by = "caller" THEN UNCHANGED <<due, pc>>
        ELSE IF status'[c] = "requested" THEN due' = left /\ UNCHANGED pc
        ELSE due' = {} /\ pc' = "idle"
  /\ recording' = None
  /\ UNCHANGED <<now, processed, deadline, driver, ack, ordinal, clips, recorderVars, granted>>

\* Variants of RecordSave: a coalesced capture is stored under its own request
\* and not under the one that stands for it; drive_once stops after one timer.
RecordSaveOwnId ==
  /\ recording # None
  /\ LET c == recording.capture IN
       Record(IF recording.request = None THEN None ELSE <<c, ordinal[c]>>, due \ {c})

RecordSaveOnlyFirst == recording # None /\ Record(recording.request, {})

RecordSave == recording # None /\ Record(recording.request, due \ {recording.capture})

\* manual_flag; a flag whose first record cannot be stored leaves no trace.
ManualFlag(f) ==
  /\ Unlocked /\ f \in Flags /\ status[f] = "absent"
  /\ status' = [status EXCEPT ![f] = "requesting"]
  /\ RequestSave(f, "caller")
  /\ UNCHANGED <<now, processed, deadline, recordedAs, driver, workerVars, clips, unrecorded>>

\* A variant of RetryCapture that does not look at the status.
RetryCaptureAlways(c) ==
  /\ Retries /\ Unlocked /\ status[c] \in {"retryable", "requested"}
  /\ RequestSave(c, "caller")
  /\ UNCHANGED <<now, captureVars, driver, workerVars, clips, unrecorded>>

\* retry_capture.
RetryCapture(c) ==
  /\ Retries /\ Unlocked /\ status[c] = "retryable"
  /\ RequestSave(c, "caller")
  /\ UNCHANGED <<now, captureVars, driver, workerVars, clips, unrecorded>>

-----------------------------------------------------------------------------
(* RuntimeDriver::drive_once.                                               *)

TakeDue ==
  /\ pc = "idle"
  /\ due' = {r \in Rounds : driver[r] # None /\ driver[r] <= now}
  /\ driver' = [r \in Rounds |-> IF r \in due' THEN None ELSE driver[r]]
  /\ pc' = "dispatch"
  /\ UNCHANGED <<now, captureVars, ack, recording, ordinal, clips, recorderVars,
                 granted, unrecorded, faults>>

\* dispatch_timer in the order of the deadlines, and Coordinator::on_timer.
IsNext(r) == r \in due /\ \A s \in due : deadline[r] <= deadline[s]

DispatchIdle(r) ==
  /\ pc = "dispatch" /\ Unlocked /\ IsNext(r)
  /\ now < deadline[r] \/ status[r] # "scheduled"
  /\ due' = due \ {r}
  /\ UNCHANGED <<now, captureVars, driver, pc, ack, recording, ordinal, clips,
                 recorderVars, granted, unrecorded, faults>>

\* A variant of DispatchSave that does not look at the status.
DispatchSaveAlways(r) ==
  /\ pc = "dispatch" /\ Unlocked /\ IsNext(r)
  /\ now >= deadline[r]
  /\ RequestSave(r, "worker")
  /\ UNCHANGED <<now, captureVars, driver, workerVars, clips, unrecorded>>

DispatchSave(r) ==
  /\ pc = "dispatch" /\ Unlocked /\ IsNext(r)
  /\ now >= deadline[r] /\ status[r] = "scheduled"
  /\ RequestSave(r, "worker")
  /\ UNCHANGED <<now, captureVars, driver, workerVars, clips, unrecorded>>

\* poll_capture runs inside the recorder.
Dispatched ==
  /\ pc = "dispatch" /\ Unlocked /\ due = {}
  /\ pc' = "discover"
  /\ UNCHANGED <<now, captureVars, driver, due, ack, recording, ordinal, clips,
                 recorderVars, granted, unrecorded, faults>>

\* finalize_discovered_save up to the coordinator's mutex: nothing to discover
\* or an error; an acknowledgement; a save lost with the queued one.
DiscoverNothing ==
  /\ pc = "discover"
  /\ pc' = "idle"
  /\ UNCHANGED <<now, captureVars, driver, due, ack, recording, ordinal, clips,
                 recorderVars, granted, unrecorded, faults>>

DiscoverSave ==
  /\ pc = "discover"
  /\ Recorder!Acknowledge
  /\ ack' = inFlight
  /\ pc' = "finalize"
  /\ UNCHANGED <<now, captureVars, driver, due, recording, ordinal, clips,
                 granted, unrecorded, faults>>

DiscoverLoses ==
  /\ pc = "discover"
  /\ Recorder!Lose
  /\ Fails("recorder")
  /\ pc' = "idle"
  /\ UNCHANGED <<now, captureVars, driver, due, ack, recording, ordinal, clips,
                 granted, unrecorded>>

\* StorageEvidenceStore::finalize_capture needs the attempt recorded under the
\* acknowledged request, and a Manual Flag among its captures for a manual save.
\* An error drops the acknowledgement.
Known(s) ==
  /\ \E c \in Captures : recordedAs[c] = s.id
  /\ s.provenance = "manual" => \E f \in Flags : recordedAs[f] = s.id

Finalize ==
  /\ pc = "finalize" /\ Unlocked
  /\ \/ Known(ack) /\ clips' = clips \cup {ack} /\ UNCHANGED faults
     \/ ~Known(ack) /\ UNCHANGED <<clips, faults>>
     \/ Fails("store") /\ UNCHANGED clips
  /\ ack' = None /\ pc' = "idle"
  /\ UNCHANGED <<now, captureVars, driver, due, recording, ordinal, recorderVars,
                 granted, unrecorded>>

Drive ==
  \/ TakeDue \/ Dispatched \/ DiscoverNothing \/ DiscoverSave \/ DiscoverLoses \/ Finalize
  \/ \E r \in Rounds : DispatchIdle(r) \/ DispatchSave(r)

Tick ==
  /\ now < MaxTime
  /\ now' = now + 1
  /\ UNCHANGED <<captureVars, driver, workerVars, recording, ordinal, clips,
                 recorderVars, granted, unrecorded, faults>>

-----------------------------------------------------------------------------
Next ==
  \/ Ingest
  \/ \E f \in Flags : ManualFlag(f)
  \/ \E c \in Captures : RetryCapture(c)
  \/ RecordSave
  \/ Drive
  \/ Tick

Spec == Init /\ [][Next]_vars

(* RuntimeWorker calls drive_once every 25 ms and time passes.  The mutex is *)
(* released by whoever holds it, and the recorder, looked at again and      *)
(* again, has written the file of the save in flight at some look.          *)
Fairness ==
  /\ WF_vars(Drive) /\ WF_vars(RecordSave) /\ WF_vars(Tick)
  /\ SF_vars(DiscoverSave)

FairSpec == Spec /\ Fairness

-----------------------------------------------------------------------------
(* docs/highlight-rules-v1.md:25, a save is signalled "once": however       *)
(* timers, cancellations, retries and failures interleave, the recorder     *)
(* accepts a second save of a capture                                       *)
(* only when the store failed to record the first.  Then a capture that was *)
(* retryable stays so, and retry_capture asks again.                        *)
SavedOnce ==
  \A c \in Captures : granted[c] > 1 => \E u \in unrecorded : u.capture = c

(* finalize_capture finds the request it is given, although the file may be *)
(* discovered before the request has been stored: only a failed store call  *)
(* leaves an acknowledged save without its capture.                         *)
AckIsRecorded ==
  ack # None /\ Unlocked => Known(ack) \/ \E u \in unrecorded : u.request = ack.id

(* docs/highlight-rules-v1.md:27, a Manual Flag's save never becomes an     *)
(* Auto Highlight: a Clip that a Manual Flag was recorded under, alone or   *)
(* coalesced with an auto save, is a manual one.                            *)
ManualClipIsManual ==
  \A s \in clips : (\E f \in Flags : recordedAs[f] = s.id) => s.provenance = "manual"

(* A capture that a stale stream or a session reset cancelled is never      *)
(* saved, even when its timer had already been taken as due.                *)
CancelledIsNeverSaved ==
  [][\A r \in Rounds : status[r] = "cancelled" =>
       status'[r] = "cancelled" /\ granted'[r] = granted[r]]_vars

(* As long as no call fails every scheduled capture is saved or cancelled:  *)
(* its timer is not lost between the scheduler, the driver and the          *)
(* coordinator.                                                             *)
ScheduledIsDecided ==
  \A r \in Rounds :
    (status[r] = "scheduled" /\ deadline[r] <= MaxTime) ~>
      (status[r] # "scheduled" \/ faults > 0)

(* As long as no call fails every save that was recorded becomes a Clip.    *)
RequestedBecomesClip ==
  \A c \in Captures :
    (status[c] = "requested") ~> ((\E s \in clips : s.id = recordedAs[c]) \/ faults > 0)

=============================================================================
