------------------------ MODULE LiveCoordinatorProofs ------------------------
(***************************************************************************)
(* Proofs about LiveCoordinator for every set of rounds, flags and         *)
(* receipts, every post roll and lag, and any number of failing calls.     *)
(***************************************************************************)
EXTENDS LiveCoordinator, TLAPS

(* What request_capture_save holds between the recorder's answer and the    *)
(* store's: a capture that may be saved, taken from the due timers when the *)
(* worker asks.                                                             *)
RecordingInv ==
  recording # None =>
    /\ recording.by = "worker"
         => /\ pc = "dispatch" /\ recording.capture \in due
            /\ status[recording.capture] = "scheduled"
    /\ recording.by = "caller"
         => status[recording.capture] \in {"requesting", "retryable"}

(* What is known of a capture that the recorder has accepted before it is   *)
(* recorded as requested.                                                   *)
Asking(c) == recording # None /\ recording.capture = c
Granted(c) == Asking(c) /\ recording.request # None
Excused(c) == \E u \in unrecorded : u.capture = c
GrantInv ==
  /\ \A c \in Captures :
       /\ status[c] = "absent" => granted[c] = 0
       /\ status[c] = "retryable" /\ granted[c] > 0 => Excused(c) \/ Granted(c)
       /\ Asking(c) /\ ~Granted(c) /\ granted[c] > 0 => Excused(c)
  /\ \A r \in Rounds :
       status[r] = "scheduled" /\ granted[r] > 0 =>
         driver[r] = None /\ (r \notin due \/ Asking(r))

(* A timer is either with the driver or due, and belongs to a capture.      *)
TimerInv ==
  \A r \in Rounds :
    /\ r \in due => driver[r] = None
    /\ r \in due \/ driver[r] # None => status[r] # "absent"

RequestInv == RecordingInv /\ TimerInv /\ GrantInv /\ SavedOnce

(* Every save the recorder or the worker holds is known by somebody: it is  *)
(* recorded, being recorded, or its recording failed.                       *)
Held == {inFlight, queued, ack} \ {None}
Holder(s, c) ==
  recordedAs[c] = s.id \/ (recording # None /\ recording.capture = c /\ recording.request = s.id)
Covered(s) ==
  \/ \E u \in unrecorded : u.request = s.id
  \/ /\ \E c \in Captures : Holder(s, c)
     /\ s.provenance = "manual" => \E f \in Flags : Holder(s, f)
CoverInv == \A s \in Held : Covered(s)

(* Only a requested capture is recorded under a request.                    *)
RecordedInv == \A c \in Captures : recordedAs[c] # None => status[c] = "requested"

(* Request ids are taken in order, and a save that may still be joined is   *)
(* neither the one being finalized nor a Clip.                              *)
Used(id) == id[2] <= ordinal[id[1]]
Taken(id) ==
  \/ \E s \in Held \cup clips : s.id = id
  \/ \E c \in Captures : recordedAs[c] = id
  \/ recording # None /\ recording.request = id
IdInv ==
  /\ \A id \in RequestIds : Taken(id) => Used(id)
  /\ inFlight # None /\ queued # None => inFlight.id # queued.id
  /\ \A s \in {inFlight, queued} \ {None} :
       (ack # None => ack.id # s.id) /\ \A t \in clips : t.id # s.id

(* A save that a Manual Flag holds is a manual one.                         *)
ManualInv ==
  \A s \in Held \cup clips : \A f \in Flags : Holder(s, f) => s.provenance = "manual"

SaveInv == RecordedInv /\ CoverInv /\ IdInv /\ ManualInv

(* Whoever is about to finalize has an acknowledgement.                     *)
AckInv == pc = "finalize" => ack # None

IInv == TypeOK /\ AckInv /\ RequestInv /\ SaveInv

-----------------------------------------------------------------------------
(* request_capture_save, up to the recorder's answer: the ordinal is taken, *)
(* and either a save stands for the capture or the recorder has failed.     *)
Asked(c, by, r) ==
  /\ recording' = [capture |-> c, by |-> by, request |-> r]
  /\ ordinal' = [ordinal EXCEPT ![c] = @ + 1]
Started(r, p) == inFlight = None /\ inFlight' = [id |-> r, provenance |-> p] /\ queued' = queued
Queued(r, p) ==
  /\ inFlight # None /\ queued = None
  /\ queued' = [id |-> r, provenance |-> p] /\ inFlight' = inFlight
Merged(id, p) ==
  /\ inFlight # None /\ queued # None /\ id = queued.id
  /\ queued' = [queued EXCEPT !.provenance = IF p = "manual" THEN "manual" ELSE @]
  /\ inFlight' = inFlight

LEMMA RequestAnswer ==
  ASSUME NEW c \in Captures, NEW by, RequestSave(c, by)
  PROVE  \/ /\ Asked(c, by, <<c, ordinal[c] + 1>>)
            /\ \/ Started(<<c, ordinal[c] + 1>>, ProvenanceOf(c))
               \/ Queued(<<c, ordinal[c] + 1>>, ProvenanceOf(c))
            /\ granted' = [granted EXCEPT ![c] = @ + 1]
            /\ accepted' = accepted \cup {[id |-> <<c, ordinal[c] + 1>>, provenance |-> ProvenanceOf(c)]}
            /\ UNCHANGED <<delivered, faults>>
         \/ /\ inFlight # None /\ queued # None
            /\ Asked(c, by, queued.id) /\ Merged(queued.id, ProvenanceOf(c))
            /\ granted' = [granted EXCEPT ![c] = @ + 1]
            /\ accepted' = accepted \cup {[id |-> queued.id, provenance |-> ProvenanceOf(c)]}
            /\ UNCHANGED <<delivered, faults>>
         \/ /\ Asked(c, by, None)
            /\ UNCHANGED <<recorderVars, granted>>
            /\ faults' = faults + 1
<1> DEFINE r == <<c, ordinal[c] + 1>>
           p == ProvenanceOf(c)
<1>1. ordinal' = [ordinal EXCEPT ![c] = @ + 1]
  BY DEF RequestSave
<1>2. CASE /\ Fails("recorder")
           /\ recording' = [capture |-> c, by |-> by, request |-> None]
           /\ UNCHANGED <<recorderVars, granted>>
  BY <1>1, <1>2 DEF Asked, Fails
<1>3. CASE /\ Recorder!Request(r, p)
           /\ granted' = [granted EXCEPT ![c] = @ + 1]
           /\ recording' = [capture |-> c, by |-> by, request |-> Recorder!Joined(r, p).id]
           /\ UNCHANGED faults
  <2> HIDE DEF r, p
  <2>1. CASE inFlight = None
    <3>1. Recorder!Joined(r, p) = [id |-> r, provenance |-> p]
      BY <2>1 DEF Recorder!Joined, Recorder!Save
    <3> QED BY <1>1, <1>3, <2>1, <3>1
            DEF Recorder!Request, Recorder!Save, Asked, Started, r, p
  <2>2. CASE inFlight # None /\ queued = None
    <3>1. Recorder!Joined(r, p) = [id |-> r, provenance |-> p]
      BY <2>2 DEF Recorder!Joined, Recorder!Save
    <3> QED BY <1>1, <1>3, <2>2, <3>1
            DEF Recorder!Request, Recorder!Save, Asked, Queued, r, p
  <2>3. CASE inFlight # None /\ queued # None
    <3>1. /\ Recorder!Joined(r, p) = [queued EXCEPT !.provenance = IF p = "manual" THEN "manual" ELSE @]
          /\ Recorder!Joined(r, p).id = queued.id
      BY <2>3 DEF Recorder!Joined, Recorder!Save
    <3> QED BY <1>1, <1>3, <2>3, <3>1
            DEF Recorder!Request, Recorder!Save, Asked, Merged, r, p
  <2> QED BY <2>1, <2>2, <2>3
<1> QED BY <1>2, <1>3 DEF RequestSave

(* The same call and the types.                                             *)
LEMMA RequestType ==
  ASSUME TypeOK, NEW c \in Captures, NEW by \in {"worker", "caller"}, RequestSave(c, by)
  PROVE  /\ recording' \in Recordings
         /\ ordinal' \in [Captures -> Nat] /\ granted' \in [Captures -> Nat]
         /\ inFlight' \in Saves \cup {None} /\ queued' \in Saves \cup {None}
         /\ accepted' \subseteq Saves /\ faults' \in Nat
         /\ UNCHANGED delivered
<1> DEFINE r == <<c, ordinal[c] + 1>>
           p == ProvenanceOf(c)
<1>1. r \in RequestIds /\ p \in Provenance /\ [id |-> r, provenance |-> p] \in Saves
  BY DEF TypeOK, RequestIds, ProvenanceOf, Provenance, Saves
<1>2. /\ [ordinal EXCEPT ![c] = @ + 1] \in [Captures -> Nat]
      /\ [granted EXCEPT ![c] = @ + 1] \in [Captures -> Nat]
  BY DEF TypeOK
<1>3. queued # None => /\ queued.id \in RequestIds
                       /\ [queued EXCEPT !.provenance = IF p = "manual" THEN "manual" ELSE @] \in Saves
                       /\ [id |-> queued.id, provenance |-> p] \in Saves
  BY <1>1 DEF TypeOK, Saves, Provenance
<1> HIDE DEF r, p
<1>4. CASE /\ Asked(c, by, r)
           /\ Started(r, p) \/ Queued(r, p)
           /\ granted' = [granted EXCEPT ![c] = @ + 1]
           /\ accepted' = accepted \cup {[id |-> r, provenance |-> p]}
           /\ UNCHANGED <<delivered, faults>>
  BY <1>1, <1>2, <1>4 DEF TypeOK, Recordings, Asked, Started, Queued
<1>5. CASE /\ inFlight # None /\ queued # None
           /\ Asked(c, by, queued.id) /\ Merged(queued.id, p)
           /\ granted' = [granted EXCEPT ![c] = @ + 1]
           /\ accepted' = accepted \cup {[id |-> queued.id, provenance |-> p]}
           /\ UNCHANGED <<delivered, faults>>
  BY <1>2, <1>3, <1>5 DEF TypeOK, Recordings, Asked, Merged
<1>6. CASE Asked(c, by, None) /\ UNCHANGED <<recorderVars, granted>> /\ faults' = faults + 1
  BY <1>2, <1>6 DEF TypeOK, Recordings, Asked, recorderVars
<1> QED BY <1>4, <1>5, <1>6, RequestAnswer DEF r, p

(* Scheduling and cancelling captures.                                      *)
LEMMA IngestType ==
  ASSUME TypeOK, Ingest
  PROVE  TypeOK'
<1> USE DEF workerVars, recorderVars
<1>1. PICK rc \in Receipts : IngestCancellation(rc) \/ \E at \in 0 .. now : IngestRoundEnds(rc, at)
  BY DEF Ingest
<1>2. ASSUME NEW at \in 0 .. now, IngestRoundEnds(rc, at) PROVE TypeOK'
  <2>1. ASSUME NEW new, Schedule(new, at)
        PROVE  /\ status' \in [Captures -> Statuses]
               /\ deadline' \in [Rounds -> Nat \cup {None}]
               /\ driver' \in [Rounds -> Nat \cup {None}]
    <3>1. at + PostRoll \in Nat
      BY CoordinatorAssumption DEF TypeOK
    <3> QED BY <2>1, <3>1 DEF Schedule, TypeOK, Statuses
  <2>2. faults' \in Nat
    BY <1>2 DEF IngestRoundEnds, Fails, TypeOK
  <2>3. processed' \subseteq Receipts
    BY <1>2 DEF IngestRoundEnds, TypeOK
  <2>4. PICK new : Schedule(new, at)
    BY <1>2 DEF IngestRoundEnds
  <2>5. /\ status' \in [Captures -> Statuses]
        /\ deadline' \in [Rounds -> Nat \cup {None}]
        /\ driver' \in [Rounds -> Nat \cup {None}]
    BY <2>1, <2>4
  <2>6. UNCHANGED <<now, recordedAs, workerVars, recording, ordinal, clips,
                    recorderVars, granted, unrecorded>>
    BY <1>2 DEF IngestRoundEnds
  <2> QED BY <2>2, <2>3, <2>5, <2>6 DEF TypeOK
<1>3. CASE IngestCancellation(rc)
  <2>1. PICK stopped, stored : Cancel(stopped, stored)
    BY <1>3 DEF IngestCancellation
  <2>2. driver' \in [Rounds -> Nat \cup {None}] /\ status' \in [Captures -> Statuses]
    BY <2>1 DEF Cancel, TypeOK, Statuses
  <2>3. faults' \in Nat
    <3>1. faults' = faults \/ Fails("store")
      BY <1>3 DEF IngestCancellation
    <3> QED BY <3>1 DEF Fails, TypeOK
  <2>4. processed' \subseteq Receipts
    BY <1>3 DEF IngestCancellation, TypeOK
  <2>5. UNCHANGED <<now, deadline, recordedAs, workerVars, recording, ordinal, clips,
                    recorderVars, granted, unrecorded>>
    BY <1>3 DEF IngestCancellation
  <2> QED BY <2>2, <2>3, <2>4, <2>5 DEF TypeOK
<1> QED BY <1>1, <1>2, <1>3

(* What Record does when the store has or has not recorded the answer.      *)
LEMMA RecordAnswer ==
  ASSUME RecordSave
  PROVE  /\ recording # None /\ recording' = None
         /\ \/ /\ status' = [status EXCEPT ![recording.capture] =
                               IF recording.request = None THEN "retryable" ELSE "requested"]
               /\ recordedAs' = [recordedAs EXCEPT ![recording.capture] = recording.request]
               /\ UNCHANGED <<unrecorded, faults>>
            \/ /\ UNCHANGED <<status, recordedAs>>
               /\ faults' = faults + 1
               /\ unrecorded' = unrecorded \cup
                    {[capture |-> recording.capture, request |-> i] : i \in {recording.request} \ {None}}
         /\ \/ recording.by = "caller" /\ UNCHANGED <<due, pc>>
            \/ /\ recording.by # "caller" /\ status'[recording.capture] = "requested"
               /\ due' = due \ {recording.capture} /\ UNCHANGED pc
            \/ /\ recording.by # "caller" /\ due' = {} /\ pc' = "idle"
         /\ UNCHANGED <<now, processed, deadline, driver, ack, ordinal, clips, recorderVars, granted>>
BY DEF RecordSave, Record, Fails

LEMMA RecordType ==
  ASSUME TypeOK, RecordSave
  PROVE  TypeOK'
<1> USE DEF recorderVars
<1>1. recording.capture \in Captures /\ recording.request \in RequestIds \cup {None}
  BY RecordAnswer DEF TypeOK, Recordings
<1>2. status' \in [Captures -> Statuses] /\ recordedAs' \in [Captures -> RequestIds \cup {None}]
  BY <1>1, RecordAnswer DEF TypeOK, Statuses
<1>3. \A i \in {recording.request} \ {None} :
        [capture |-> recording.capture, request |-> i] \in [capture : Captures, request : RequestIds]
  BY <1>1
<1>4. unrecorded' \subseteq [capture : Captures, request : RequestIds] /\ faults' \in Nat
  BY <1>3, RecordAnswer DEF TypeOK
<1>5. due' \subseteq Rounds /\ pc' \in {"idle", "dispatch", "discover", "finalize"}
  BY RecordAnswer DEF TypeOK
<1> QED BY <1>2, <1>4, <1>5, RecordAnswer DEF TypeOK

(* The steps of drive_once besides the dispatch of a save.                  *)
LEMMA WorkerType ==
  ASSUME TypeOK, AckInv,
         \/ TakeDue \/ Dispatched \/ DiscoverNothing \/ DiscoverSave \/ DiscoverLoses
         \/ Finalize \/ \E r \in Rounds : DispatchIdle(r)
  PROVE  TypeOK'
<1> USE DEF captureVars, recorderVars
<1>1. CASE TakeDue
  BY <1>1 DEF TakeDue, TypeOK
<1>2. CASE Dispatched \/ DiscoverNothing
  BY <1>2 DEF Dispatched, DiscoverNothing, TypeOK
<1>3. CASE DiscoverSave
  <2>1. inFlight \in Saves
    BY <1>3 DEF DiscoverSave, Recorder!Acknowledge, TypeOK
  <2>2. Recorder!Acknowledgement \in [id : RequestIds, provenance : Provenance, file : RequestIds]
    BY <2>1 DEF Recorder!Acknowledgement, Saves
  <2> QED BY <1>3, <2>1, <2>2 DEF DiscoverSave, Recorder!Acknowledge, TypeOK
<1>4. CASE DiscoverLoses
  BY <1>4 DEF DiscoverLoses, Recorder!Lose, Fails, TypeOK
<1>5. CASE Finalize
  <2>1. ack \in Saves
    BY <1>5 DEF Finalize, AckInv, TypeOK
  <2>2. clips' \subseteq Saves /\ faults' \in Nat
    BY <1>5, <2>1 DEF Finalize, Fails, TypeOK
  <2> QED BY <1>5, <2>2 DEF Finalize, TypeOK
<1>6. ASSUME NEW r \in Rounds, DispatchIdle(r) PROVE TypeOK'
  BY <1>6 DEF DispatchIdle, TypeOK
<1> QED BY <1>1, <1>2, <1>3, <1>4, <1>5, <1>6

(* Every variable keeps its type, and only an acknowledgement is finalized. *)
LEMMA TypeStep ==
  ASSUME TypeOK, AckInv, [Next]_vars
  PROVE  TypeOK' /\ AckInv'
<1> USE DEF captureVars, workerVars, recorderVars
<1>1. CASE Ingest
  <2>1. UNCHANGED <<pc, ack>>
    BY <1>1 DEF Ingest, IngestRoundEnds, IngestCancellation
  <2> QED BY <1>1, <2>1, IngestType DEF AckInv
<1>2. ASSUME NEW f \in Flags, ManualFlag(f) PROVE TypeOK' /\ AckInv'
  <2>1. f \in Captures /\ RequestSave(f, "caller")
    BY <1>2 DEF ManualFlag, Captures
  <2>2. status' \in [Captures -> Statuses]
    BY <1>2, <2>1 DEF ManualFlag, TypeOK, Statuses
  <2> QED BY <1>2, <2>1, <2>2, RequestType DEF ManualFlag, TypeOK, AckInv
<1>3. ASSUME NEW c \in Captures, RetryCapture(c) PROVE TypeOK' /\ AckInv'
  BY <1>3, RequestType DEF RetryCapture, TypeOK, AckInv
<1>4. CASE RecordSave
  BY <1>4, RecordType, RecordAnswer DEF AckInv
<1>5. ASSUME NEW r \in Rounds, DispatchSave(r) PROVE TypeOK' /\ AckInv'
  <2>1. r \in Captures
    BY DEF Captures
  <2> QED BY <1>5, <2>1, RequestType DEF DispatchSave, TypeOK, AckInv
<1>6. CASE \/ TakeDue \/ Dispatched \/ DiscoverNothing \/ DiscoverSave \/ DiscoverLoses
           \/ Finalize \/ \E r \in Rounds : DispatchIdle(r)
  <2>1. AckInv'
    BY <1>6 DEF AckInv, TakeDue, Dispatched, DiscoverNothing, DiscoverSave, DiscoverLoses,
                Finalize, DispatchIdle, Recorder!Acknowledge
  <2> QED BY <1>6, <2>1, WorkerType
<1>7. CASE Tick
  BY <1>7 DEF Tick, TypeOK, AckInv
<1>8. CASE UNCHANGED vars
  BY <1>8 DEF vars, TypeOK, AckInv
<1> QED BY <1>1, <1>2, <1>3, <1>4, <1>5, <1>6, <1>7, <1>8 DEF Next, Drive

-----------------------------------------------------------------------------
(* What a request changes of the capture that asks, whoever asks.           *)
LEMMA RequestGrants ==
  ASSUME TypeOK, NEW c \in Captures, NEW by \in {"worker", "caller"}, RequestSave(c, by)
  PROVE  /\ recording' # None /\ recording'.capture = c /\ recording'.by = by
         /\ \/ recording'.request = None /\ granted' = granted
            \/ recording'.request # None /\ granted' = [granted EXCEPT ![c] = @ + 1]
<1>1. recording' # None
  BY RequestType, CoordinatorAssumption
<1>2. <<c, ordinal[c] + 1>> # None
  <2>1. <<c, ordinal[c] + 1>> \in RequestIds
    BY DEF TypeOK, RequestIds
  <2> QED BY <2>1, CoordinatorAssumption
<1>3. queued # None => queued.id # None
  BY CoordinatorAssumption DEF TypeOK, Saves
<1>4. \E r : /\ Asked(c, by, r)
             /\ \/ r = None /\ granted' = granted
                \/ r # None /\ granted' = [granted EXCEPT ![c] = @ + 1]
  BY <1>2, <1>3, RequestAnswer DEF recorderVars
<1> QED BY <1>1, <1>4 DEF Asked

LEMMA AskStep ==
  ASSUME TypeOK, RequestInv, Unlocked,
         NEW c \in Captures, NEW by \in {"worker", "caller"}, RequestSave(c, by),
         UNCHANGED <<pc, due, driver, unrecorded>>,
         \A d \in Captures : d # c => status'[d] = status[d],
         \/ /\ by = "worker" /\ pc = "dispatch" /\ c \in due /\ c \in Rounds
            /\ status[c] = "scheduled" /\ status'[c] = status[c]
         \/ by = "caller" /\ status[c] = "absent" /\ status'[c] = "requesting"
         \/ by = "caller" /\ status[c] = "retryable" /\ status'[c] = "retryable"
  PROVE  RequestInv'
<1> USE DEF Captures
<1>1. granted[c] \in Nat /\ \A d \in Captures : ~Asking(d)
  BY DEF TypeOK, Unlocked, Asking
<1>2. granted[c] > 0 => Excused(c)
  BY <1>1 DEF RequestInv, GrantInv, Granted
<1>3. \A d \in Captures : /\ Excused(d)' <=> Excused(d)
                          /\ Asking(d)' <=> d = c
                          /\ d # c => granted'[d] = granted[d]
  BY RequestGrants DEF Excused, Asking, TypeOK
<1>4. \/ Granted(c)' /\ granted'[c] = granted[c] + 1
      \/ ~Granted(c)' /\ granted'[c] = granted[c]
  BY <1>3, RequestGrants DEF Granted, TypeOK
<1>5. RecordingInv'
  BY RequestGrants DEF RecordingInv
<1>6. TimerInv'
  <2>1. \A r \in Rounds : status'[r] = "absent" => status[r] = "absent"
    OBVIOUS
  <2> QED BY <2>1 DEF RequestInv, TimerInv
<1>7. SavedOnce'
  <2> SUFFICES ASSUME NEW d \in Captures, granted'[d] > 1 PROVE Excused(d)
    BY <1>3 DEF SavedOnce, Excused
  <2>1. CASE d = c
    BY <1>1, <1>2, <1>4, <2>1
  <2>2. CASE d # c
    BY <1>3, <2>2 DEF RequestInv, SavedOnce, Excused
  <2> QED BY <2>1, <2>2
<1>8. GrantInv'
  <2>1. ASSUME NEW d \in Captures
        PROVE  /\ status'[d] = "absent" => granted'[d] = 0
               /\ status'[d] = "retryable" /\ granted'[d] > 0 => Excused(d)' \/ Granted(d)'
               /\ Asking(d)' /\ ~Granted(d)' /\ granted'[d] > 0 => Excused(d)'
    <3>1. CASE d = c
      BY <1>1, <1>2, <1>3, <1>4, <3>1
    <3>2. CASE d # c
      BY <1>1, <1>3, <3>2 DEF RequestInv, GrantInv, Granted
    <3> QED BY <3>1, <3>2
  <2>2. ASSUME NEW r \in Rounds, status'[r] = "scheduled", granted'[r] > 0
        PROVE  driver'[r] = None /\ (r \notin due' \/ Asking(r)')
    <3>1. CASE r = c
      BY <1>3, <2>2, <3>1 DEF RequestInv, TimerInv
    <3>2. CASE r # c
      BY <1>1, <1>3, <2>2, <3>2 DEF RequestInv, GrantInv
    <3> QED BY <3>1, <3>2
  <2> QED BY <2>1, <2>2 DEF GrantInv
<1> QED BY <1>5, <1>6, <1>7, <1>8 DEF RequestInv

(* What storing the answer makes of the captures and of the due timers.     *)
LEMMA RecordStepRequest ==
  ASSUME TypeOK, RequestInv, RecordSave
  PROVE  RequestInv'
<1> USE DEF Captures
<1> PICK c \in Captures : c = recording.capture
  BY RecordAnswer DEF TypeOK, Recordings
<1>1. /\ recording # None /\ recording' = None /\ granted' = granted /\ driver' = driver
      /\ recording.by \in {"worker", "caller"}
      /\ recording.request \in RequestIds \cup {None}
  BY RecordAnswer DEF TypeOK, Recordings
<1>2. due' \subseteq due /\ \A d \in Captures : d # c => status'[d] = status[d]
  BY <1>1, RecordAnswer DEF TypeOK
<1>3. status[c] \in {"scheduled", "requesting", "retryable"}
  BY <1>1 DEF RequestInv, RecordingInv
<1>4. \/ status'[c] = "requested"
      \/ recording.request = None /\ status'[c] = "retryable"
      \/ /\ status'[c] = status[c]
         /\ recording.request # None => Excused(c)'
         /\ recording.by = "worker" => due' = {}
  <2>1. CASE /\ status' = [status EXCEPT ![c] =
                  IF recording.request = None THEN "retryable" ELSE "requested"]
    <3>1. status'[c] = IF recording.request = None THEN "retryable" ELSE "requested"
      BY <2>1 DEF TypeOK
    <3> QED BY <3>1
  <2>2. CASE /\ UNCHANGED <<status, recordedAs>>
             /\ unrecorded' = unrecorded \cup
                  {[capture |-> c, request |-> i] : i \in {recording.request} \ {None}}
    <3>1. recording.request # None => [capture |-> c, request |-> recording.request] \in unrecorded'
      BY <2>2
    <3>2. recording.request # None => Excused(c)'
      BY <3>1 DEF Excused
    <3>3. recording.by = "worker" => due' = {}
      BY <1>3, <2>2, RecordAnswer DEF RequestInv, RecordingInv
    <3> QED BY <2>2, <3>2, <3>3
  <2> QED BY <2>1, <2>2, RecordAnswer
<1>5. \A d \in Captures : /\ Excused(d) => Excused(d)'
                          /\ ~Asking(d)'
                          /\ d # c => ~Asking(d)
  <2>1. unrecorded \subseteq unrecorded'
    BY RecordAnswer
  <2> QED BY <1>1, <2>1 DEF Excused, Asking
<1>6. Asking(c) /\ (recording.request = None /\ granted[c] > 0 => Excused(c))
  BY <1>1 DEF Asking, Granted, RequestInv, GrantInv
<1>7. RecordingInv' /\ TimerInv'
  BY <1>1, <1>2, <1>3, <1>4 DEF RecordingInv, RequestInv, TimerInv
<1>8. SavedOnce'
  BY <1>1, <1>5 DEF RequestInv, SavedOnce, Excused
<1>9. GrantInv'
  <2>1. ASSUME NEW d \in Captures
        PROVE  /\ status'[d] = "absent" => granted'[d] = 0
               /\ status'[d] = "retryable" /\ granted'[d] > 0 => Excused(d)' \/ Granted(d)'
               /\ Asking(d)' /\ ~Granted(d)' /\ granted'[d] > 0 => Excused(d)'
    <3>1. CASE d = c
      BY <1>1, <1>3, <1>4, <1>5, <1>6, <3>1
    <3>2. CASE d # c
      BY <1>1, <1>2, <1>5, <3>2 DEF RequestInv, GrantInv, Granted
    <3> QED BY <3>1, <3>2
  <2>2. ASSUME NEW r \in Rounds, status'[r] = "scheduled", granted'[r] > 0
        PROVE  driver'[r] = None /\ (r \notin due' \/ Asking(r)')
    <3>1. CASE r = c
      <4>1. status[r] = "scheduled" /\ (recording.by = "worker" => due' = {})
        BY <1>4, <2>2, <3>1
      <4>2. recording.by = "worker"
        BY <1>1, <3>1, <4>1 DEF RequestInv, RecordingInv
      <4> QED BY <1>1, <2>2, <4>1, <4>2 DEF RequestInv, GrantInv
    <3>2. CASE r # c
      BY <1>1, <1>2, <1>5, <2>2, <3>2 DEF RequestInv, GrantInv
    <3> QED BY <3>1, <3>2
  <2> QED BY <2>1, <2>2 DEF GrantInv
<1> QED BY <1>7, <1>8, <1>9 DEF RequestInv

(* A receipt schedules captures that did not exist or cancels some that     *)
(* have not been saved, while nobody asks.                                  *)
LEMMA IngestEffect ==
  ASSUME Ingest
  PROVE  /\ Unlocked
         /\ \/ \E new \in SUBSET {r \in Rounds : status[r] = "absent"} :
                 \E at \in 0 .. now : Schedule(new, at)
            \/ \E stopped, stored \in SUBSET Unsaved : Cancel(stopped, stored)
         /\ UNCHANGED <<recordedAs, workerVars, recording, ordinal, clips, recorderVars,
                        granted, unrecorded>>
<1>1. PICK rc \in Receipts : IngestCancellation(rc) \/ \E at \in 0 .. now : IngestRoundEnds(rc, at)
  BY DEF Ingest
<1>2. ASSUME NEW at \in 0 .. now, IngestRoundEnds(rc, at)
      PROVE  \E new \in SUBSET {r \in Rounds : status[r] = "absent"} : Schedule(new, at)
  <2>1. {r \in rc.ends : status[r] = "absent"} \in SUBSET {r \in Rounds : status[r] = "absent"}
    BY CoordinatorAssumption
  <2>2. \E new \in SUBSET {r \in rc.ends : status[r] = "absent"} : Schedule(new, at)
    BY <1>2 DEF IngestRoundEnds
  <2> QED BY <2>1, <2>2
<1>3. ASSUME IngestCancellation(rc)
      PROVE  \E stopped, stored \in SUBSET Unsaved : Cancel(stopped, stored)
  <2>1. ASSUME NEW stored \in SUBSET Unsaved, NEW c \in Unsaved \ stored,
               Cancel(stored \cup {c}, stored)
        PROVE  \E stopped, kept \in SUBSET Unsaved : Cancel(stopped, kept)
    <3>1. stored \cup {c} \in SUBSET Unsaved
      OBVIOUS
    <3> QED BY <2>1, <3>1
  <2>2. Unsaved \in SUBSET Unsaved
    OBVIOUS
  <2> QED BY <1>3, <2>1, <2>2 DEF IngestCancellation
<1>4. /\ Unlocked
      /\ UNCHANGED <<recordedAs, workerVars, recording, ordinal, clips, recorderVars,
                     granted, unrecorded>>
  BY <1>1 DEF IngestRoundEnds, IngestCancellation
<1> QED BY <1>1, <1>2, <1>3, <1>4

LEMMA IngestStepRequest ==
  ASSUME TypeOK, RequestInv, Ingest
  PROVE  RequestInv'
<1> USE DEF Captures
<1>1. /\ recording = None /\ UNCHANGED <<due, pc, recording, granted, unrecorded>>
  BY IngestEffect DEF Unlocked, workerVars
<1>2. SavedOnce' /\ RecordingInv'
  BY <1>1 DEF RequestInv, SavedOnce, RecordingInv
<1>3. \A d \in Captures : (Excused(d)' <=> Excused(d)) /\ ~Asking(d) /\ ~Asking(d)'
  BY <1>1 DEF Excused, Asking
<1>4. ASSUME NEW new \in SUBSET {r \in Rounds : status[r] = "absent"}, NEW at \in 0 .. now,
             Schedule(new, at)
      PROVE  TimerInv' /\ GrantInv'
  <2>1. /\ \A d \in Captures : status'[d] = IF d \in new THEN "scheduled" ELSE status[d]
        /\ \A r \in Rounds : driver'[r] = IF r \in new THEN at + PostRoll ELSE driver[r]
    BY <1>4 DEF Schedule
  <2>2. \A r \in new : r \in Rounds /\ status[r] = "absent" /\ r \notin due /\ granted[r] = 0
    BY DEF RequestInv, TimerInv, GrantInv
  <2>3. TimerInv'
    BY <1>1, <2>1, <2>2 DEF RequestInv, TimerInv
  <2>4. GrantInv'
    BY <1>1, <1>3, <2>1, <2>2 DEF RequestInv, GrantInv, Granted
  <2> QED BY <2>3, <2>4
<1>5. ASSUME NEW stopped \in SUBSET Unsaved, NEW stored \in SUBSET Unsaved, Cancel(stopped, stored)
      PROVE  TimerInv' /\ GrantInv'
  <2>1. /\ \A d \in Captures : status'[d] = IF d \in stored THEN "cancelled" ELSE status[d]
        /\ \A r \in Rounds : driver'[r] = IF r \in stopped THEN None ELSE driver[r]
    BY <1>5 DEF Cancel
  <2>2. TimerInv'
    BY <1>1, <2>1 DEF RequestInv, TimerInv
  <2>3. GrantInv'
    BY <1>1, <1>3, <2>1 DEF RequestInv, GrantInv, Granted
  <2> QED BY <2>2, <2>3
<1> QED BY <1>2, <1>4, <1>5, IngestEffect DEF RequestInv

(* Nothing the recorder is asked for twice goes unexplained, and nothing    *)
(* that has been asked for is still waiting for its timer.                  *)
LEMMA RequestStep ==
  ASSUME TypeOK, RequestInv, [Next]_vars
  PROVE  RequestInv'
<1> USE DEF captureVars, workerVars, recorderVars, Captures
<1>1. CASE Ingest
  BY <1>1, IngestStepRequest
<1>2. ASSUME NEW f \in Flags, ManualFlag(f) PROVE RequestInv'
  <2>1. status'[f] = "requesting" /\ \A d \in Captures : d # f => status'[d] = status[d]
    BY <1>2 DEF ManualFlag, TypeOK
  <2> QED BY <1>2, <2>1, AskStep DEF ManualFlag
<1>3. ASSUME NEW c \in Captures, RetryCapture(c) PROVE RequestInv'
  BY <1>3, AskStep DEF RetryCapture
<1>4. CASE RecordSave
  BY <1>4, RecordStepRequest
<1>5. ASSUME NEW r \in Rounds, DispatchSave(r) PROVE RequestInv'
  BY <1>5, AskStep DEF DispatchSave, IsNext
<1>6. CASE TakeDue
  <2>1. /\ pc = "idle" /\ UNCHANGED <<status, recording, granted, unrecorded>>
        /\ \A r \in Rounds : /\ r \in due' => driver[r] # None /\ driver'[r] = None
                             /\ driver'[r] # None => driver[r] # None
    BY <1>6 DEF TakeDue
  <2>2. RecordingInv' /\ TimerInv' /\ SavedOnce'
    BY <2>1 DEF RequestInv, RecordingInv, TimerInv, SavedOnce, TypeOK, Recordings
  <2>3. GrantInv'
    BY <2>1 DEF RequestInv, GrantInv, Excused, Asking, Granted
  <2> QED BY <2>2, <2>3 DEF RequestInv
<1>7. ASSUME NEW r \in Rounds, DispatchIdle(r) PROVE RequestInv'
  <2>1. /\ recording = None /\ due' \subseteq due
        /\ UNCHANGED <<status, driver, recording, granted, unrecorded>>
    BY <1>7 DEF DispatchIdle, Unlocked
  <2>2. RecordingInv' /\ TimerInv' /\ SavedOnce'
    BY <2>1 DEF RequestInv, RecordingInv, TimerInv, SavedOnce
  <2>3. GrantInv'
    BY <2>1 DEF RequestInv, GrantInv, Excused, Asking, Granted
  <2> QED BY <2>2, <2>3 DEF RequestInv
<1>8. CASE \/ Dispatched \/ DiscoverNothing \/ DiscoverSave \/ DiscoverLoses \/ Finalize
           \/ Tick \/ UNCHANGED vars
  <2>1. /\ UNCHANGED <<status, driver, due, recording, granted, unrecorded>>
        /\ pc' = pc \/ pc # "dispatch" \/ recording = None
    BY <1>8 DEF Dispatched, DiscoverNothing, DiscoverSave, DiscoverLoses, Finalize, Tick,
                vars, Unlocked
  <2>2. RecordingInv' /\ TimerInv' /\ SavedOnce'
    BY <2>1 DEF RequestInv, RecordingInv, TimerInv, SavedOnce
  <2>3. GrantInv'
    BY <2>1 DEF RequestInv, GrantInv, Excused, Asking, Granted
  <2> QED BY <2>2, <2>3 DEF RequestInv
<1> QED BY <1>1, <1>2, <1>3, <1>4, <1>5, <1>6, <1>7, <1>8 DEF Next, Drive

-----------------------------------------------------------------------------
(* The ids of the saves that somebody holds, and that ordinals only grow.   *)
LEMMA SaveIds ==
  ASSUME TypeOK
  PROVE  \A s \in Held \cup clips : s \in Saves /\ s.id \in RequestIds /\ s.id # None
<1>1. Held \cup clips \subseteq Saves
  BY DEF TypeOK, Held
<1> QED BY <1>1, CoordinatorAssumption DEF Saves

LEMMA UsedGrows ==
  ASSUME TypeOK, NEW c \in Captures, ordinal' = [ordinal EXCEPT ![c] = @ + 1],
         NEW r, r = <<c, ordinal[c] + 1>>
  PROVE  /\ \A id \in RequestIds : Used(id) => Used(id)'
         /\ r \in RequestIds /\ r # None /\ ~Used(r) /\ Used(r)'
<1>1. ordinal[c] \in Nat /\ ordinal'[c] = ordinal[c] + 1
  BY DEF TypeOK
<1>2. ASSUME NEW id \in RequestIds, Used(id) PROVE Used(id)'
  <2>1. id[1] \in Captures /\ id[2] \in Nat /\ ordinal[id[1]] \in Nat
    BY DEF RequestIds, TypeOK
  <2>2. ordinal'[id[1]] = IF id[1] = c THEN ordinal[id[1]] + 1 ELSE ordinal[id[1]]
    BY <2>1 DEF TypeOK
  <2> QED BY <1>2, <2>1, <2>2 DEF Used
<1>3. r \in RequestIds /\ r # None
  BY <1>1, CoordinatorAssumption DEF RequestIds
<1>4. r[1] = c /\ r[2] = ordinal[c] + 1
  OBVIOUS
<1> QED BY <1>1, <1>2, <1>3, <1>4 DEF Used

(* A request that starts or queues a save of its own.                       *)
LEMMA FreshSave ==
  ASSUME TypeOK, SaveInv, Unlocked, NEW c \in Captures, NEW by, NEW r,
         r = <<c, ordinal[c] + 1>>, Asked(c, by, r), recording' # None,
         Started(r, ProvenanceOf(c)) \/ Queued(r, ProvenanceOf(c)),
         UNCHANGED <<ack, clips, recordedAs, unrecorded>>
  PROVE  CoverInv' /\ IdInv' /\ ManualInv'
<1> PICK n : n = [id |-> r, provenance |-> ProvenanceOf(c)]
  OBVIOUS
<1>1. /\ \A id \in RequestIds : Used(id) => Used(id)'
      /\ r \in RequestIds /\ r # None /\ ~Used(r) /\ Used(r)'
  BY UsedGrows DEF Asked
<1>2. /\ recording'.capture = c /\ recording'.request = r
      /\ recordedAs' = recordedAs /\ unrecorded' = unrecorded
      /\ recording = None
  BY DEF Asked, Unlocked
<1>3. \A s, d : /\ Holder(s, d) <=> recordedAs[d] = s.id
                /\ Holder(s, d)' <=> recordedAs[d] = s.id \/ (d = c /\ r = s.id)
  BY <1>2 DEF Holder
<1>4. n.id = r /\ n.provenance = ProvenanceOf(c)
  OBVIOUS
<1>5. /\ \A s \in Held \cup clips : s.id \in RequestIds /\ s.id # None /\ s.id # r
      /\ \A d \in Captures : recordedAs[d] # r
  BY <1>1, SaveIds DEF SaveInv, IdInv, Taken
<1>6. /\ \/ inFlight = None /\ inFlight' = n /\ queued' = queued
         \/ inFlight # None /\ inFlight' = inFlight /\ queued = None /\ queued' = n
      /\ Held' \subseteq Held \cup {n}
  BY DEF Started, Queued, Held
<1>7. CoverInv'
  <2>1. ASSUME NEW s \in Held PROVE Covered(s)'
    BY <1>2, <1>3 DEF SaveInv, CoverInv, Covered
  <2>2. Covered(n)'
    BY <1>3, <1>4 DEF Covered, ProvenanceOf
  <2> QED BY <1>6, <2>1, <2>2 DEF CoverInv
<1>8. IdInv'
  <2>1. ASSUME NEW id \in RequestIds, Taken(id)' PROVE id = r \/ Taken(id)
    BY <1>2, <1>4, <1>6, <2>1 DEF Taken
  <2>2. /\ inFlight' # None /\ queued' # None => inFlight'.id # queued'.id
        /\ \A s \in {inFlight', queued'} \ {None} :
             (ack' # None => ack'.id # s.id) /\ \A t \in clips' : t.id # s.id
    BY <1>4, <1>5, <1>6 DEF SaveInv, IdInv, Held
  <2> QED BY <1>1, <2>1, <2>2 DEF SaveInv, IdInv
<1>9. ManualInv'
  <2> SUFFICES ASSUME NEW s \in Held' \cup clips', NEW f \in Flags, Holder(s, f)'
               PROVE  s.provenance = "manual"
    BY DEF ManualInv
  <2>1. CASE s \in Held \cup clips
    BY <1>3, <1>5, <2>1 DEF SaveInv, ManualInv
  <2>2. CASE s = n
    <3>1. recordedAs[f] # r
      BY <1>5 DEF Captures
    <3> QED BY <1>3, <1>4, <2>2, <3>1 DEF ProvenanceOf
  <2> QED BY <1>6, <2>1, <2>2
<1> QED BY <1>7, <1>8, <1>9

(* A request that joins the queued save.                                    *)
LEMMA MergedSave ==
  ASSUME TypeOK, SaveInv, Unlocked, NEW c \in Captures, NEW by, NEW r,
         inFlight # None, queued # None, r = queued.id, Asked(c, by, r), recording' # None,
         Merged(r, ProvenanceOf(c)), UNCHANGED <<ack, clips, recordedAs, unrecorded>>
  PROVE  CoverInv' /\ IdInv' /\ ManualInv'
<1> PICK q : q = queued'
  OBVIOUS
<1>1. \A id \in RequestIds : Used(id) => Used(id)'
  BY UsedGrows DEF Asked
<1>2. /\ recording'.capture = c /\ recording'.request = r
      /\ recordedAs' = recordedAs /\ unrecorded' = unrecorded
      /\ recording = None
  BY DEF Asked, Unlocked
<1>3. \A s, d : /\ Holder(s, d) <=> recordedAs[d] = s.id
                /\ Holder(s, d)' <=> recordedAs[d] = s.id \/ (d = c /\ r = s.id)
  BY <1>2 DEF Holder
<1>4. /\ q.id = r /\ r = queued.id
      /\ q.provenance = "manual" <=> queued.provenance = "manual" \/ ProvenanceOf(c) = "manual"
  BY DEF Merged, TypeOK, Saves
<1>5. /\ queued \in Held /\ inFlight' = inFlight /\ queued' = q /\ ack' = ack /\ clips' = clips
      /\ \A s \in Held' : s = q \/ (s \in {inFlight, ack} \ {None} /\ s \in Held)
  BY DEF Merged, Held
<1>6. CoverInv'
  <2>1. ASSUME NEW s \in Held PROVE Covered(s)'
    BY <1>2, <1>3 DEF SaveInv, CoverInv, Covered
  <2>2. Covered(q)'
    <3>1. Covered(queued)
      BY <1>5 DEF SaveInv, CoverInv
    <3> QED BY <1>2, <1>3, <1>4, <3>1 DEF Covered, ProvenanceOf
  <2> QED BY <1>5, <2>1, <2>2 DEF CoverInv
<1>7. IdInv'
  <2>1. ASSUME NEW id \in RequestIds, Taken(id)' PROVE Taken(id)
    BY <1>2, <1>4, <1>5, <2>1 DEF Taken
  <2>2. /\ inFlight' # None /\ queued' # None => inFlight'.id # queued'.id
        /\ \A s \in {inFlight', queued'} \ {None} :
             (ack' # None => ack'.id # s.id) /\ \A t \in clips' : t.id # s.id
    BY <1>4, <1>5 DEF SaveInv, IdInv
  <2> QED BY <1>1, <2>1, <2>2 DEF SaveInv, IdInv
<1>8. ManualInv'
  <2> SUFFICES ASSUME NEW s \in Held' \cup clips', NEW f \in Flags, Holder(s, f)'
               PROVE  s.provenance = "manual"
    BY DEF ManualInv
  <2>1. CASE s \in ({inFlight, ack} \ {None}) \cup clips
    <3>1. s.id # r /\ s \in Held \cup clips
      BY <1>4, <1>5, <2>1 DEF SaveInv, IdInv, Held
    <3> QED BY <1>3, <3>1 DEF SaveInv, ManualInv
  <2>2. CASE s = q
    <3>1. recordedAs[f] = r => queued.provenance = "manual"
      BY <1>3, <1>4, <1>5 DEF SaveInv, ManualInv
    <3> QED BY <1>3, <1>4, <2>2, <3>1 DEF ProvenanceOf
  <2> QED BY <1>5, <2>1, <2>2
<1> QED BY <1>6, <1>7, <1>8

(* A request that the recorder refuses.                                     *)
LEMMA RefusedSave ==
  ASSUME TypeOK, SaveInv, Unlocked, NEW c \in Captures, NEW by,
         Asked(c, by, None), UNCHANGED <<inFlight, queued, ack, clips, recordedAs, unrecorded>>
  PROVE  CoverInv' /\ IdInv' /\ ManualInv'
<1>1. \A id \in RequestIds : id # None /\ (Used(id) => Used(id)')
  BY UsedGrows, CoordinatorAssumption DEF Asked
<1>2. recording'.request = None /\ recording = None /\ Held' = Held
  BY DEF Asked, Unlocked, Held
<1>3. \A s \in Held \cup clips : \A d : Holder(s, d)' <=> Holder(s, d)
  BY <1>2, SaveIds DEF Holder
<1>4. CoverInv'
  <2>1. Flags \subseteq Captures
    BY DEF Captures
  <2> QED BY <1>2, <1>3, <2>1 DEF SaveInv, CoverInv, Covered
<1>5. IdInv'
  <2>1. ASSUME NEW id \in RequestIds, Taken(id)' PROVE Taken(id)
    BY <1>1, <1>2, <2>1 DEF Taken
  <2> QED BY <1>1, <2>1 DEF SaveInv, IdInv
<1>6. ManualInv'
  BY <1>2, <1>3 DEF SaveInv, ManualInv
<1> QED BY <1>4, <1>5, <1>6

LEMMA AskStepSave ==
  ASSUME TypeOK, SaveInv, Unlocked, NEW c \in Captures, NEW by \in {"worker", "caller"},
         RequestSave(c, by), UNCHANGED <<ack, clips, recordedAs, unrecorded>>,
         \A d \in Captures : status[d] = "requested" => status'[d] = "requested"
  PROVE  SaveInv'
<1>1. RecordedInv'
  BY DEF SaveInv, RecordedInv
<1>2. recording' # None
  BY RequestGrants
<1> PICK r : r = <<c, ordinal[c] + 1>>
  OBVIOUS
<1>3. CASE Asked(c, by, r) /\ (Started(r, ProvenanceOf(c)) \/ Queued(r, ProvenanceOf(c)))
  BY <1>1, <1>2, <1>3, FreshSave DEF SaveInv
<1>4. CASE inFlight # None /\ queued # None /\ Asked(c, by, queued.id)
           /\ Merged(queued.id, ProvenanceOf(c))
  BY <1>1, <1>2, <1>4, MergedSave DEF SaveInv
<1>5. CASE Asked(c, by, None) /\ UNCHANGED <<inFlight, queued>>
  BY <1>1, <1>5, RefusedSave DEF SaveInv
<1> QED BY <1>3, <1>4, <1>5, RequestAnswer DEF recorderVars

(* Once stored, the request belongs to its capture as it did while it was   *)
(* being stored; when storing fails, that is remembered.                    *)
LEMMA RecordStepSave ==
  ASSUME TypeOK, RequestInv, SaveInv, RecordSave
  PROVE  SaveInv'
<1> PICK c \in Captures : c = recording.capture
  BY RecordAnswer DEF TypeOK, Recordings
<1> PICK q : q = recording.request
  OBVIOUS
<1>1. /\ recording # None /\ recording' = None
      /\ UNCHANGED <<ordinal, clips, ack, inFlight, queued>>
      /\ q \in RequestIds \cup {None}
  BY RecordAnswer DEF TypeOK, Recordings, recorderVars
<1>2. Held' = Held /\ clips' = clips /\ \A id : Used(id)' <=> Used(id)
  BY <1>1 DEF Held, Used
<1>3. recordedAs[c] = None
  <2>1. status[c] # "requested"
    BY <1>1 DEF RequestInv, RecordingInv, TypeOK, Recordings
  <2> QED BY <2>1 DEF SaveInv, RecordedInv
<1>4. \A s : \A d \in Captures :
        /\ Holder(s, d) <=> recordedAs[d] = s.id \/ (d = c /\ q = s.id)
        /\ Holder(s, d)' <=> recordedAs'[d] = s.id
  BY <1>1 DEF Holder
<1>5. \A s \in Held \cup clips : s.id \in RequestIds /\ s.id # None
  BY SaveIds
<1>6. Flags \subseteq Captures
  BY DEF Captures
<1>7. CASE /\ status' = [status EXCEPT ![c] = IF q = None THEN "retryable" ELSE "requested"]
           /\ recordedAs' = [recordedAs EXCEPT ![c] = q]
           /\ UNCHANGED <<unrecorded, faults>>
  <2>1. /\ \A d \in Captures : recordedAs'[d] = IF d = c THEN q ELSE recordedAs[d]
        /\ \A d \in Captures :
             status'[d] = IF d = c THEN (IF q = None THEN "retryable" ELSE "requested") ELSE status[d]
        /\ unrecorded' = unrecorded
    BY <1>7 DEF TypeOK
  <2>2. \A s \in Held \cup clips : \A d \in Captures : Holder(s, d)' <=> Holder(s, d)
    BY <1>3, <1>4, <1>5, <2>1
  <2>3. RecordedInv'
    BY <2>1 DEF SaveInv, RecordedInv
  <2>4. CoverInv'
    BY <1>2, <1>6, <2>1, <2>2 DEF SaveInv, CoverInv, Covered
  <2>5. ManualInv'
    BY <1>2, <1>6, <2>2 DEF SaveInv, ManualInv
  <2>6. ASSUME NEW id \in RequestIds, Taken(id)' PROVE Taken(id)
    BY <1>1, <1>2, <2>1, <2>6 DEF Taken
  <2>7. IdInv'
    BY <1>1, <1>2, <2>6 DEF SaveInv, IdInv
  <2> QED BY <2>3, <2>4, <2>5, <2>7 DEF SaveInv
<1>8. CASE /\ UNCHANGED <<status, recordedAs>>
           /\ unrecorded' = unrecorded \cup {[capture |-> c, request |-> i] : i \in {q} \ {None}}
  <2>1. /\ unrecorded \subseteq unrecorded'
        /\ q # None => \E u \in unrecorded' : u.request = q
    <3>1. q # None => [capture |-> c, request |-> q] \in unrecorded'
      BY <1>8
    <3> QED BY <1>8, <3>1
  <2>2. \A s \in Held \cup clips : \A d \in Captures : Holder(s, d)' => Holder(s, d)
    BY <1>4, <1>8
  <2>3. ASSUME NEW s \in Held PROVE Covered(s)'
    <3>1. Covered(s) /\ s.id # None
      BY <1>5 DEF SaveInv, CoverInv
    <3>2. CASE s.id = q
      BY <2>1, <3>1, <3>2 DEF Covered
    <3>3. CASE s.id # q
      <4>1. \A d \in Captures : Holder(s, d)' <=> Holder(s, d)
        BY <1>4, <1>8, <3>3
      <4> QED BY <1>6, <2>1, <3>1, <4>1 DEF Covered
    <3> QED BY <3>2, <3>3
  <2>4. RecordedInv' /\ CoverInv'
    BY <1>2, <1>8, <2>3 DEF SaveInv, RecordedInv, CoverInv
  <2>5. ManualInv'
    BY <1>2, <1>6, <2>2 DEF SaveInv, ManualInv
  <2>6. ASSUME NEW id \in RequestIds, Taken(id)' PROVE Taken(id)
    BY <1>1, <1>2, <1>8, <2>6 DEF Taken
  <2>7. IdInv'
    BY <1>1, <1>2, <2>6 DEF SaveInv, IdInv
  <2> QED BY <2>4, <2>5, <2>7 DEF SaveInv
<1> QED BY <1>7, <1>8, RecordAnswer

(* Saves that move from the queue to the child, to the worker and into a    *)
(* Clip, or get lost, keep their holders.                                   *)
LEMMA MovedSaves ==
  ASSUME TypeOK, SaveInv, UNCHANGED <<recordedAs, recording, unrecorded, ordinal>>,
         \A d \in Captures : status[d] = "requested" => status'[d] = "requested",
         Held' \subseteq Held, clips' \subseteq clips \cup Held,
         /\ inFlight' # None /\ queued' # None => inFlight'.id # queued'.id
         /\ \A s \in {inFlight', queued'} \ {None} :
              (ack' # None => ack'.id # s.id) /\ \A t \in clips' : t.id # s.id
  PROVE  SaveInv'
<1>1. \A s, d : Holder(s, d)' <=> Holder(s, d)
  BY DEF Holder
<1>2. RecordedInv'
  BY DEF SaveInv, RecordedInv
<1>3. CoverInv'
  BY <1>1 DEF SaveInv, CoverInv, Covered
<1>4. ManualInv'
  BY <1>1 DEF SaveInv, ManualInv
<1>5. ASSUME NEW id \in RequestIds, Taken(id)' PROVE Taken(id) /\ (Used(id)' <=> Used(id))
  <2>1. Held' \cup clips' \subseteq Held \cup clips
    OBVIOUS
  <2>2. Taken(id)
    BY <1>5, <2>1 DEF Taken
  <2> QED BY <2>2 DEF Used
<1>6. IdInv'
  BY <1>5 DEF SaveInv, IdInv
<1> QED BY <1>2, <1>3, <1>4, <1>6 DEF SaveInv

(* No save is without its capture, and no Manual Flag's save becomes an     *)
(* automatic one, at any step.                                              *)
LEMMA SaveStep ==
  ASSUME TypeOK, AckInv, RequestInv, SaveInv, [Next]_vars
  PROVE  SaveInv'
<1> USE DEF captureVars, workerVars, recorderVars, Captures
<1>1. CASE Ingest
  <2>1. ASSUME NEW d \in Captures, status[d] = "requested" PROVE status'[d] = "requested"
    <3>1. ASSUME NEW new \in SUBSET {r \in Rounds : status[r] = "absent"}, NEW at, Schedule(new, at)
          PROVE  status'[d] = "requested"
      BY <2>1, <3>1 DEF Schedule
    <3>2. ASSUME NEW stopped, NEW stored \in SUBSET Unsaved, Cancel(stopped, stored)
          PROVE  status'[d] = "requested"
      BY <2>1, <3>2 DEF Cancel, Unsaved
    <3> QED BY <1>1, <3>1, <3>2, IngestEffect
  <2> QED BY <1>1, <2>1, IngestEffect, MovedSaves DEF Held, SaveInv, IdInv
<1>2. ASSUME NEW f \in Flags, ManualFlag(f) PROVE SaveInv'
  <2>1. \A d \in Captures : status[d] = "requested" => status'[d] = "requested"
    BY <1>2 DEF ManualFlag, TypeOK
  <2> QED BY <1>2, <2>1, AskStepSave DEF ManualFlag
<1>3. ASSUME NEW c \in Captures, RetryCapture(c) PROVE SaveInv'
  BY <1>3, AskStepSave DEF RetryCapture
<1>4. CASE RecordSave
  BY <1>4, RecordStepSave
<1>5. ASSUME NEW r \in Rounds, DispatchSave(r) PROVE SaveInv'
  BY <1>5, AskStepSave DEF DispatchSave
<1>6. CASE DiscoverSave
  <2>1. /\ inFlight # None /\ ack' = inFlight /\ inFlight' = queued /\ queued' = None
        /\ UNCHANGED <<recordedAs, recording, unrecorded, ordinal, status, clips>>
    BY <1>6 DEF DiscoverSave, Recorder!Acknowledge
  <2> QED BY <2>1, MovedSaves DEF Held, SaveInv, IdInv
<1>7. CASE DiscoverLoses
  <2>1. /\ inFlight' = None /\ queued' = None
        /\ UNCHANGED <<recordedAs, recording, unrecorded, ordinal, status, clips, ack>>
    BY <1>7 DEF DiscoverLoses, Recorder!Lose
  <2> QED BY <2>1, MovedSaves DEF Held
<1>8. CASE Finalize
  <2>1. /\ ack # None /\ ack' = None /\ clips' \subseteq clips \cup {ack}
        /\ UNCHANGED <<recordedAs, recording, unrecorded, ordinal, status, inFlight, queued>>
    BY <1>8 DEF Finalize, AckInv
  <2>2. Held' \subseteq Held /\ ack \in Held
    BY <2>1 DEF Held
  <2>3. \A s \in {inFlight', queued'} \ {None} : \A t \in clips' : t.id # s.id
    BY <2>1 DEF SaveInv, IdInv
  <2> QED BY <2>1, <2>2, <2>3, MovedSaves DEF SaveInv, IdInv
<1>9. CASE \/ TakeDue \/ Dispatched \/ DiscoverNothing \/ Tick \/ UNCHANGED vars
           \/ \E r \in Rounds : DispatchIdle(r)
  <2>1. UNCHANGED <<recordedAs, recording, unrecorded, ordinal, status, clips, inFlight, queued, ack>>
    BY <1>9 DEF TakeDue, Dispatched, DiscoverNothing, Tick, DispatchIdle, vars
  <2> QED BY <2>1, MovedSaves DEF Held, SaveInv, IdInv
<1> QED BY <1>1, <1>2, <1>3, <1>4, <1>5, <1>6, <1>7, <1>8, <1>9 DEF Next, Drive

-----------------------------------------------------------------------------
(* A daemon that has just started.                                          *)
LEMMA InitIInv ==
  ASSUME Init
  PROVE  IInv
<1> USE DEF Init, Recorder!Init
<1>1. TypeOK /\ AckInv
  BY DEF TypeOK, AckInv, Statuses
<1>2. RequestInv
  BY DEF RequestInv, RecordingInv, TimerInv, GrantInv, SavedOnce, Asking, Captures
<1>3. SaveInv
  <2>1. Held = {}
    BY DEF Held
  <2>2. \A id \in RequestIds : ~Taken(id)
    BY <2>1, CoordinatorAssumption DEF Taken
  <2> QED BY <2>1, <2>2 DEF SaveInv, RecordedInv, CoverInv, IdInv, ManualInv
<1> QED BY <1>1, <1>2, <1>3 DEF IInv

(* The inductive invariant of the coordinator and its worker.               *)
THEOREM CoordinatorInvariant == Spec => []IInv
<1>1. Init => IInv
  BY InitIInv
<1>2. IInv /\ [Next]_vars => IInv'
  BY TypeStep, RequestStep, SaveStep DEF IInv
<1> QED BY <1>1, <1>2, PTL DEF Spec

(* Every variable keeps its type.                                           *)
THEOREM CoordinatorTypeCorrect == Spec => []TypeOK
<1>1. IInv => TypeOK
  BY DEF IInv
<1> QED BY <1>1, CoordinatorInvariant, PTL

(* on_timer, retry_capture and manual_flag ask the recorder again only for  *)
(* a save whose acceptance the store failed to record.                      *)
THEOREM SavesAreNotRepeated == Spec => []SavedOnce
<1>1. IInv => SavedOnce
  BY DEF IInv, RequestInv
<1> QED BY <1>1, CoordinatorInvariant, PTL

(* finalize_capture finds the capture of the save it is given.              *)
THEOREM AcknowledgedIsRecorded == Spec => []AckIsRecorded
<1>1. IInv => AckIsRecorded
  <2> SUFFICES ASSUME IInv, ack # None, Unlocked, ~\E u \in unrecorded : u.request = ack.id
               PROVE  Known(ack)
    BY DEF AckIsRecorded
  <2>1. Covered(ack)
    BY DEF IInv, SaveInv, CoverInv, Held
  <2> QED BY <2>1 DEF Covered, Holder, Known, Unlocked
<1> QED BY <1>1, CoordinatorInvariant, PTL

(* A Clip that a Manual Flag was recorded under is a manual one.            *)
THEOREM ManualClips == Spec => []ManualClipIsManual
<1>1. IInv => ManualClipIsManual
  BY DEF IInv, SaveInv, ManualInv, Holder, ManualClipIsManual
<1> QED BY <1>1, CoordinatorInvariant, PTL

(* cancel_unsaved is final, whoever holds the timer.                        *)
THEOREM CancellationIsFinal == Spec => CancelledIsNeverSaved
<1>1. ASSUME IInv, [Next]_vars, NEW r \in Rounds, status[r] = "cancelled"
      PROVE  status'[r] = "cancelled" /\ granted'[r] = granted[r]
  <2> USE <1>1 DEF captureVars, workerVars, recorderVars, Captures
  <2>1. TypeOK /\ RecordingInv
    BY DEF IInv, RequestInv
  <2>2. ASSUME NEW c \in Captures, NEW by \in {"worker", "caller"}, RequestSave(c, by), c # r
        PROVE  granted'[r] = granted[r]
    BY <2>1, <2>2, RequestGrants DEF TypeOK
  <2>3. CASE Ingest
    BY <2>3, IngestEffect DEF Schedule, Cancel, Unsaved
  <2>4. ASSUME NEW f \in Flags, ManualFlag(f) PROVE status'[r] = "cancelled" /\ granted'[r] = granted[r]
    <3>1. f # r
      BY <2>4 DEF ManualFlag
    <3> QED BY <2>1, <2>2, <2>4, <3>1 DEF ManualFlag, TypeOK
  <2>5. ASSUME NEW c \in Captures, RetryCapture(c)
        PROVE  status'[r] = "cancelled" /\ granted'[r] = granted[r]
    BY <2>2, <2>5 DEF RetryCapture
  <2>6. CASE RecordSave
    <3>1. recording.capture # r /\ granted' = granted
      BY <2>1, <2>6, RecordAnswer DEF RecordingInv, TypeOK, Recordings
    <3> QED BY <2>1, <2>6, <3>1, RecordAnswer DEF TypeOK
  <2>7. ASSUME NEW c \in Rounds, DispatchSave(c)
        PROVE  status'[r] = "cancelled" /\ granted'[r] = granted[r]
    BY <2>2, <2>7 DEF DispatchSave
  <2>8. CASE \/ TakeDue \/ Dispatched \/ DiscoverNothing \/ DiscoverSave \/ DiscoverLoses
             \/ Finalize \/ Tick \/ UNCHANGED vars \/ \E c \in Rounds : DispatchIdle(c)
    BY <2>8 DEF TakeDue, Dispatched, DiscoverNothing, DiscoverSave, DiscoverLoses, Finalize,
                Tick, vars, DispatchIdle
  <2> QED BY <2>3, <2>4, <2>5, <2>6, <2>7, <2>8 DEF Next, Drive
<1>2. IInv /\ [Next]_vars =>
        [\A r \in Rounds : status[r] = "cancelled" =>
           status'[r] = "cancelled" /\ granted'[r] = granted[r]]_vars
  BY <1>1
<1> QED BY <1>2, CoordinatorInvariant, PTL DEF Spec, CancelledIsNeverSaved
=============================================================================
