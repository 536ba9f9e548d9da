---------------------------- MODULE EvidenceLedger ----------------------------
(***************************************************************************)
(* StorageEvidenceStore (crates/openfrag-live/src/storage_adapter.rs) over *)
(* the capture tables of openfrag-storage, as the coordinator drives it: a *)
(* receipt that ends rounds or completes kills, a save, its failure, its   *)
(* cancellation, a Manual Flag and the finalization of a Clip.             *)
(*                                                                         *)
(* A method runs under the adapter's mutex, but each of its storage calls  *)
(* commits on its own: todo holds the calls that are left of the method,   *)
(* any of which may fail, and the daemon may be restarted between any two. *)
(* What a row references is represented by the row; a receipt's hash,      *)
(* ordinal and stamp by the payload and the ordinal.                       *)
(***************************************************************************)
EXTENDS Naturals, FiniteSets, Sequences, SequencesExt

CONSTANTS
  Rounds,       \* map hash and number, the same in every session
  Flags,        \* ids of Manual Flag captures
  Payloads,     \* names of GSI payloads
  Kills,        \* Payloads -> round it completes three kills in, or None
  Ends,         \* Payloads -> sequence of rounds it ends
  Breaks,       \* payloads that make the stream stale or reset the session
  None,
  MaxSession, MaxOrdinal, MaxRequests, MaxFaults  \* bounds

Captures == Rounds \cup Flags
Receipt == Payloads \X (1..MaxOrdinal)
Fresh == Captures \X (1..MaxRequests)              \* {capture}:request:{ordinal}
Synthetic == Captures \X {0} \X (0..MaxRequests)   \* {capture} or {capture}:retry:{generation}
Requests == Fresh \cup Synthetic
Media == Requests \X (1..MaxSession)

ASSUME LedgerAssumption ==
  /\ IsFiniteSet(Captures) /\ Rounds \cap Flags = {} /\ Breaks \subseteq Payloads
  /\ MaxRequests \in Nat /\ MaxSession \in Nat \ {0}
  /\ None \notin Rounds \cup Requests \cup Media /\ "none" \notin Rounds
  /\ \A p \in Payloads :
       /\ Kills[p] \in Rounds \cup {None} /\ Ends[p] \in Seq(Rounds)
       /\ Kills[p] # None => Ends[p] = <<>>   \* derive_transition: in the same round, or not

VARIABLES
  session,      \* capture sessions created so far, the last is active
  snapshots,    \* {[session, receipt]}
  candidates,   \* {[session, round, kind, first]}
  triggers,     \* {[session, round, receipt]}
  attempts,     \* [Requests -> [session, status, media]], session 0: no row
  joins,        \* {[session, capture, request]}: candidates and flags joined to attempts
  flags,        \* {[session, flag]}
  clips,        \* [Requests -> [media, kind, origin, complete]], media None: no row
  hydrated, persisted, memory,  \* of the adapter: receipts, candidates' receipts, save_attempts
  next, captures, armed, noted, evidence,  \* of the engine and the coordinator
  ordinal, outstanding, acked,  \* of the recorder: in flight and queued, discovered
  todo,         \* what is left of the method that runs
  faults,
  torn          \* history: attempts of the captures whose upsert stopped halfway

rows == <<session, snapshots, candidates, triggers, attempts, joins, flags, clips>>
adapter == <<hydrated, persisted, memory>>
coordinator == <<next, captures, armed, noted, evidence>>
recorder == <<ordinal, outstanding, acked>>
vars == <<rows, adapter, coordinator, recorder, todo, faults, torn>>

NoAttempt == [session |-> 0, status |-> "none", media |-> None]
NoClip == [media |-> None, kind |-> None, origin |-> {}, complete |-> FALSE]
Unknown == [request |-> None, generation |-> 0, failed |-> FALSE]
Statuses == {"none", "scheduled", "requesting", "requested", "retryable", "cancelled"}

Init ==
  /\ session = 1
  /\ snapshots = {} /\ candidates = {} /\ triggers = {} /\ joins = {} /\ flags = {}
  /\ attempts = [q \in Requests |-> NoAttempt]
  /\ clips = [q \in Requests |-> NoClip]
  /\ hydrated = {}
  /\ persisted = [r \in Rounds |-> {}]
  /\ memory = [c \in Captures |-> Unknown]
  /\ next = 1
  /\ captures = [c \in Captures |-> "none"]
  /\ armed = {}
  /\ noted = [r \in Rounds |-> {}] /\ evidence = [r \in Rounds |-> {}]
  /\ ordinal = 0 /\ outstanding = <<>> /\ acked = None
  /\ todo = <<>> /\ faults = 0 /\ torn = {}
-----------------------------------------------------------------------------
(* The methods, as the storage calls they will make.                        *)

(* receipt_trigger                                                          *)
Trigger(i) == IF Kills[i[1]] # None THEN "kill_milestone" ELSE "official_round_end"

Call(name, c, x) == [do |-> name, capture |-> c, arg |-> x]

(* Mutant: a candidate that is stored is not looked at again                *)
PersistCandidateOnce(r, ids) ==
  LET missing == SetToSeq(ids)
      inserts == [n \in 1..Len(missing) |-> Call("trigger", r, missing[n])]
  IN IF persisted[r] # {} THEN <<>>
     ELSE <<Call("candidate", r, missing[1])>> \o inserts \o <<Call("persisted", r, ids)>>

(* persist_candidate: the candidate's receipts that are not stored yet, and *)
(* the candidate first if this session has none for the round.  The memory  *)
(* of what is stored is brought up to date at the end.                      *)
PersistCandidate(r, ids) ==
  LET missing == SetToSeq(ids \ persisted[r])
      inserts == [n \in 1..Len(missing) |-> Call("trigger", r, missing[n])]
      created == IF persisted[r] = {} THEN <<Call("candidate", r, missing[1])>> ELSE <<>>
  IN IF missing = <<>> THEN <<>> ELSE created \o inserts \o <<Call("persisted", r, ids)>>

(* Mutant: a failed attempt is used again                                   *)
EnsureAttemptFailed(c, q) ==
  IF memory[c].request # None THEN <<>>
  ELSE <<Call("attempt", c, IF q # None THEN q ELSE <<c, 0, 0>>)>>

(* ensure_attempt: the capture's attempt, unless that has failed            *)
EnsureAttempt(c, q) ==
  LET known == memory[c].request # None
      generation == IF known THEN memory[c].generation + 1 ELSE 0
  IN IF known /\ ~memory[c].failed THEN <<>>
     ELSE <<Call("attempt", c, IF q # None THEN q ELSE <<c, 0, generation>>)>>

(* ensure_manual_flag                                                       *)
EnsureFlag(c) ==
  IF c \in Flags /\ [session |-> session, flag |-> c] \notin flags
  THEN <<Call("flag", c, None)>> ELSE <<>>

(* The common part of upsert_capture from ensure_attempt on                 *)
UpsertAttempt(c, q) ==
  EnsureAttempt(c, q) \o EnsureFlag(c) \o <<Call("join", c, None)>>

(* upsert_capture: the status is the coordinator's, set when it returns     *)
UpsertScheduled(r, ids) == PersistCandidate(r, ids) \o <<Call("scheduled", r, ids)>>
UpsertRequested(c, q) == UpsertAttempt(c, q) \o <<Call("requested", c, None)>>
UpsertRetryable(c) == UpsertAttempt(c, None) \o <<Call("fail", c, None), Call("retryable", c, None)>>

(* cancel_unsaved, for one capture: its timer goes first.  A capture that   *)
(* is still scheduled has no window, and upsert_capture asks for one as     *)
(* soon as it remembers an attempt: of an upsert that stopped halfway.      *)
UpsertCancelled(c) ==
  <<Call("disarm", c, None)>> \o
  (CASE memory[c].request = None -> <<Call("cancelled", c, None)>>
     [] memory[c].request # None /\ captures[c] = "scheduled" -> <<Call("window", c, None)>>
     [] OTHER -> UpsertAttempt(c, None) \o <<Call("fail", c, None), Call("cancelled", c, None)>>)

(* Coordinator::ingest: cancel_unsaved, in the order cs of a hash map,      *)
(* create_candidate, then schedule_round_capture for every round that ended *)
Unsaved == {r \in Rounds : captures[r] \in {"scheduled", "retryable"}}
Orders(p) == SetToSeqs(IF p \in Breaks THEN Unsaved ELSE {})
Cancellations(cs) == FlattenSeq([n \in 1..Len(cs) |-> UpsertCancelled(cs[n])])
NewCandidate(p, i) ==
  LET r == Kills[p]
  IN IF r = None THEN <<>>
     ELSE IF noted[r] # {} THEN <<>>
     ELSE PersistCandidate(r, {i}) \o <<Call("noted", r, i)>>
NewCaptures(p, i) ==
  FlattenSeq([n \in DOMAIN Ends[p] |->
    LET r == Ends[p][n]
    IN IF captures[r] = "none" THEN UpsertScheduled(r, noted[r] \cup {i}) ELSE <<>>])
IngestCalls(p, cs) ==
  LET i == <<p, next>>
  IN (IF i \in hydrated THEN <<>> ELSE <<Call("snapshot", None, i)>>)
     \o Cancellations(cs) \o NewCandidate(p, i) \o NewCaptures(p, i)
     \o <<Call("processed", None, i)>>

(* finalize_capture                                                         *)
FinalizeCalls(ack) == <<Call("clip", None, ack), Call("origin", None, ack)>>
-----------------------------------------------------------------------------
(* The storage calls, and the bookkeeping after them.                       *)
Step == Head(todo)
Capture == Step.capture
Doing(name) == todo # <<>> /\ Step.do = name
Continue == todo' = Tail(todo) /\ UNCHANGED <<faults, torn>>
Upserted == {todo[n].capture : n \in {m \in DOMAIN todo :
               todo[m].do \in {"requested", "retryable", "cancelled"}}}
Abort == todo' = <<>> /\ torn' = torn \cup {memory[c].request : c \in Upserted}

(* record_gsi_snapshot: UNIQUE(capture_session_id, arrival_ordinal)         *)
CanRecord(i) == \A s \in snapshots : s.session = session => s.receipt[2] # i[2]
RecordSnapshotIgnored ==  \* mutant: the changed count is not looked at
  /\ Doing("snapshot")
  /\ snapshots' = snapshots \cup {s \in {[session |-> session, receipt |-> Step.arg]} :
                                    CanRecord(Step.arg)}
  /\ hydrated' = hydrated \cup {Step.arg}
  /\ Continue
  /\ UNCHANGED <<session, candidates, triggers, attempts, joins, flags, clips, persisted,
                 memory, coordinator, recorder>>
RecordSnapshot ==
  /\ Doing("snapshot") /\ CanRecord(Step.arg)
  /\ snapshots' = snapshots \cup {[session |-> session, receipt |-> Step.arg]}
  /\ hydrated' = hydrated \cup {Step.arg}
  /\ Continue
  /\ UNCHANGED <<session, candidates, triggers, attempts, joins, flags, clips, persisted,
                 memory, coordinator, recorder>>

(* create_candidate: UNIQUE(session, rule, kind, first and last transition) *)
CanCreate(i) ==
  \A c \in candidates : ~(c.session = session /\ c.kind = Trigger(i) /\ c.first = i)
CreateCandidate ==
  /\ Doing("candidate") /\ CanCreate(Step.arg)
  /\ candidates' = candidates \cup {[session |-> session, round |-> Capture,
                                     kind |-> Trigger(Step.arg), first |-> Step.arg]}
  /\ Continue
  /\ UNCHANGED <<session, snapshots, triggers, attempts, joins, flags, clips, adapter,
                 coordinator, recorder>>

(* add_candidate_trigger: PRIMARY KEY(candidate, snapshot, ordinal)         *)
NewTrigger == [session |-> session, round |-> Capture, receipt |-> Step.arg]
AddTrigger ==
  /\ Doing("trigger") /\ NewTrigger \notin triggers
  /\ triggers' = triggers \cup {NewTrigger}
  /\ Continue
  /\ UNCHANGED <<session, snapshots, candidates, attempts, joins, flags, clips, adapter,
                 coordinator, recorder>>

RememberCandidate ==
  /\ Doing("persisted")
  /\ persisted' = [persisted EXCEPT ![Capture] = @ \cup Step.arg]
  /\ Continue
  /\ UNCHANGED <<rows, hydrated, memory, coordinator, recorder>>

(* request_save answers with the row of that recorder_request_id if there   *)
(* is one, whoever made it                                                  *)
RequestSave ==
  /\ Doing("attempt")
  /\ attempts' = IF attempts[Step.arg].session # 0 THEN attempts
                 ELSE [attempts EXCEPT ![Step.arg] =
                         [session |-> session, status |-> "requested", media |-> None]]
  /\ memory' = [memory EXCEPT ![Capture] =
       [request |-> Step.arg, failed |-> FALSE,
        generation |-> IF @.request = None THEN 0 ELSE @.generation + 1]]
  /\ Continue
  /\ UNCHANGED <<session, snapshots, candidates, triggers, joins, flags, clips, hydrated,
                 persisted, coordinator, recorder>>

CreateFlag ==
  /\ Doing("flag")
  /\ flags' = flags \cup {[session |-> session, flag |-> Capture]}
  /\ Continue
  /\ UNCHANGED <<session, snapshots, candidates, triggers, attempts, joins, clips, adapter,
                 coordinator, recorder>>

(* join_candidate_save and join_manual_flag_save; the latter wants both     *)
(* sides to be of one session                                               *)
CanJoin == Capture \in Flags => attempts[memory[Capture].request].session = session
Join ==
  /\ Doing("join") /\ CanJoin
  /\ joins' = joins \cup {[session |-> session, capture |-> Capture,
                           request |-> memory[Capture].request]}
  /\ Continue
  /\ UNCHANGED <<session, snapshots, candidates, triggers, attempts, flags, clips, adapter,
                 coordinator, recorder>>

(* fail_save leaves a saved attempt alone                                   *)
FailSave ==
  LET q == memory[Capture].request
  IN /\ Doing("fail")
     /\ attempts' = IF attempts[q].status = "saved" THEN attempts
                    ELSE [attempts EXCEPT ![q].status = "failed"]
     /\ memory' = [memory EXCEPT ![Capture].failed = TRUE]
     /\ Continue
     /\ UNCHANGED <<session, snapshots, candidates, triggers, joins, flags, clips, hydrated,
                    persisted, coordinator, recorder>>

(* save_attempt_for_request and finalize_captured_clip: again with the same *)
(* file it answers the Clip it made                                         *)
MediaOf(ack) == <<ack.request, session>>
CanFinalize(ack) ==
  LET a == attempts[ack.request]
  IN \/ a.session # 0 /\ a.status = "requested"
     \/ a.status = "saved" /\ a.media = MediaOf(ack)
FinalizeClip ==
  LET ack == Step.arg
  IN /\ Doing("clip") /\ CanFinalize(ack)
     /\ attempts' = [attempts EXCEPT ![ack.request].status = "saved",
                                     ![ack.request].media = MediaOf(ack)]
     /\ clips' = [clips EXCEPT ![ack.request] =
          [media |-> MediaOf(ack), kind |-> IF ack.manual THEN "raw_manual" ELSE "raw_auto",
           origin |-> {}, complete |-> FALSE]]
     /\ Continue
     /\ UNCHANGED <<session, snapshots, candidates, triggers, joins, flags, adapter,
                    coordinator, recorder>>

(* complete_clip_metadata: an auto Clip names the receipts of the captures  *)
(* of its attempt, a manual one the earliest of its flags                   *)
Sharing(q) == {c \in Captures : memory[c].request = q}
OriginOfRequester(ack) == IF ack.manual THEN {ack.request[1]} \cap Flags  \* mutant
                          ELSE evidence[ack.request[1]]
Origin(ack) ==
  IF ack.manual
  THEN LET fs == SetToSeq(Sharing(ack.request) \cap Flags)
       IN IF fs = <<>> THEN {} ELSE {fs[1]}
  ELSE UNION {evidence[r] : r \in Sharing(ack.request) \cap Rounds}
CompleteMetadata ==
  LET ack == Step.arg
  IN /\ Doing("origin") /\ Origin(ack) # {}
     /\ clips' = [clips EXCEPT ![ack.request].origin = Origin(ack),
                               ![ack.request].complete = TRUE]
     /\ Continue
     /\ UNCHANGED <<session, snapshots, candidates, triggers, attempts, joins, flags, adapter,
                    coordinator, recorder>>

(* Scheduler::cancel                                                        *)
Disarm ==
  /\ Doing("disarm")
  /\ armed' = armed \ {Capture}
  /\ Continue
  /\ UNCHANGED <<rows, adapter, next, captures, noted, evidence, recorder>>

(* The store has returned to the coordinator.                               *)
Note ==
  /\ Doing("noted")
  /\ noted' = [noted EXCEPT ![Capture] = {Step.arg}]
  /\ Continue
  /\ UNCHANGED <<rows, adapter, next, captures, armed, evidence, recorder>>
Scheduled ==
  /\ Doing("scheduled")
  /\ captures' = [captures EXCEPT ![Capture] = "scheduled"]
  /\ armed' = armed \cup {Capture}
  /\ evidence' = [evidence EXCEPT ![Capture] = Step.arg]
  /\ Continue
  /\ UNCHANGED <<rows, adapter, next, noted, recorder>>
Decided ==
  /\ todo # <<>> /\ Step.do \in {"requested", "retryable", "cancelled"}
  /\ captures' = [captures EXCEPT ![Capture] = Step.do]
  /\ Continue
  /\ UNCHANGED <<rows, adapter, next, armed, noted, evidence, recorder>>
Processed ==
  /\ Doing("processed")
  /\ next' = next + 1
  /\ Continue
  /\ UNCHANGED <<rows, adapter, captures, armed, noted, evidence, recorder>>

(* What a unique key or a check of the storage refuses, or a capture        *)
(* without its window, ends the method.                                     *)
Refused ==
  /\ \/ Doing("snapshot") /\ ~CanRecord(Step.arg)
     \/ Doing("candidate") /\ ~CanCreate(Step.arg)
     \/ Doing("trigger") /\ NewTrigger \in triggers
     \/ Doing("join") /\ ~CanJoin
     \/ Doing("clip") /\ ~CanFinalize(Step.arg)
     \/ Doing("origin") /\ Origin(Step.arg) = {}
     \/ Doing("window")
  /\ Abort
  /\ UNCHANGED <<rows, adapter, coordinator, recorder, faults>>

(* Any storage call may fail, the disk being full, say.                     *)
Storing == {"snapshot", "candidate", "trigger", "attempt", "flag", "join", "fail", "clip", "origin"}
CallFails ==
  /\ todo # <<>> /\ Step.do \in Storing
  /\ faults < MaxFaults
  /\ faults' = faults + 1
  /\ Abort
  /\ UNCHANGED <<rows, adapter, coordinator, recorder>>
-----------------------------------------------------------------------------
Idle == todo = <<>>

(* Bounds on the payloads and the requests of all sessions together, and on *)
(* the generations of an attempt.                                           *)
Earlier == Cardinality({s \in snapshots : s.session # session})
MayArrive == next + Earlier <= MaxOrdinal
MayRetry == \A c \in Captures :
  captures[c] # "cancelled" /\ memory[c].failed => memory[c].generation < MaxRequests
MayRequest ==
  ordinal + Cardinality({q \in Requests : attempts[q].session \notin {0, session}}) < MaxRequests

(* The engine drops a payload it has processed (GsiEngine!DuplicateIsDropped) *)
(* and gives the ordinal of one that failed to the next.                    *)
IsNew(p) ==
  \A s \in snapshots : s.session = session /\ s.receipt[1] = p => s.receipt[2] = next
Ingest(p) ==
  /\ Idle /\ MayArrive /\ MayRetry /\ IsNew(p)
  /\ \E cs \in Orders(p) : todo' = IngestCalls(p, cs)
  /\ UNCHANGED <<rows, adapter, coordinator, recorder, faults, torn>>

Accepted(c) ==
  LET q == <<c, ordinal + 1>>
      manual == c \in Flags
  IN CASE Len(outstanding) < 2 ->
            [request |-> q, line |-> Append(outstanding, [request |-> q, manual |-> manual])]
       [] OTHER ->
            [request |-> outstanding[2].request,
             line |-> [outstanding EXCEPT ![2].manual = @ \/ manual]]

(* Coordinator::request_capture_save, of a due timer, a retry or a flag     *)
CanRequest(c) ==
  /\ MayRequest /\ MayRetry
  /\ \/ Idle /\ captures[c] = "scheduled" /\ c \in armed
     \/ Idle /\ captures[c] = "retryable"
     \/ Doing("ask") /\ Capture = c
RequestAccepted(c) ==
  /\ CanRequest(c)
  /\ ordinal' = ordinal + 1
  /\ outstanding' = Accepted(c).line
  /\ todo' = UpsertRequested(c, Accepted(c).request)
  /\ armed' = armed \ {c}
  /\ captures' = IF Idle THEN captures ELSE [captures EXCEPT ![c] = "requesting"]
  /\ UNCHANGED <<rows, adapter, next, noted, evidence, acked, faults, torn>>
RequestRefused(c) ==
  /\ CanRequest(c)
  /\ ordinal' = ordinal + 1
  /\ todo' = UpsertRetryable(c)
  /\ armed' = armed \ {c}
  /\ captures' = IF Idle THEN captures ELSE [captures EXCEPT ![c] = "requesting"]
  /\ UNCHANGED <<rows, adapter, next, noted, evidence, outstanding, acked, faults, torn>>

(* Coordinator::manual_flag: the flag is stored, then the recorder is asked *)
(* for it; its id carries the time and is not used again.                   *)
ManualFlag(f) ==
  /\ Idle /\ MayRequest
  /\ captures[f] = "none" /\ \A s \in 1..MaxSession : [session |-> s, flag |-> f] \notin flags
  /\ todo' = EnsureFlag(f) \o <<Call("ask", f, None)>>
  /\ UNCHANGED <<rows, adapter, coordinator, recorder, faults, torn>>

(* The save in flight is found on disk.  No storage call reads what this    *)
(* changes, so it is left to the moments between methods and before "ask".  *)
Discover ==
  /\ Idle \/ Doing("ask")
  /\ outstanding # <<>> /\ acked = None
  /\ acked' = Head(outstanding)
  /\ outstanding' = Tail(outstanding)
  /\ UNCHANGED <<rows, adapter, coordinator, ordinal, todo, faults, torn>>

Finalize ==
  /\ Idle /\ acked # None
  /\ todo' = FinalizeCalls(acked)
  /\ acked' = None
  /\ UNCHANGED <<rows, adapter, coordinator, ordinal, outstanding, faults, torn>>

(* The daemon restarts: the rows stay, a new session is created.            *)
Restart ==
  /\ session < MaxSession /\ faults < MaxFaults
  /\ session' = session + 1 /\ faults' = faults + 1
  /\ hydrated' = {} /\ persisted' = [r \in Rounds |-> {}]
  /\ memory' = [c \in Captures |-> Unknown]
  /\ next' = 1 /\ captures' = [c \in Captures |-> "none"]
  /\ armed' = {} /\ noted' = [r \in Rounds |-> {}] /\ evidence' = [r \in Rounds |-> {}]
  /\ ordinal' = 0 /\ outstanding' = <<>> /\ acked' = None
  /\ todo' = <<>> /\ torn' = {}
  /\ UNCHANGED <<snapshots, candidates, triggers, attempts, joins, flags, clips>>

Statement ==
  \/ RecordSnapshot \/ CreateCandidate \/ AddTrigger \/ RememberCandidate \/ RequestSave
  \/ CreateFlag \/ Join \/ FailSave \/ FinalizeClip \/ CompleteMetadata
  \/ Disarm \/ Note \/ Scheduled \/ Decided \/ Processed \/ Refused \/ CallFails

Next ==
  \/ Statement
  \/ \E p \in Payloads : Ingest(p)
  \/ \E c \in Captures : RequestAccepted(c) \/ RequestRefused(c)
  \/ \E f \in Flags : ManualFlag(f)
  \/ Discover \/ Finalize \/ Restart

Spec == Init /\ [][Next]_vars
-----------------------------------------------------------------------------
Own(q) == attempts[q].session = session
Requested == {c \in Captures : captures[c] = "requested"}

(* What the recorder was asked for can still become a Clip: the attempt of  *)
(* a requested capture is open or saved, whatever is cancelled or refused   *)
(* meanwhile.  Excepted are the attempts of a capture whose upsert stopped  *)
(* halfway (a later refusal or cancellation fails them for all who share    *)
(* them) and those whose request id an earlier session has used.            *)
RequestedIsDeliverable ==
  \A c \in Requested :
    LET q == memory[c].request
    IN Own(q) /\ q \notin torn => attempts[q].status \in {"requested", "saved"}

(* A Clip can be traced from its capture: the candidate or the flag of a    *)
(* requested capture is joined to the attempt the adapter remembers, and a  *)
(* scheduled round has a candidate row with a trigger for every receipt,    *)
(* although candidate, triggers, attempt and join are separate commits.     *)
CaptureIsTraceable ==
  /\ \A c \in Requested :
       [session |-> session, capture |-> c, request |-> memory[c].request] \in joins
  /\ \A r \in Rounds : captures[r] # "none" =>
       /\ \E c \in candidates : c.session = session /\ c.round = r
       /\ \A i \in evidence[r] :
            [session |-> session, round |-> r, receipt |-> i] \in triggers

(* A Clip shared by several round captures names the receipts of all of     *)
(* them, though the later ones joined its request after it was queued.      *)
ClipNamesItsCaptures ==
  \A r \in Requested \cap Rounds :
    LET clip == clips[memory[r].request]
    IN clip.complete /\ clip.kind = "raw_auto" /\ clip.media[2] = session
       => evidence[r] \subseteq clip.origin

(* What a Clip names as its origin is in the ledger of the session that     *)
(* took it.                                                                 *)
OriginIsStored ==
  \A q \in Requests : clips[q].complete =>
    \A o \in clips[q].origin :
      IF clips[q].kind = "raw_manual" THEN [session |-> clips[q].media[2], flag |-> o] \in flags
      ELSE [session |-> clips[q].media[2], receipt |-> o] \in snapshots

(* Between two methods every round that a stored receipt ended has its      *)
(* candidate, kills or no kills.                                            *)
EndedRoundHasCandidate ==
  Idle => \A s \in snapshots : \A n \in DOMAIN Ends[s.receipt[1]] :
    \E c \in candidates : c.session = s.session /\ c.round = Ends[s.receipt[1]][n]
===============================================================================
