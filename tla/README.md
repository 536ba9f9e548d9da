# A TLA+ model of openfrag

openfrag records Counter-Strike 2 highlights on the player's own machine. A
daemon (`openfragd`) listens to the game's Game State Integration (GSI) posts,
supervises a `gpu-screen-recorder` child that keeps a replay buffer, asks it to
save when a round ends or the player presses a hotkey, turns the saved files
into Clips, and after the match imports the demo and reconciles it with the
live evidence. This directory models the parts of it whose correctness depends
on order, failure and time, checks them with TLC on small instances, and proves
what matters most with TLAPS for all instances. Paths below are relative to
the repository (`src/` in `PROJECT.json`).

## 1. The system

| component | code | state it keeps | operations | what is hard |
|---|---|---|---|---|
| recorder supervisor | `crates/openfrag-capture` | the child, the save in flight, one queued save, restart bookkeeping | `start`, `request_save`, `discover_save`/`acknowledge`, `poll`, `shutdown` | the child may exit at any point; files appear late, partial or not at all; restarts back off |
| live coordinator | `crates/openfrag-live/src/lib.rs` | processed receipts, capture records | `ingest`, `on_timer`, `manual_flag`, `retry_capture`, `finalize_capture` | every call to the recorder or the store may fail half-way |
| live runtime | `crates/openfragd/src/live_runtime.rs` | deadlines, request ordinals, the worker thread | `drive_once`, `dispatch_timer`, `finalize_discovered_save` | two mutexes (coordinator, recorder); discovery outside the first |
| GSI listener | `crates/openfrag-gsi` | `EngineState`: ordinal, baseline, recent hashes, last receipt, stale flag | `route_post`, `poll_stale` | posts are stamped before the mutex; the sink may fail while it is held |
| evidence store | `crates/openfrag-live/src/storage_adapter.rs` | candidates, attempts and their generations | `persist_receipt`, `upsert_capture`, `finalize_capture` | several storage calls per operation, no common transaction |
| storage: captures and Clips | `crates/openfrag-storage` | sessions, snapshots, candidates, save attempts, flags, Clips | about 25 operations | conditional updates, constraints |
| storage: artifact files | `crates/openfrag-storage` | staging, artifact and quarantine directories, the catalog | stage, commit, recover, quarantine, delete | crash between a rename and its row |
| storage: import jobs | `crates/openfrag-storage`, `crates/openfrag-pipeline` | job state, lease, attempts | enqueue, lease, progress, finish, retry, recover | leases expire under their owners |
| import service | `crates/openfrag-pipeline/src/lib.rs` | none beside the tables | `import_inner`, `run_leased`, cancel, retry | some fifteen transactions, any of which may be the last |
| reconciliation | `crates/openfrag-pipeline/src/reconcile.rs` | none (pure) | `evaluate` | missing fields, kills outside the round |
| clip review and export | `crates/openfrag-clips`, `clip_ports.rs`, `storage_clip_repository.rs` | review revision, derivatives, exports | review, reject, derive, export | compare-and-swap against stale revisions; a failing encoder |
| highlight rules | `crates/openfrag-domain/src/highlight.rs` | none (pure) | merge, window, retention | order of arrival, boundaries |
| Manual Flag portal | `crates/openfrag-shortcuts`, `live_runtime.rs` | portal session, restore token, the worker's status | open, poll, reconnect, close, the worker | the portal goes away; a stop cuts any await short |
| setup flow | `crates/openfrag-setup`, `setup_runtime.rs` | `setup-state.json`, the CS2 cfg, its credentials, `capture.conf` | `response`, `act`, the two commands | one step of several fails; others write the same files |
| HTTP API, dashboard | `crates/openfragd/src/api.rs` | none of its own | | |
| demo import | `crates/openfrag-import`, vendored parser | none | parse | |
| analysis, rating, baselines | `crates/openfrag-analysis`, `rating.rs`, `exact.rs`, `baseline.rs` | none (pure) | `analyze`, `calculate_rating`, `build_lens`, `group_sessions`, `evaluate_goal` | rounds cut at ticks, sides that swap, imports out of order |

How they interact. A GSI task holds the engine's mutex while its sink persists
the receipt and hands it to `Coordinator::ingest`, which takes the
coordinator's mutex. `ingest` sends timers to the `DeadlineDriver` over an mpsc
channel. The runtime worker calls `drive_once` every 25 ms: it takes the due
timers, dispatches them to the coordinator (which calls `request_save` on the
supervisor under the recorder's mutex), polls the supervisor, discovers the
file of the save in flight, and finalizes the Clip in the evidence store. The
same worker then calls `poll_stale`. A Manual Flag enters the coordinator from
a third thread, where the portal's worker polls the desktop. The API threads
read the store, review and trim Clips behind the mutex of `ClipMutationPorts`,
and act on the setup. An import runs on the API's storage handle, whose mutex it
holds from beginning to end; the live runtime has a handle of its own.

What makes each correct:

- *supervisor*: one child at a time; saves are serial; a save is acknowledged
  with its own file; a Manual Flag stays one; restarts slow down and end with
  shutdown; every accepted save is answered.
- *coordinator and runtime*: a capture is saved at most once and never after
  its cancellation; a scheduled capture always has something that will wake it;
  an acknowledged save finds its capture; a failure leaves something to retry.
- *GSI listener*: ordinals are dense; facts are derived only from an unbroken
  baseline; a duplicate within the window adds nothing; an outage is reported
  exactly once.
- *evidence store*: what the recorder was asked for can become a Clip, and a
  Clip can be traced to the receipts of every capture that shares it.
- *storage, clips*: a live Clip has its file and its row; a failed trim leaves
  nothing behind; a review never overwrites a newer one.
- *imports*: what is shown is complete; nothing is analysed twice; an import
  keeps to the contract of the job table.
- *setup*: what was answered with success is kept and shows; a passed test is of
  the configuration that is there.
- *portal*: one session at a time, under the stored token; a lost one is
  noticed; a stop ends the worker.
- *rules*: a metric counts its round and no other; missing evidence is not
  evidence of absence; results do not depend on the order of arrival; what was
  decided stays decided.

The hazards behind these are listed in `PROJECT.json` with the line at which
each bites and the properties that watch it.

## 2. The modules

| module | models | is used by |
|---|---|---|
| `SaveChannel` | what the supervisor promises: one save in flight, one queued | refined by `RecorderSupervisor`, instantiated by `LiveCoordinator` |
| `RecorderSupervisor` | the supervisor and, as its environment, the child | `MCRecorderSupervisor`, `RecorderSupervisorProofs` |
| `LiveCoordinator` | the coordinator, the deadline driver and the worker's `drive_once` | `MCLiveCoordinator`, `LiveCoordinatorProofs` |
| `GsiEngine` | `route_post`, `poll_stale` and the engine | `MCGsiEngine`, `InputProofs` |
| `EvidenceLedger` | the evidence store over the capture tables, statement by statement | `MCEvidenceLedger`, `EvidenceLedgerProofs` |
| `ImportJobs` | what the job table promises: leases, attempts, phases | refined by `ImportPipeline`; `ImportPipelineProofs` |
| `ImportPipeline` | the import service over jobs, matches and analysis runs | `MCImportPipeline`, `ImportPipelineProofs` |
| `ClipLibrary` | artifact files and rows, Clips, reviews, trims, exports, deletion | `MCClipLibrary`, `ClipLibraryProofs` |
| `SetupWizard` | the setup runtime, the installers and the two commands | `MCSetupWizard`, `SetupWizardProofs` |
| `ManualFlagPortal` | portal, forwarding task, shortcut service and worker | `MCManualFlag`, `InputProofs` |
| `ParsedDemo` | a match and the parser's output for it | extended by the next two |
| `DemoAnalysis`, `DemoReconcile` | `openfrag-analysis`; `reconcile.rs` and `final_labels` | `MatchReview`, which states their properties |
| `HighlightRules`, `RatingRules`, `Baselines` | the pure rules of `openfrag-domain` | `MCRules`, `RulesProofs` |
| `MC*` | constants of the instances TLC checks | the `.cfg` files |
| `*Proofs` | the inductive invariants and the theorems | |

`PROJECT.json` ("map") gives the lines each definition stands for. A variable
has the name of the field it models where TLA+ allows it (`in_flight` is
`inFlight`). Variables marked *history* exist for the properties only and no
guard reads them, with one exception: counters of faults and exits are also the
bounds on how often the environment misbehaves. Definitions introduced by "A
variant of" or "mutant" are deliberately wrong forms of their neighbour. They
take part in no specification; they are there to show that a property notices
such a bug.

### RecorderSupervisor

One action per operation. `RequestSave` is `request_save` in its two branches
(signal at once, or coalesce). `DiscoverSave` is `discover_save` with
`acknowledge`: the newest file since the signal is probed, the save is
acknowledged and the queued one signalled. `DiscoverSaveSignalFails` is the
same call when that signal fails. `Poll` is `poll` by case: the child lives,
has exited, or is due to be restarted. The child is external: `ChildExits`,
`BeginOutput` and `FinishOutput`. `kill(2)` works on a zombie and fails once the
child has been reaped, which is what `CanSignal` says.

Abstractions: an output file is a record of the request it was written for,
whether it probes as a valid recording, and whether it was last written after
the current signal (the code compares mtimes with `since_wall_ms`; the wall
clock is assumed not to be stepped and a file not to be completed in the very
millisecond of the next signal). Command line, stderr tail and path checks are
left out.

### LiveCoordinator

`Ingest` (round ends, cancellation), `ManualFlag`, `RetryCapture` and the
worker's `TakeDue`, `DispatchIdle`, `DispatchSave`, `Dispatched`, `Discover*`,
`Finalize`. `request_capture_save` is two steps, `RequestSave` (the recorder has
answered) and `RecordSave` (the answer is stored and the mutex released),
because the worker discovers files outside the coordinator's mutex. The
recorder is an instance of `SaveChannel`, which the supervisor is shown to
implement; a discovery may see nothing, an acknowledgement, or a loss.
Store and recorder calls may each fail (`Fails`), and the model then does what
the code's `?` does: what was changed before the call stays changed.

Abstractions: a round is a name (the code's id of map hash and round number), so
the same round of a later match on the same map has the same name, as in the
code. Candidates are left to `EvidenceLedger`; of the evidence store only `recordedAs`, the
recorder request under which a capture is stored, is kept. `captures` is a
`HashMap`, so a cancellation that fails may have reached any of them first.

### GsiEngine

`Arrive` stamps a post before the mutex. `Duplicate`, `Accept` and
`AcceptFails` are `handle` under the mutex, `RejectIdentity` and
`RejectMalformed` the rejections that matter to the baseline, `StampPoll`,
`PollNoChange`, `PollStale`, `PollFails` are `poll_stale`. A payload is a record
of the four things transitions depend on; equal payloads have equal hashes.
Header, token and size checks change no state and are left out, and so are the
facts nothing reads (deaths, health).

### EvidenceLedger

`StorageEvidenceStore`'s methods hold the adapter's mutex, but each of their
storage calls commits on its own. So a method is unfolded into `todo`, the
sequence of the calls it will make (`UpsertScheduled`, `UpsertRequested`,
`UpsertRetryable`, `UpsertCancelled`, `IngestCalls`, `FinalizeCalls`), and each
call is an action with the constraint of its table as a guard: `RecordSnapshot`,
`CreateCandidate`, `AddTrigger`, `RequestSave`, `CreateFlag`, `Join`, `FailSave`,
`FinalizeClip`, `CompleteMetadata`. `CallFails` ends the method at any of them,
with what the earlier calls committed left in place, and so does `Refused`, where a
constraint or a missing window refuses a call; what the adapter remembers
(`hydrated`, `persisted`, `memory`) is updated where the code updates it. On top
are the coordinator's operations that call it, reduced to what decides the
calls, and a recorder that queues saves and may coalesce them. A payload that breaks the
stream cancels what is unsaved in any order (`Orders`), as the code goes over a `HashMap`,
and disarms each capture's timer (`Disarm`) before it asks the store. `Restart` is a new
daemon with a new capture session on the same tables.

Abstractions: a row is the record of what it references; hashes, ordinals and
stamps of a receipt are its payload and ordinal. Time is left out: a timer may
fire whenever it is armed. `MayArrive`, `MayRequest` and `MayRetry` are the bounds, on
the payloads, the requests and the generations of an attempt. `torn` is history: the
attempts of captures whose `upsert_capture` was ended by an error between
its calls.

### ImportJobs and ImportPipeline

`ImportJobs` is the import part of the storage: one action per method, with the
triggers that keep the record of attempts. `ImportPipeline` is `import_inner` and
`run_leased`, one action per storage call, for several workers that import the
same or different demos, with `Cancel`, `Retry` and `RecoverExpired` from
outside, a failing call (`CallFails`, which still finishes the job as failed), a file
that cannot be read (`ReadFails`, which the code takes for a demo that cannot be
parsed), a dying process (`Crash`, which does not) and a new build between two imports
(`Upgrade`, a new calculation identity). The tables of matches, players,
participants, runs and ratings have the constraints of the schema. The parser is
a set of builds that can read a demo, with the phases of its progress reports.

Abstractions: the rows of rounds, receipts and components go with the rating they
support. Candidates of the reconciliation are a number, decided one by one.
`LeaseTime` is a constant; the daemon passes a lease that never expires, and the
instance lets leases expire as well. The daemon holds its storage mutex over a
whole import, so its own imports only follow each other, after a crash if need
be; leases and worker names provide for imports on several handles, and the
model has them interleave. What holds for those holds for the daemon.

### ClipLibrary

Three layers in one module, because a property of a Clip needs all of them. A
*caller* is a user of the repository: a `ClipMutationPorts` (whose mutex lets one
operation through at a time) or whoever deletes Clips; the daemon has one
`ClipMutationPorts`, the revisions of the repository exist for several. A caller
loads a Clip (`LoadToKeep`, `LoadToReject`, `LoadToTrim`, `LoadToExport`) and acts on what it loaded: `Swap` with
compare-and-swap, or `Encode`, `Verify`, `Promote`, `StageDerivative`,
`PlaceDerivative`, `InsertDerivative`, `CleanDerivative` for a trim, with `FailInsert`
and `StrandDerivative` for what fails once the file is in place. `Delete`,
`Tombstone`, `RemoveFile`, `MarkDeleted` are `delete_clip`. The live runtime
stores captures (`StageCapture` ... `NameClip`) through its own handle. Opening
the storage, after a crash or by a second daemon, is `RecoverStaging`,
`MarkMissing`, `AdoptFiles`. Each file operation and each committed statement is
one step; the daemon may die between any two.

Abstractions: a file is its content; titles, notes and tags are what the
revision of the review stands for; a trim has the same content at every try.

### SetupWizard

An action of `SetupRuntime::act` is `Begin` (the fingerprint matches), its effect
on the host (`WriteMarker`, `WriteMarkedCfg`, `ConfigureCapture`, `SetFfprobe`,
`StartTest`, `EndTest`, ...), and `Save`. Files are written one by one. The
commands `setup-gsi` and `setup-capture` write the same files from another process and
may stop in between. A daemon that starts reads the credentials and composes the
live runtime from the files of that moment (`CanStart`, `Composed`). The portal's worker changes its status at any time
(`WorkerReports`), also while an action holds the setup's mutex. `Checks` is what a
dashboard sees of each step.

### ManualFlagPortal

The desktop's portal, external, with its sessions and three streams (activated,
deactivated, closed). It may close a session at any time, refuse to close one (`Leave`)
or leave a call unanswered for ever (`Asking`). The streams come in stages, as the code subscribes: those
of the presses before a session is created (`ListenToPresses`), that of its closing when
the forwarding task starts (`ListenToClosed`), which then reads whichever is ready into a
bounded channel. A close before that is nobody's news. `ManualFlagService` (`Flag`, `Ignore`,
`Rearm`, `Reconnect`) stands over the Linux backend (`Discard`, `CreateSession`, `BindShortcut`,
`Shutdown`); then there are the token store (`Load`, `KeepToken`) and the worker's thread
with its stop, which may win every `select!` (`Stopped`) but is not looked at in the close
that `Shutdown` waits for (`Closing`). `past` is history: the sessions the portal kept
against a close (`kept`), and those it closed before the task listened (`unheard`).

### The rules: ParsedDemo, DemoAnalysis, DemoReconcile, HighlightRules, RatingRules, Baselines

These are pure functions in the code. Each module has the functions as operators and,
around them, an external process that produces their inputs: a match
that is played (`ParsedDemo`), candidates raised and media kept in a session
(`HighlightRules`), plays counted (`RatingRules`), matches imported in any order
(`Baselines`). The properties compare the function with a second, independent
definition (`truth` in `ParsedDemo`, `NormalForms` in `HighlightRules`), or its
value before a step with its value after. `MCRules` is one run for all: a
behaviour follows one subject.

In `ParsedDemo` a packet is a tick. It may hold several plays, a play and the end of a
round in either order, or the start of a round and the plays after it, since a demo has no
finer time than the code compares: ticks. `truth` is the same match with nothing left out.
The demo may lack the attacker, the victim or the weapon of a kill, the attacker of a
hit, the winner of a round, and of a snapshot the team or the liveness of a player. Which
round a play belongs to is what the code can tell by ticks: from the packet of the freeze
end to the packet of the round's end, both included.

Abstractions: health is small, and a hit that does not kill takes one of it; ratings
are quarters; the overflow of the 64-bit fractions is left out. What nobody reads or what only makes the
parser or the analysis refuse the whole demo is left out: hits without a victim or a
damage, missing health and round counters, missing rows of snapshots, participants
without a team, and of the others' kills the weapon and the friendly fire. Nobody kills
after their death.

## 3. Runs

| run | instance | what it shows |
|---|---|---|
| `supervisor` | 3 requests, delays 1, 2 with stability after 2, 3 exits, time 3 | files are acknowledged for their own save, restarts slow down, saves are answered, `SaveChannel` is implemented |
| `supervisor_later_saves` | 2 requests, 2 exits | a disagreement (section 4) |
| `coordinator` | 2 rounds, 1 flag, 2 failing calls, retries, time 3 | safety under failure, liveness without |
| `gsi` | 2 posts at a time, 3 bodies, 3 receipts, 1 fault, time 2 | baselines and outages under reordering |
| `imports` | 2 imports of a demo with 2 participants, 2 builds, 2 faults | completeness, no repeated analysis, `ImportJobs` is implemented |
| `ledger` | 2 rounds, 1 flag, 4 payloads, 3 receipts, 3 requests, 2 sessions, 1 fault | deliverability and traceability |
| `ledger_skipped_round` | the same with a payload that ends both rounds, and no fault | a disagreement |
| `clips` | 2 callers, 1 capture and its trim, 2 Clips, 1 fault | files and rows, stale reviews, failed trims |
| `setup` | 2 dashboards, 2 probes, 3 deferrable steps, 2 faults | kept, shown and tested |
| `rules` | 4 players, 2 rounds, 2 plays, 1 missing field; 3 candidates; 4 media; 4 plays of a rating; 4 imports of 5 demos | the rules against their references |
| `demo_side_swap` | the same | a disagreement |
| `portal` | 2 presses, 3 sessions, 2 runs of the daemon, a channel of 1 | one session, its token, loss and stop |

Why the bounds are enough.

- *Supervisor.* Three requests are the least that have a save in flight, one
  queued and one merged into it. The table of delays is shrunk to a growing
  step and a cap, with the cap equal to `stable_after`, as the code's (30 s and
  30 s). Three exits and three units of time let a child exit twice in a row,
  restart with each delay, become stable and start over.
- *Coordinator.* Two rounds give two timers due in one drive and a round end
  that schedules two captures of which the second fails. A post roll of 2 with a
  lag of 1 lets a cancellation come before, at and after the deadline. Two
  failures, because a capture is retryable only after one and the second can hit
  the retry: that is how the recorder comes to accept the same capture twice, the
  case that `SavedOnce` excepts. The liveness properties conclude for runs
  without failures only (section 4 says what a failure does). The theorems hold
  for any number.
- *GSI.* Two tasks at a time are the least for stamps and receipts to be in
  different orders. Three receipts fit a baseline, a transition and a reset, an
  outage or a repetition between two.
- *Imports.* Demos share no row but those of players, so one demo with two
  imports has every interference; the first build does not parse it, so both a
  failed and a successful analysis of it occur; two faults let an import that was
  interrupted, or that failed to read the file, be followed by one that fails.
- *Ledger.* Two captures and a flag are the least that share a request; three
  requests have one failed, one cancelled and one delivered; the second session
  has the same ids as the first. One failing call may hit any statement.
- *Clips.* One content with two Clips is what deletion, trimming again and
  storing again compete for; two revisions suffice for a stale one; a restart and
  a failing statement are each a fault.
- *Setup.* Two dashboards are the least for a stale fingerprint, two probes for two
  configurations; the deferrable steps are one with a file of its own, one that others
  depend on, and the one whose status another thread changes; with two faults a save fails and the daemon restarts, or the
  configuration is changed twice from outside.
- *Rules.* Two against two players and two rounds with the sides swapped between
  them have alone-against-two, team kills, kills after the end of a round
  and a late local player. Two plays in a packet of their own or a shared one are the least
  for a trade, which the window of zero ticks lets come in time or too late, and each may
  share its packet with the start or the end of a round. One missing field is the least
  that makes a decision partial; two gaps that hide each other are not covered.
  Merging needs three candidates to depend on an order. A
  window of two and a minimum of two of the baselines stand for 20 and 10 of the
  code, so that four matches cross both. The rounds 7, 8, 11, 12 are the boundaries
  of unavailable, preview and rated.
- *Portal.* Three sessions: one that stays when it should be closed, one lost while it is
  opened, one that works; two presses for the next hold; two runs for the stored token. A
  channel of one is full after one signal, so that news wait for the worker.

`CHECK_DEADLOCK FALSE` is in every cfg: clocks, inputs and faults are bounded, so
each model stops when they are used up. The properties that something must happen
are liveness properties instead. Symmetry is declared over callers, workers and
jobs, dashboards and enemies, in runs without liveness properties only.

### Fairness

- Supervisor: weak fairness of `Discover`, `Poll` and `Tick`: the worker calls
  `drive_once` every 25 ms for as long as it lives. Weak fairness of
  `ChildWrites`: a child that lives writes what it was signalled for, the
  assumption under which a replay buffer is useful at all. No fairness for
  requests, exits, shutdown or removal.
- Coordinator: weak fairness of `Drive` (the same loop), `RecordSave` (a held
  mutex is released) and `Tick`; strong fairness of `DiscoverSave`: the worker
  looks for the file again and again, and one of the looks finds it.
  `RecorderSupervisor`'s `SaveIsAnswered` is what justifies it, as long as the
  child lives.
- GSI: weak fairness of the handling of waiting posts, of the poll and of time;
  none for posts, rejections or failures, and none for `PollFails`.
- Portal: weak fairness of the worker's thread where it waits for nobody (`~Asking`) and of
  the forwarding task, which are scheduled whenever they can run; strong fairness of `Stopped`,
  because the `select!` of the worker polls the stop together with the operation and does
  not starve it. None for the user, the portal or the one who stops the daemon: a call to the portal may
  wait for ever, which the liveness properties allow for by name (`[]Asking`, `[]Closing`).

### What the supervisor refines

`ImplementsSaveChannel` says that `RecorderSupervisor` implements `SaveChannel`
with the identity mapping on the four variables of the channel: signalling and
coalescing are `Request`, a discovery is `Acknowledge` or `Lose`, everything
else stutters. It is checked and proved. So what `LiveCoordinator` establishes
on top of `SaveChannel` holds on top of the supervisor, for safety.

### What the import service refines

`ImplementsJobs` says that `ImportPipeline` implements `ImportJobs` with the
workers as owners and the job table's variables mapped to themselves. Every
storage call on a job is one action of the contract, whatever the worker knows
about its lease, and everything else stutters. It is checked and proved, so the
theorems on `ImportJobs` hold of the pipeline (section 5).

## 4. Findings

Three runs end in a counterexample. Each checks one sentence of a document in the
repository against what the code does:

1. `supervisor_later_saves`: an exit with a save in flight leaves `in_flight`
   set; after the restart every request queues behind a save nobody will write.
   `docs/highlight-rules-v1.md:35` wants later saves permitted.
2. `ledger_skipped_round`: with no call failing, a receipt after a missed payload ends two
   rounds at once (`derive_transition` makes a fact for each). Both candidates have the same
   unique key, so the second is refused, `ingest` stops and the round has no
   capture. `docs/highlight-rules-v1.md:23` wants a candidate for every observed
   round end.
3. `demo_side_swap`: `score_round` compares the team that a participant ends the
   demo with to the local player's team in the round. Before half time the enemies pass
   for team mates. `docs/openfrag-rating.md:110` defines a clutch by the player's team.

### Disagreements without a run

Met while modelling; each is in the model as the code has it, and an exception
named in a property where it matters.

- The supervisor forgets a verified save and the queued one when signalling the
  queued one fails (`openfrag-capture/src/lib.rs:329`; `docs/highlight-rules-v1.md:35`
  wants the clip marked failed). `SaveChannel` has it as `Lose`.
- `drive_once` drops the timers it has taken at the first failing dispatch
  (`live_runtime.rs:835`; `docs/highlight-rules-v1.md:25`).
- A capture whose accepted save could not be stored stays scheduled and cannot be
  retried (`openfrag-live/src/lib.rs:551`, against the comment at line 300).
- Capture ids have no match in them: a round of a later match on the same map
  that was saved or cancelled before is never captured (`openfrag-live/src/lib.rs:443`;
  `docs/highlight-rules-v1.md:23`).
- A malformed body leaves the transition baseline (`openfrag-gsi/src/lib.rs:225`;
  `docs/gsi-evidence-contract.md:31`), and a late-stamped post prunes the hash that
  an earlier-stamped duplicate would have met (line 265; the same document, line 27).
- An import that was interrupted in the middle of an analysis is refused ever after
  instead of resumed (`docs/post-match-pipeline.md:12`).
- Request ids are unique in a session only (`docs/post-match-pipeline.md:39` wants them
  globally unique); `RequestedIsDeliverable` excepts a reused one.
- A second daemon removes the first one's staging files before it finds the port taken
  (`openfrag-storage/src/lib.rs:670`, `main.rs:208`; `docs/storage-schema-decision.md:474`).
- The marker that `install_actionable_gsi` writes is not the token a daemon accepts
  (`openfrag-setup/src/lib.rs:430`; `docs/gsi-evidence-contract.md:25`).
- A hold may flag nothing, when its activation overtakes the deactivation of the hold
  before in the unordered `select!` (`linux_portal.rs:198`; `docs/support-matrix.md:131`).
- A cancelled capture that never got a window but remembers an attempt, as an upsert of it
  stopped halfway, is refused (`storage_adapter.rs:323`). So is every payload that would
  cancel it: `ingest` stops there, before the round ends that it brings
  (`docs/highlight-rules-v1.md:23`).
- A demo file that cannot be read for a moment counts as one that cannot be parsed and is
  quarantined (`openfrag-import/src/lib.rs:1116`, `openfrag-pipeline/src/lib.rs:254`), also
  when an import on another handle has parsed it and is about to make its match.
  `docs/post-match-pipeline.md:18` wants an `error_io` that can be retried;
  `CanonicalIsAnalysed` excepts it (`misread`).
- A derivative whose permissions or directory sync fail after the rename stays as a file
  without a row and refuses the same trim ever after (`openfrag-storage/src/lib.rs:1294`;
  `docs/clip-review-workflow.md:85` wants a failed trim to be retried);
  `FailedTrimLeavesNothing` excepts it (`stranded`).
- An error of the portal's close is dropped (`linux_portal.rs:59`), so that the old session may
  stay beside the new one and announce every press a second time (`docs/support-matrix.md:131`
  wants exactly one activation through a restart of the portal); `OneSessionIsPolled` excepts it (`kept`).
- A session that the portal closes before `forward_signals` subscribes to its closing
  (`linux_portal.rs:194`) is polled for ever, and no press reaches the daemon again (the same
  line of the same document); `LossIsNoticed` excepts it (`unheard`).
- Damage is capped by the health in the snapshot after the packet that carries the hit, not before
  it (`openfrag-analysis/src/lib.rs:364`; `docs/openfrag-rating.md:48`). A hit that kills scores
  nothing, and so does every hit on a player who dies in the same packet.
  `MetricsCountTheRound` says so: damage is what was survived.
- The order of events within a tick is not looked at (`openfrag-analysis/src/lib.rs:339`): a
  death after the end of a round in its tick counts, and who is alive at the freeze end is
  read after the whole packet, where `docs/openfrag-rating.md:42` and `:78` go by tick and ordinal.
- A death whose attacker is missing is taken for one by the world and opens no duel
  (`openfrag-analysis/src/lib.rs:393`), where `docs/openfrag-rating.md:68` has the rating
  unavailable; the metrics of such a round are not in `MetricsCountTheRound`.
- A local player whose liveness is missing at a freeze end is taken for dead and the round is
  excluded without a word (`openfrag-analysis/src/lib.rs:264`), where `docs/openfrag-rating.md:155`
  has the rating unavailable; a team mate in a clutch is taken for dead in the same way.
- Trades count whoever killed a team mate, also another team mate and themselves
  (`openfrag-analysis/src/lib.rs:430`), where `docs/openfrag-rating.md:88` speaks of an opponent;
  `MetricsCountTheRound` is exact for rounds without team kills by the local player.
- Reconciliation counts kills from the end of the previous round, not from the end
  of the freeze (`reconcile.rs:121`; `docs/highlight-rules-v1.md:13`), so
  `NeverRejectsHighlight` says only what it must not lose.
- Reconciliation leaves out a kill without its attacker and does not call the evidence
  partial (`reconcile.rs:132`), and where a snapshot lacks a team it takes the one the player
  ends the demo with, which before half time is the other (`reconcile.rs:163`): either way a round that
  earned a label may be rejected. `NeverRejectsHighlight` excepts both
  (`LocalKillsTold`, `TeamsTold`).
- A match that ends in the very millisecond of the cutoff is in the baseline (`baseline.rs:334`), where
  `docs/personal-baselines-and-goals.md:64` wants those that ended before.

Also worth knowing, without a document against it: `RoundExclusion::MissingFreezeState` is
never produced; a disconnected player keeps the last snapshot; the late import of an earlier match
can decide a goal again; a successful `request_manual_flag` changes nothing, and its answer
looks at the portal a second time (`setup_runtime.rs:394`, `498`), so that a success may show
"unavailable" (`AnsweredIsShown` is about the other actions); a daemon that stops waits for the
portal's close without a timeout (`live_runtime.rs:768`; `StopEnds` excepts it); a
failing flag ends the portal's worker for good; a crash in the middle of a trim
leaves its derivative in `staging/clip-derivatives`; a
capture whose upsert was ended halfway remembers an attempt that its next refusal or
cancellation fails, also for captures coalesced into the same save (`RequestedIsDeliverable`
excepts it as `torn`).

## 5. Proofs

Every safety invariant, every action property and both refinements that the runs
check are proved, but for the two invariants of `MatchReview`, each for all values of the constants that satisfy the assumptions of
its module. A `*Proofs` module shows that an inductive invariant holds and derives the
properties from it. It is called `IInv`; where it is long it comes in layers, each
inductive under the ones before it. The step lemmas go action by action. The
assumptions are named in the module of the specification, and every run evaluates
them. `InputProofs` holds the proofs of `GsiEngine` and `ManualFlagPortal`, `RulesProofs`
those of the rules.

**RecorderSupervisor** (any requests, delays and bounds): `TypeCorrect`,
`OneChild`, `AcknowledgesOwnFile`, `ManualStaysManual`, `SavesAreSerial`,
`ShutdownIsFinal`, `CrashLoopSlowsDown` and `SupervisorImplementsChannel`.
`IInv == TypeOK /\ ChildInv /\ SaveInv`. The properties alone are not inductive.
That an acknowledgement names its own file needs that every fresh file belongs
to the save in flight, which a follow-up signal preserves only if the child owes
nothing but that save and a served request is no longer owed
(`ServedIsNotOwed`), and only if the queued save has not been written yet
(`QueuedIsUnwritten`). That a Manual Flag stays manual needs that ids are not
reused: pending and acknowledged saves have ids that were accepted
(`PendingIsAccepted`, `DeliveredIsAccepted`), and an acknowledged one is not
pending again (`DeliveredIsOver`). `ShutdownIsFinal` needs that the supervisor
believes a child runs exactly while there is one (`RunningMatchesChild`) and
that shutdown concerns a started child (`ShutdownHasChild`). `ChannelStep` shows
that every step of the supervisor is a step of the channel or leaves its
variables alone. `SlowInv` is the rest of `CrashLoopSlowsDown`: the supervisor's
failures are the exits in a row unless the child was stable, and the start of a
child and the restart that is due lie after the delays so far. What the sum
`TotalDelay` of the delays is has to be proved too, since it is defined by recursion:
`NatSet` is induction for a *set* of numbers, from `WFMin` of the library, and gives
finite partial sums that exist (`PartialExists`), agree (`PartialUnique`) and make up the
function (`TotalDelayIsSum`).

**LiveCoordinator** (any rounds, flags, receipts and failures): `SavesAreNotRepeated`,
`AcknowledgedIsRecorded`, `ManualClips`, `CancellationIsFinal`.
`IInv == TypeOK /\ AckInv /\ RequestInv /\ SaveInv`.

- `RequestInv` is about who may still ask the recorder. A capture accepted but
  still scheduled has no timer left, neither with the driver nor due
  (`GrantInv`), which holds because a timer is in one of the two places only and
  belongs to a capture (`TimerInv`), and because the call that failed to record
  it dropped every due timer. A retryable capture that was accepted is one whose
  recording failed. While the coordinator's mutex is held for a save, its capture
  is scheduled and due, or retryable, or a new flag (`RecordingInv`), so no
  cancellation falls in between.
- `SaveInv` follows each save from the request through queue, child and worker to
  the Clip. It always has a holder: the capture recorded under its id, the one
  being recorded, or a note that recording it failed (`CoverInv`); a manual save
  has a Manual Flag among them, and a save that a flag holds is manual
  (`ManualInv`). Both need that ids are taken in order (`Taken` ids are `Used`)
  and that a save which can still be joined is neither being finalized nor a
  Clip (`IdInv`).

**GsiEngine** (any bodies, window, heartbeat, concurrency and failures):
`OrdinalsAreDense`, `BaselineIsStored`, `OutageReportedOnce`, `FactsHaveBaseline`.
`IInv == TypeOK /\ StreamInv /\ ReceiptsInv`: a stale stream has no baseline, a
stale last receipt is remembered by the `stale` flag until an identity change
forgets the stream (`StaleIsRemembered`), and a baseline has seen no identity
change (`BaselineHasNoGap`).

**ImportJobs** (any workers, demos, lease times and bounds; in `ImportPipelineProofs`):
`JobAttempts`, `JobSuccess`, `JobLease`. `JobsInv == TypeOK /\ AttemptsFollowLease`: what the table
of attempts says of a job is what the job says of itself, in whatever order leases
are taken, expire, are recovered, retried and finished. The two action properties
follow action by action: each statement's WHERE clause is a guard that a succeeded
job or another worker's live lease fails.

**ImportPipeline** (any demos, rosters, builds, workers, candidates, failing calls
and crashes): `PipelineImplementsJobs`, `PipelineAttempts`, `PipelineLeases`,
`PipelineCanonical`, `PipelineAnalysedOnce`, `PipelineSucceeded`, `PipelineRoster`.
Every step maps to one statement of `ImportJobs` or a stutter (`StepImplements`), so the
theorems on the table give the next two. The assumption that a lease lasts a natural number of units is what
the table wants of an expiry; the code's is a positive duration. The other four are
about a service that only ever knows the past, so each layer has a condition for the
worker in the middle of an import, and a relation under which steps of the others
leave that condition true (`FilesStay`, `AnalysesStay`, `DecisionsStay`):

- `FileInv`: the file of a demo that somebody imports is present unless the running build
  cannot parse it or an import failed to read it (`misread`); who quarantines failed to parse
  or to read it, who is past the parser could, and who analyses has a match. `quarantine_artifact` refuses the file of a match, and a match is
  made only for a demo that this build reads.
- `AnalysisInv`: a run that has succeeded has its rating and made some run of its demo
  canonical; the canonical run has succeeded and has a match; who reconciles or finishes
  has a canonical run. Runs that have succeeded stay as they are (`AnalysesStay`).
- `DecisionInv`: the job of a worker keeps naming the worker's demo, whoever holds its
  lease; a worker about to decide candidate *n* finds those before it decided, one that
  finishes finds all. So whoever makes the job succeed, it is the job of that demo.
- `RosterInv`: a name missing from a match is with a worker still storing it, or the
  match is noted as interrupted.

**ClipLibrary** (any callers, Clips, videos and faults): `LibraryRejection`,
`LibraryTrim`, `LibraryFiles`, `LibraryTrimLeavesNothing`. The assumptions name the
actors apart and say that a trim's content is no capture's; that different captures
have different trims is not assumed. What one actor's step leaves to the others is
one predicate (`Steps`): their program counters, the Storage if they hold it, and of a
Clip that it only gets newer reviews and none while somebody else holds the Storage.
`BaseInv` says what a caller in the middle of an operation knows of the Clip it loaded.

- `ReviewInv`: what was loaded is not newer than the review and, if it is the same
  revision, was not rejected; from the comparison of `commit_derivative` to its last
  statement, which hold the Storage, the review is the one loaded. That gives both
  action properties.
- `FileInv`: between the placement of a derivative's file and its row no Clip has that
  content, so the removal on a failing insert takes nobody's file; from the count of the
  sharers to the end of a deletion no Clip shares the content. What a capture stores
  while a deletion of the same content runs (`raced`) is excepted, as in the property.
- `CutsInv` and `LeftInv`: a derivative in staging belongs to a caller between its
  transcode and its clean-up, and one in the tree to a Clip, to the caller about to
  insert it, or it is stranded.

**SetupWizard** (any dashboards, probes, tokens and faults): `WizardTested`,
`WizardKept`, `WizardShown`. `IInv` is the types, what is known of the action that holds
the mutex (`ActInv`), `AnsweredIsKept`, and two parts that the properties need:

- `TestInv`: the saved state's test is of the `capture.conf` that is there too, unless an
  action waits for its save. A restart loads the saved state, so the property alone is
  not inductive.
- `ShownInv`: an action between its effect and its save has achieved what it will be
  answered for. The commands and the host, which need no mutex, do not undo it: they
  write the files again but never take them away. The portal's worker does: it may report
  a loss at any time, so a request for the Manual Flag has achieved nothing that lasts.

The assumption `Optional \subseteq {"gsi", ...}` is the code's `OPTIONAL_STEPS`.

**ManualFlagPortal** (any number of presses, sessions and runs, any capacity):
`PortalOneSession` and `PortalToken`. `IInv == Typed /\ OneSession /\ OneToken`.
`OneSession` says for every step of the worker which sessions the portal may still
hold beside those it refused to close: none before the first open, at most the one to be
discarded, at most the one just created. A loss, heard or not, may take sessions away but
never adds one. `OneToken` follows the token from
the file into the open and back: it is stored before the session is polled, so the
session, the service's memory and the file agree.

**EvidenceLedger** (any rounds, flags, payloads, failing calls and restarts):
`LedgerBase`, `LedgerTraceable`, `LedgerTorn`, `LedgerDeliverable`, `LedgerNames`,
`LedgerOrigin`. A method commits call by call and may end at any of them, so each
invariant has two halves: what is stored of the captures, and, for each call that is
left of the method (`...At(n)`), that what it presumes is stored or that an earlier
call of the same method stores it. A call that commits moves the rest up by one
(`Shift`), a failing one only drops promises. What a method promises
as it begins follows from how its sequence of calls is built: `Fits` for an ingest,
`Deciding` for an upsert. An ingest is a concatenation of as many segments as rounds
end and captures are cancelled, so `FlattenClosed` is induction over the number of
segments, by `NatSet` once more. The assumptions say that captures are finitely many,
that `None` is no value of its own kind, and what `derive_transition` guarantees of a
payload: kills in the same round or ends, not both.

- `BaseInv`: types, and which captures the rest of a method may touch.
- `TraceInv`: candidate and triggers before they are remembered, those before the
  schedule, the join before the decision. That gives `CaptureIsTraceable`.
- `TornInv`: a scheduled or retryable capture with an attempt to use again is one whose
  attempt failed, or in `torn`, or about to be decided on. Without it a refusal could
  fail an attempt that another capture waits for.
- `OpenInv`: what a refusal or cancellation fails is a made-up attempt
  (`Synthetic`), what a requested capture remembers is the recorder's (`Fresh`), and a
  method does one or the other. A fresh attempt of this session is then open or
  saved, which is `RequestedIsDeliverable`.
- `ShareInv`: a Clip is made of a save that has left the line, a capture is coalesced into
  one still in it, and ordinals in line increase, so nobody joins an attempt that has its
  Clip. That gives `ClipNamesItsCaptures`.
- `StoredInv`: the snapshot before the calls that name its receipt, the flag before the
  question to the recorder. That gives `OriginIsStored`.

The rules follow (all in `RulesProofs`). Here the steps are simple and the functions are
not, so most of the proof is about operators that are defined by recursion or by a fold.
They are recursive *functions*, and what is needed of recursion is proved once: a
recursion over what is smaller has a solution (`Recursion`, built up from the parts below
*n*), and what holds of an element when it holds of all smaller ones holds of all
(`SizeInduction`). `SumTakesAny` says of a sum over a finite set, which the folds define
by taking elements in an arbitrary order, that any element may come first.

**HighlightRules** (any gap, budget, retention, number of candidates and media):
`MergingIsConfluent`, `MergeConfluence`, `DroppedMediaStayDropped`.

- A fusion keeps candidates apart (no receipt in two of them) and makes them fewer, so
  both `MergeCandidates` and `NormalForms` are recursions over the number of candidates.
  Two different fusions of the same set can each be followed by fusions to a common one,
  because what could merge with a part can merge with the whole: `CanMerge` looks at the
  starts of everything merged so far. With the size that is the diamond argument by which
  all orders end alike. A mutant that compares only the merged ranges' starts breaks it.
- `SessionInv` adds the arrival: what was merged is `MergeCandidates` of what was seen,
  and a new candidate has a receipt of its own, so merging it into the result of the
  others is one of the orders of merging all.
- `MediaInv`: media were created in the past, each with its own id. Time only lets more
  expire and newer media only push older ones over the budget; as the newer ones expire
  later, what counts against an item that has not expired goes on counting.

**RatingRules** (any number of rounds and plays): `PlaysCount`. A reduced fraction is
known by what it stands for (`Stands`: its value is *n* over *d*), which needs that `Gcd`
divides both numbers. `Plus`, `Times` with a weight, `Clamped` and `Rounded` keep the
order of fractions; `ShareInOrder` says that more won and less lost is a greater share,
also when a total is zero and the share is a half. `AtLeastAsGood` compares two records of
counts; `BasisPointsInOrder` follows it through the six components and the weighted sum.
`RatingInv` is that no more clutches are won than were played.

**Baselines** (any demos, intervals, window, minimum, gap and history):
`BaselinesAreRecent`, `SettledMatchesStay`. `BaselineInv`: no two canonical matches of the
history have the same demo. The cohort is a prefix of the comparable matches in their
order, which is total; the median is found by rank, and that half of the cohort lies
within the deviation is the median's property once more, for the distances.
`SettledStaysSettled` compares two histories, so the operators are taken over any history
(`SpanIn` and the like) and `ShapeHolds` ties what was shown to the one before. That an
import leaves alone the sessions that ended more than the gap before it is induction over
the number of matches grouped, which are grouped in the order of their starts.

Only model-checked: the liveness properties (`SaveIsAnswered`, `RequestedBecomesClip`,
`ScheduledIsDecided`, `OutageIsReported`, `LossIsNoticed`, `StopEnds`), which rest on
fairness and so on `ENABLED`, out of the prover's reach; and `MetricsCountTheRound` and `NeverRejectsHighlight`, which
relate a whole demo to a whole match. The three runs that end in a
counterexample state what does not hold.

## 6. Not modelled

- The parsing of binary demo files (`openfrag-import` and the vendored parser): data
  conversion, beyond a finite instance. Its output is `ParsedDemo`.
- The HTTP API and the dashboard: routing and views over the storage.
- Capture windows and the trimmed ranges of media: arithmetic on single values
  that unit tests reach.
- The headers, tokens and limits of GSI requests, the supervisor's command line,
  the ffmpeg and ffprobe arguments, D-Bus messages, packaging.
- Operations that exist but have no caller in the daemon are modelled where they
  share state with the ones that do (`delete_clip`, `recover_expired`, `retry` and
  `cancel` of imports, `import_and_reconcile`, `retention_decisions`, `build_lens`, `group_sessions`,
  `evaluate_goal`); `evaluate_setup_flow`, which `SetupRuntime` replaces, is not.

## 7. Plan

1. `LivePipeline`: `GsiEngine`, `LiveCoordinator` and the ledger over two clocks (the
   GSI clock starts later than the runtime's).
2. Larger instances of `clips` and `ledger`, whose bounds are set by time.
