----------------------------- MODULE SetupWizard -----------------------------
(***************************************************************************)
(* First-run setup: SetupRuntime::act of the daemon                        *)
(* (crates/openfragd/src/setup_runtime.rs), the two installers of the CS2  *)
(* cfg and of capture.conf behind it (crates/openfrag-setup), and the      *)
(* commands setup-gsi and setup-capture that write the same files from a   *)
(* process of their own.                                                   *)
(*                                                                         *)
(* Dashboards act on the fingerprint of the last response they saw.  An    *)
(* action holds the state's mutex over the comparison, the effect on the   *)
(* host, the change of the state and its save; files are written one by    *)
(* one, and the daemon may stop between any two of them.  The host changes *)
(* meanwhile: executables come and go; a recorder is always there.         *)
(*                                                                         *)
(* A daemon that starts composes the live runtime, and with it the worker  *)
(* of the Manual Flag, from the files of that moment.  That worker reports *)
(* what the portal does whenever it does, outside the state's mutex.       *)
(***************************************************************************)
EXTENDS Naturals, FiniteSets

CONSTANTS
  Clients,   \* dashboards
  Optional,  \* steps of OPTIONAL_STEPS a dashboard may defer
  Probes,    \* ffprobe executables, each of which makes a capture.conf
  Marker,    \* the marker install_actionable_gsi writes: one per config directory
  Down, None,
  MaxRevision, MaxTokens, MaxFaults  \* bounds

ASSUME WizardAssumption ==
  /\ Marker \notin Nat /\ None \notin Probes \cup BOOLEAN /\ 0 \notin Probes
  /\ Optional \subseteq {"gsi", "local_identity", "capture", "ffprobe", "test_capture", "manual_flag"}

Tokens == 0..MaxTokens  \* 0: no token

VARIABLES
  state,     \* PersistedSetup in memory
  saved,     \* PersistedSetup in setup-state.json
  files,     \* [token, steam, marker, cfg, conf]: what the installers wrote
  found,     \* executables on the host
  active,    \* token the running daemon authenticates with, 0 without
             \* credentials, Down when it does not run
  flag,      \* status of the running daemon's Manual Flag worker, None without one
  act,       \* the action that holds the mutex, or Nothing
  cli,       \* how far a setup-gsi command is
  seen,      \* [Clients -> fingerprint of the last response, or None]
  answered,  \* history: revision of the last action answered with success
  proof,     \* history: capture.conf of the last test that passed
  foreign,   \* history: capture.conf was written without the state knowing
  faults     \* failed saves, stops, and changes from outside

vars == <<state, saved, files, found, active, flag, act, cli, seen, answered, proof, foreign, faults>>

Fresh == [revision |-> 0, skipped |-> {}, selected |-> FALSE, background |-> None,
          tested |-> FALSE, probe |-> None]

Nothing == [at |-> "none", client |-> None, request |-> None, arg |-> None]

Requests ==
  {<<"install_gsi", None>>, <<"check_identity", None>>, <<"run_test_capture", None>>,
   <<"request_manual_flag", None>>}
  \cup ({"skip"} \X Optional) \cup ({"set_background"} \X BOOLEAN)
  \cup ({"configure_capture", "set_ffprobe"} \X Probes)

Init ==
  /\ state = Fresh /\ saved = Fresh
  /\ files = [token |-> 0, steam |-> FALSE, marker |-> FALSE, cfg |-> 0, conf |-> None]
  /\ found = Probes /\ active = 0 /\ flag = None /\ act = Nothing /\ cli = "idle"
  /\ seen = [c \in Clients |-> None]
  /\ answered = 0 /\ proof = None /\ foreign = FALSE /\ faults = 0
-----------------------------------------------------------------------------
(* What a response shows: response_for.                                     *)
GsiInstalled == active \notin {0, Down} \/ files.cfg # 0

(* read_capture_configuration validates the paths it reads                  *)
Configured == files.conf \in found

(* CaptureRuntime::from_data_directory                                      *)
CanRecord == Configured

FoundProbe ==
  IF state.probe \in found THEN state.probe
  ELSE IF found = {} THEN None ELSE CHOOSE p \in found : TRUE

(* optional_check: what was deferred is shown as that                       *)
Deferrable(id, status) == IF id \in state.skipped THEN "not_tested" ELSE status

InitialCheck(id) ==
  CASE id = "gsi" -> IF GsiInstalled THEN "ready" ELSE Deferrable("gsi", "needs_action")
    [] id = "local_identity" ->
         Deferrable(id, IF files.steam THEN "ready" ELSE "needs_action")

CaptureCheck(id) ==
  CASE id = "capture" -> Deferrable(id, IF Configured THEN "ready" ELSE "needs_action")
    [] id = "ffprobe" -> Deferrable(id, IF FoundProbe # None THEN "ready" ELSE "unavailable")
    [] id = "test_capture" -> Deferrable(id, IF state.tested THEN "ready" ELSE "not_tested")

BackgroundCheck == IF state.background # None THEN "ready" ELSE "needs_action"

Checks(id) ==
  CASE id \in {"gsi", "local_identity"} -> InitialCheck(id)
    [] id \in {"capture", "ffprobe", "test_capture"} -> CaptureCheck(id)
    [] id = "manual_flag" -> Deferrable(id, IF flag = "ready" THEN "needs_action" ELSE "unavailable")
    [] id = "background" -> BackgroundCheck

Fingerprint ==
  [state |-> state, gsi |-> GsiInstalled, identity |-> files.steam, probe |-> FoundProbe,
   configured |-> Configured]

Up == active # Down
Unlocked == Up /\ act = Nothing

Look(c) ==
  /\ Unlocked
  /\ seen[c] # Fingerprint /\ seen' = [seen EXCEPT ![c] = Fingerprint]
  /\ UNCHANGED <<state, saved, files, found, active, flag, act, cli, answered, proof, foreign, faults>>
-----------------------------------------------------------------------------
(* act: the comparison of the fingerprints                                  *)
Begin(c, request) ==
  /\ Unlocked /\ state.revision < MaxRevision
  /\ seen[c] = Fingerprint
  /\ act' = [at |-> "effect", client |-> c, request |-> request[1], arg |-> request[2]]
  /\ UNCHANGED <<state, saved, files, found, active, flag, cli, seen, answered, proof, foreign, faults>>

Doing(request) == act.at = "effect" /\ act.request = request
Refuse == act' = Nothing /\ UNCHANGED <<state, saved, files, seen, answered, proof, foreign, faults>>

Changed(s) ==
  /\ state' = [s EXCEPT !.revision = @ + 1]
  /\ act' = [act EXCEPT !.at = "save"]
  /\ UNCHANGED <<saved, seen, answered, faults>>

(* install_actionable_gsi: the marker, then the cfg that holds it           *)
WriteMarker ==
  /\ Doing("install_gsi")
  /\ files' = [files EXCEPT !.marker = TRUE] /\ act' = [act EXCEPT !.at = "cfg"]
  /\ UNCHANGED <<state, saved, seen, answered, proof, foreign, faults>>

WriteMarkedCfg ==
  /\ act.at = "cfg"
  /\ files' = [files EXCEPT !.cfg = Marker]
  /\ Changed([state EXCEPT !.selected = TRUE, !.skipped = @ \ {"gsi"}])
  /\ UNCHANGED <<proof, foreign>>

Skip ==
  /\ Doing("skip")
  /\ Changed([state EXCEPT !.skipped = @ \cup {act.arg}]) /\ UNCHANGED <<files, proof, foreign>>

SetBackground ==
  /\ Doing("set_background")
  /\ Changed([state EXCEPT !.background = act.arg]) /\ UNCHANGED <<files, proof, foreign>>

CheckIdentity ==
  /\ Doing("check_identity")
  /\ \/ ~files.steam /\ Refuse
     \/ /\ files.steam /\ Changed([state EXCEPT !.skipped = @ \ {"local_identity"}])
        /\ UNCHANGED <<files, proof, foreign>>

KeepSkipped(probe) ==  \* mutant: a deferred capture stays deferred
  [state EXCEPT !.skipped = @ \ {"ffprobe"}, !.tested = FALSE, !.probe = probe]

KeepTested(probe) ==  \* mutant: the test is not taken back
  [state EXCEPT !.skipped = @ \ {"capture", "ffprobe"}, !.probe = probe]

AfterConfigure(probe) ==
  [state EXCEPT !.skipped = @ \ {"capture", "ffprobe"}, !.tested = FALSE, !.probe = probe]

(* apply_capture_configuration: capture.conf is written before the state    *)
ConfigureCapture ==
  /\ Doing("configure_capture")
  /\ \/ act.arg \notin found /\ Refuse
     \/ /\ act.arg \in found
        /\ files' = [files EXCEPT !.conf = act.arg]
        /\ Changed(AfterConfigure(act.arg)) /\ UNCHANGED <<proof, foreign>>

SetFfprobe ==
  /\ Doing("set_ffprobe")
  /\ \/ act.arg \notin found /\ Refuse
     \/ /\ act.arg \in found
        /\ Changed([state EXCEPT !.skipped = @ \ {"ffprobe"}, !.probe = act.arg])
        /\ UNCHANGED <<files, proof, foreign>>

(* run_test_capture reads capture.conf first and takes up to nine seconds   *)
StartTest ==
  /\ Doing("run_test_capture")
  /\ \/ ~CanRecord /\ Refuse
     \/ /\ CanRecord /\ act' = [act EXCEPT !.at = "test", !.arg = files.conf]
        /\ UNCHANGED <<state, saved, files, seen, answered, proof, foreign, faults>>

EndTest ==
  /\ act.at = "test"
  /\ \/ Refuse
     \/ /\ Changed([state EXCEPT !.tested = TRUE, !.skipped = @ \ {"test_capture"}])
        /\ proof' = act.arg /\ foreign' = (act.arg # files.conf) /\ UNCHANGED files

(* manual_flag_available: nothing is asked of the portal                    *)
RequestManualFlag ==
  /\ Doing("request_manual_flag")
  /\ \/ flag # "ready" /\ Refuse
     \/ flag = "ready" /\ Changed(state) /\ UNCHANGED <<files, proof, foreign>>

SavedLate == saved  \* mutant: the success is answered before the save

ToSave == state

(* persist: a temporary file and a rename.  The state in memory stays       *)
(* changed when it fails                                                    *)
Save ==
  /\ act.at = "save"
  /\ \/ /\ saved' = ToSave /\ answered' = state.revision
        /\ seen' = [seen EXCEPT ![act.client] = Fingerprint]
        /\ UNCHANGED <<foreign, faults>>
     \/ /\ faults < MaxFaults /\ faults' = faults + 1
        /\ foreign' = TRUE /\ UNCHANGED <<saved, answered, seen>>
  /\ act' = Nothing
  /\ UNCHANGED <<state, files, proof>>

Effect ==
  /\ Up
  /\ \/ WriteMarker \/ WriteMarkedCfg \/ Skip \/ SetBackground \/ CheckIdentity
     \/ ConfigureCapture \/ SetFfprobe \/ StartTest \/ EndTest \/ RequestManualFlag \/ Save
  /\ UNCHANGED <<found, active, flag, cli>>
-----------------------------------------------------------------------------
Daemon == <<state, saved, found, active, flag, act, seen, answered, proof>>

(* install_gsi: a new token, the Steam id, then the cfg                     *)
Written(step) ==
  CASE step = "idle"  -> [files EXCEPT !.token = @ + 1]
    [] step = "steam" -> [files EXCEPT !.steam = TRUE]
    [] step = "cfg"   -> [files EXCEPT !.cfg = files.token]

SetupGsi ==
  /\ cli = "idle" => files.token < MaxTokens
  /\ files' = Written(cli)
  /\ cli' = IF cli = "idle" THEN "steam" ELSE IF cli = "steam" THEN "cfg" ELSE "idle"
  /\ UNCHANGED <<Daemon, foreign, faults>>

(* The command is stopped, or a write of it fails                           *)
SetupGsiStops ==
  /\ cli # "idle" /\ cli' = "idle"
  /\ UNCHANGED <<Daemon, files, foreign, faults>>

SetupCapture(probe) ==
  /\ probe \in found /\ files.conf # probe
  /\ files' = [files EXCEPT !.conf = probe] /\ foreign' = TRUE
  /\ faults < MaxFaults /\ faults' = faults + 1
  /\ UNCHANGED <<Daemon, cli>>

HostChanges(probe) ==
  /\ found' = IF probe \in found THEN found \ {probe} ELSE found \cup {probe}
  /\ faults < MaxFaults /\ faults' = faults + 1
  /\ UNCHANGED <<state, saved, files, active, flag, act, cli, seen, answered, proof, foreign>>

(* The daemon stops, in the middle of an action or between two              *)
StopDaemon ==
  /\ Up /\ faults < MaxFaults /\ faults' = faults + 1
  /\ active' = Down /\ flag' = None /\ act' = Nothing
  /\ foreign' = (foreign \/ act.at = "save")
  /\ UNCHANGED <<state, saved, files, found, cli, seen, answered, proof>>

(* read_gsi_credentials: both files or neither                              *)
CanStart == (files.token # 0) = files.steam

(* run_manual_flag_service: the session is bound, or it cannot be, or is    *)
(* lost                                                                     *)
WorkerReports ==
  /\ \/ flag = "starting" /\ flag' \in {"ready", "unavailable"}
     \/ flag = "ready" /\ flag' = "unavailable"
  /\ UNCHANGED <<state, saved, files, found, active, act, cli, seen, answered, proof, foreign, faults>>

(* compose_live_runtime: without credentials or without a capture           *)
(* configuration there is no worker; starting the recorder or it may fail   *)
Composed == IF files.token # 0 /\ CanRecord THEN {None, "starting"} ELSE {None}

StartDaemon ==
  /\ ~Up /\ CanStart
  /\ active' = files.token /\ flag' \in Composed /\ state' = saved
  /\ UNCHANGED <<saved, files, found, act, cli, seen, answered, proof, foreign, faults>>
-----------------------------------------------------------------------------
Next ==
  \/ \E c \in Clients : Look(c) \/ \E r \in Requests : Begin(c, r)
  \/ Effect
  \/ SetupGsi \/ SetupGsiStops
  \/ \E p \in Probes : SetupCapture(p) \/ HostChanges(p)
  \/ StopDaemon \/ StartDaemon \/ WorkerReports

Spec == Init /\ [][Next]_vars
-----------------------------------------------------------------------------
(* A test that the dashboard shows as passed was a test of the capture.conf *)
(* that is there now: configure_capture takes it back, set_ffprobe and a    *)
(* host that changes during the nine seconds do not spoil it.  setup-capture *)
(* and an action that was not saved do, which "foreign" records             *)
TestedIsConfigured == state.tested /\ ~foreign => proof = files.conf

(* An action answered with success is there after a restart, whatever was   *)
(* answered with an error before it                                         *)
AnsweredIsKept ==
  /\ saved.revision >= answered
  /\ Up => state.revision >= answered

(* An action answered with success shows: its step is ready, or deferred by *)
(* a skip, although it may have been deferred before, the state was changed *)
(* apart from the files, and others write the files meanwhile.  Not that of *)
(* request_manual_flag, which tests the worker's status and leaves nothing: *)
(* the response reads it again, and the worker may have changed it          *)
StepOf(request, arg) ==
  CASE request = "install_gsi" -> "gsi" [] request = "skip" -> arg
    [] request = "check_identity" -> "local_identity"
    [] request = "configure_capture" -> "capture" [] request = "set_ffprobe" -> "ffprobe"
    [] request = "run_test_capture" -> "test_capture"
    [] request = "set_background" -> "background"

AnsweredIsShown ==
  [][answered' # answered /\ found = Probes /\ act.request # "request_manual_flag" =>
       \A id \in {StepOf(act.request, act.arg)} :
         Checks(id)' \in IF act.request = "skip" THEN {"ready", "not_tested"} ELSE {"ready"}]_vars

=============================================================================
