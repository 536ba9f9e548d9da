-------------------------- MODULE SetupWizardProofs --------------------------
(***************************************************************************)
(* Proofs about SetupWizard, for any dashboards, probes, tokens and        *)
(* faults.                                                                 *)
(*                                                                         *)
(* An action that is answered is saved under the mutex it took effect      *)
(* under.  So ShownInv says of an action waiting for its save what it has  *)
(* achieved, and that the commands and the host do not undo it; TestInv    *)
(* says of the saved state as of the one in memory whether its test is of  *)
(* the capture.conf that is there.                                         *)
(***************************************************************************)
EXTENDS SetupWizard, TLAPS

Setup == [revision : Nat, skipped : SUBSET Optional, selected : BOOLEAN,
          background : BOOLEAN \cup {None}, tested : BOOLEAN, probe : Probes \cup {None}]

HostFiles == [token : Nat, steam : BOOLEAN, marker : BOOLEAN, cfg : Nat \cup {Marker},
              conf : Probes \cup {None}]

Names == {"install_gsi", "check_identity", "run_test_capture", "request_manual_flag", "skip",
          "set_background", "configure_capture", "set_ffprobe"}

Args == Optional \cup BOOLEAN \cup Probes \cup {None}

Action == [at : {"none", "effect", "cfg", "test", "save"}, client : Clients \cup {None},
           request : Names \cup {None}, arg : Args]

Typed ==
  /\ state \in Setup /\ saved \in Setup /\ files \in HostFiles /\ act \in Action
  /\ found \subseteq Probes /\ answered \in Nat
  /\ foreign \in BOOLEAN /\ flag \in {None, "starting", "ready", "unavailable"}

(* An action that has begun has a name and the argument that goes with it;  *)
(* none survives its daemon                                                 *)
ArgOk ==
  CASE act.request = "skip" -> act.arg \in Optional
    [] act.request = "set_background" -> act.arg \in BOOLEAN
    [] act.request \in {"configure_capture", "set_ffprobe"} -> act.arg \in Probes
    [] OTHER -> TRUE

ActInv ==
  /\ ~Up => act = Nothing
  /\ act.at # "none" => act.request \in Names /\ ArgOk
  /\ act.at = "cfg" => act.request = "install_gsi"
  /\ act.at = "test" => act.request = "run_test_capture"
  /\ cli \in {"idle", "steam", "cfg"} /\ (cli # "idle" => files.token # 0)

TestInv ==
  /\ TestedIsConfigured
  /\ act.at # "save" /\ saved.tested /\ ~foreign => proof = files.conf

Achieved ==
  CASE act.request = "install_gsi" -> files.cfg # 0
    [] act.request = "skip" -> act.arg \in state.skipped
    [] act.request = "check_identity" -> files.steam /\ "local_identity" \notin state.skipped
    [] act.request = "configure_capture" -> files.conf \in Probes /\ "capture" \notin state.skipped
    [] act.request = "set_ffprobe" -> state.probe \in Probes /\ "ffprobe" \notin state.skipped
    [] act.request = "run_test_capture" -> state.tested /\ "test_capture" \notin state.skipped
    [] act.request = "set_background" -> state.background # None
    [] OTHER -> TRUE

ShownInv == act.at = "save" => Achieved

IInv == Typed /\ ActInv /\ AnsweredIsKept /\ TestInv /\ ShownInv
-----------------------------------------------------------------------------
LEMMA NothingTyped ==
  Nothing \in Action /\ Nothing.at = "none"
BY DEF Nothing, Action, Args

LEMMA Begun ==
  ASSUME NEW r \in Requests, NEW c \in Clients, NEW a,
         a = [at |-> "effect", client |-> c, request |-> r[1], arg |-> r[2]]
  PROVE  /\ a \in Action /\ a.at = "effect" /\ a.request \in Names
         /\ a.request = "skip" => a.arg \in Optional
         /\ a.request = "set_background" => a.arg \in BOOLEAN
         /\ a.request \in {"configure_capture", "set_ffprobe"} => a.arg \in Probes
<1>1. /\ r[1] \in Names /\ r[2] \in Args
      /\ r[1] = "skip" => r[2] \in Optional
      /\ r[1] = "set_background" => r[2] \in BOOLEAN
      /\ r[1] \in {"configure_capture", "set_ffprobe"} => r[2] \in Probes
  BY DEF Requests, Names, Args
<1>2. a.at = "effect" /\ a.client = c /\ a.request = r[1] /\ a.arg = r[2]
  OBVIOUS
<1>3. a \in Action
  BY <1>1 DEF Action
<1> QED BY <1>1, <1>2, <1>3

(* What Changed does: the next revision of s is in memory, its save is due. *)
LEMMA ChangedEffect ==
  ASSUME Typed, NEW s \in Setup, Changed(s)
  PROVE  /\ state' \in Setup /\ state'.revision = s.revision + 1
         /\ state'.skipped = s.skipped /\ state'.probe = s.probe
         /\ state'.tested = s.tested /\ state'.background = s.background
         /\ act' \in Action /\ act'.at = "save" /\ act'.request = act.request /\ act'.arg = act.arg
         /\ UNCHANGED <<saved, answered>>
<1> DEFINE n == s.revision + 1
<1>1. n \in Nat
  BY DEF Setup
<1> HIDE DEF n
<1>2. state' = [s EXCEPT !.revision = n] /\ act' = [act EXCEPT !.at = "save"]
      /\ UNCHANGED <<saved, answered>>
  BY DEF Changed, n
<1>3. state' \in Setup /\ state'.revision = n
  BY <1>1, <1>2 DEF Setup
<1>4. state'.skipped = s.skipped /\ state'.probe = s.probe
  BY <1>2 DEF Setup
<1>5. state'.tested = s.tested
  BY <1>2 DEF Setup
<1>6. state'.background = s.background
  BY <1>2 DEF Setup
<1>7. act \in Action
  BY DEF Typed
<1>8. act' \in Action /\ act'.at = "save" /\ act'.request = act.request /\ act'.arg = act.arg
  BY <1>2, <1>7 DEF Action
<1> QED BY <1>2, <1>3, <1>4, <1>5, <1>6, <1>8 DEF n

(* An effect: the mutex is held, the host and the commands stand still      *)
Held == UNCHANGED <<found, active, flag, cli>>

LEMMA Succeeded ==
  ASSUME IInv, Up, Held, act.at \in {"effect", "cfg", "test"},
         NEW s \in Setup, s.revision = state.revision, Changed(s),
         files' \in HostFiles, files'.token = files.token, foreign' \in BOOLEAN
  PROVE  Typed' /\ ActInv' /\ AnsweredIsKept'
<1>1. /\ state' \in Setup /\ state'.revision = s.revision + 1
      /\ act' \in Action /\ act'.at = "save" /\ act'.request = act.request /\ act'.arg = act.arg
      /\ UNCHANGED <<saved, answered, found, active, flag, cli>>
  BY ChangedEffect DEF IInv, Held
<1>2. Typed'
  BY <1>1 DEF IInv, Typed
<1>3. Up'
  BY <1>1 DEF Up
<1>4. act.request \in Names /\ ArgOk
  BY DEF IInv, ActInv
<1>5. ArgOk'
  BY <1>1, <1>4 DEF ArgOk
<1>6. ActInv'
  BY <1>1, <1>3, <1>4, <1>5 DEF IInv, ActInv
<1>7. state.revision \in Nat /\ state.revision >= answered /\ saved.revision >= answered /\ answered \in Nat
  BY DEF IInv, AnsweredIsKept, Typed, Setup
<1>8. state'.revision >= answered' /\ saved'.revision >= answered'
  BY <1>1, <1>7
<1> QED BY <1>2, <1>6, <1>8 DEF AnsweredIsKept

(* A refusal                                                                *)
LEMMA Refused ==
  ASSUME IInv, Up, Held, Refuse, act.at # "save"
  PROVE  IInv'
<1>1. act' = Nothing /\ UNCHANGED <<state, saved, files, answered, proof, foreign, found, active, flag, cli>>
  BY DEF Refuse, Held
<1>2. Up' /\ act'.at = "none"
  BY <1>1, NothingTyped DEF Up
<1>3. Typed'
  BY <1>1, NothingTyped DEF IInv, Typed
<1>4. ActInv'
  BY <1>1, <1>2 DEF IInv, ActInv
<1>5. AnsweredIsKept'
  BY <1>1, <1>2 DEF IInv, AnsweredIsKept
<1>6. TestInv'
  BY <1>1, <1>2 DEF IInv, TestInv, TestedIsConfigured
<1>7. ShownInv'
  BY <1>2 DEF ShownInv
<1> QED BY <1>3, <1>4, <1>5, <1>6, <1>7 DEF IInv
-----------------------------------------------------------------------------
(* The effects.                                                             *)
LEMMA EffectFacts ==
  ASSUME IInv
  PROVE  /\ state \in Setup /\ files \in HostFiles /\ act \in Action /\ foreign \in BOOLEAN
         /\ files.conf \in Probes \cup {None} /\ files.token \in Nat
         /\ act.at # "none" => ArgOk /\ act.request \in Names
BY DEF IInv, Typed, ActInv, HostFiles

(* An effect that leaves the test, capture.conf and the history alone       *)
LEMMA SameTest ==
  ASSUME IInv, act'.at = "save", state'.tested = state.tested, files'.conf = files.conf,
         UNCHANGED <<proof, foreign>>
  PROVE  TestInv'
BY DEF IInv, TestInv, TestedIsConfigured

LEMMA MarkerStep ==
  ASSUME IInv, Up, Held, WriteMarker
  PROVE  IInv'
<1>1. /\ act.at = "effect" /\ act.request = "install_gsi"
      /\ files' = [files EXCEPT !.marker = TRUE] /\ act' = [act EXCEPT !.at = "cfg"]
      /\ UNCHANGED <<state, saved, answered, proof, foreign, found, active, flag, cli>>
  BY DEF WriteMarker, Doing, Held
<1>2. files \in HostFiles /\ act \in Action
  BY EffectFacts
<1>3. files' \in HostFiles /\ files'.token = files.token /\ files'.conf = files.conf
  BY <1>1, <1>2 DEF HostFiles
<1>4. act' \in Action /\ act'.at = "cfg" /\ act'.request = act.request /\ act'.arg = act.arg
  BY <1>1, <1>2 DEF Action
<1>5. Up'
  BY <1>1 DEF Up
<1>6. Typed'
  BY <1>1, <1>3, <1>4 DEF IInv, Typed
<1>7. ActInv'
  BY <1>1, <1>3, <1>4, <1>5 DEF IInv, ActInv, Names, ArgOk
<1>8. AnsweredIsKept'
  BY <1>1, <1>5 DEF IInv, AnsweredIsKept
<1>9. TestInv'
  BY <1>1, <1>3, <1>4 DEF IInv, TestInv, TestedIsConfigured
<1>10. ShownInv'
  BY <1>4 DEF ShownInv
<1> QED BY <1>6, <1>7, <1>8, <1>9, <1>10 DEF IInv

LEMMA CfgStep ==
  ASSUME IInv, Up, Held, WriteMarkedCfg
  PROVE  IInv'
<1> DEFINE s == [state EXCEPT !.selected = TRUE, !.skipped = state.skipped \ {"gsi"}]
<1>1. /\ act.at = "cfg" /\ act.request = "install_gsi"
      /\ files' = [files EXCEPT !.cfg = Marker] /\ Changed(s) /\ UNCHANGED <<proof, foreign>>
  BY DEF WriteMarkedCfg, IInv, ActInv
<1>2. state \in Setup /\ files \in HostFiles /\ foreign' \in BOOLEAN
  BY <1>1, EffectFacts
<1>3. s \in Setup /\ s.revision = state.revision
  BY <1>2 DEF Setup
<1>4. s.tested = state.tested
  BY <1>2 DEF Setup
<1> HIDE DEF s
<1>5. /\ files' \in HostFiles /\ files'.token = files.token /\ files'.conf = files.conf
      /\ files'.cfg = Marker
  BY <1>1, <1>2 DEF HostFiles
<1>6. Typed' /\ ActInv' /\ AnsweredIsKept'
  BY <1>1, <1>2, <1>3, <1>5, Succeeded
<1>7. act'.at = "save" /\ act'.request = act.request /\ state'.tested = s.tested
  BY <1>1, <1>3, ChangedEffect DEF IInv
<1>8. TestInv'
  BY <1>1, <1>4, <1>5, <1>7, SameTest
<1>9. ShownInv'
  BY <1>1, <1>5, <1>7, WizardAssumption DEF ShownInv, Achieved
<1> QED BY <1>6, <1>8, <1>9 DEF IInv

LEMMA SkipStep ==
  ASSUME IInv, Up, Held, Skip
  PROVE  IInv'
<1> DEFINE s == [state EXCEPT !.skipped = state.skipped \cup {act.arg}]
<1>1. /\ act.at = "effect" /\ act.request = "skip"
      /\ Changed(s) /\ UNCHANGED <<files, proof, foreign>>
  BY DEF Skip, Doing
<1>2. /\ state \in Setup /\ files \in HostFiles /\ foreign' \in BOOLEAN /\ act.arg \in Optional
  BY <1>1, EffectFacts DEF ArgOk
<1>3. s \in Setup /\ s.revision = state.revision /\ act.arg \in s.skipped
  BY <1>2 DEF Setup
<1>4. s.tested = state.tested
  BY <1>2 DEF Setup
<1> HIDE DEF s
<1>6. Typed' /\ ActInv' /\ AnsweredIsKept'
  BY <1>1, <1>2, <1>3, Succeeded
<1>7. act'.at = "save" /\ act'.request = act.request /\ act'.arg = act.arg
      /\ state'.tested = s.tested /\ state'.skipped = s.skipped
  BY <1>1, <1>3, ChangedEffect DEF IInv
<1>8. TestInv'
  BY <1>1, <1>4, <1>7, SameTest
<1>9. ShownInv'
  BY <1>1, <1>3, <1>7 DEF ShownInv, Achieved
<1> QED BY <1>6, <1>8, <1>9 DEF IInv

LEMMA BackgroundStep ==
  ASSUME IInv, Up, Held, SetBackground
  PROVE  IInv'
<1> DEFINE s == [state EXCEPT !.background = act.arg]
<1>1. /\ act.at = "effect" /\ act.request = "set_background"
      /\ Changed(s) /\ UNCHANGED <<files, proof, foreign>>
  BY DEF SetBackground, Doing
<1>2. /\ state \in Setup /\ files \in HostFiles /\ foreign' \in BOOLEAN /\ act.arg \in BOOLEAN
  BY <1>1, EffectFacts DEF ArgOk
<1>3. s \in Setup /\ s.revision = state.revision
  BY <1>2 DEF Setup
<1>4. s.tested = state.tested
  BY <1>2 DEF Setup
<1>5. s.background = act.arg
  BY <1>2 DEF Setup
<1> HIDE DEF s
<1>6. Typed' /\ ActInv' /\ AnsweredIsKept'
  BY <1>1, <1>2, <1>3, Succeeded
<1>7. act'.at = "save" /\ act'.request = act.request
      /\ state'.tested = s.tested /\ state'.background = s.background
  BY <1>1, <1>3, ChangedEffect DEF IInv
<1>8. TestInv'
  BY <1>1, <1>4, <1>7, SameTest
<1>9. s.background # None
  BY <1>2, <1>5, WizardAssumption
<1>10. ShownInv'
  BY <1>1, <1>7, <1>9 DEF ShownInv, Achieved
<1> QED BY <1>6, <1>8, <1>10 DEF IInv

LEMMA IdentityStep ==
  ASSUME IInv, Up, Held, CheckIdentity
  PROVE  IInv'
<1> DEFINE s == [state EXCEPT !.skipped = state.skipped \ {"local_identity"}]
<1>1. act.at = "effect" /\ act.request = "check_identity"
  BY DEF CheckIdentity, Doing
<1>2. CASE Refuse
  BY <1>1, <1>2, Refused
<1>3. CASE files.steam /\ Changed(s) /\ UNCHANGED <<files, proof, foreign>>
  <2>1. state \in Setup /\ files \in HostFiles /\ foreign' \in BOOLEAN
    BY <1>3, EffectFacts
  <2>2. s \in Setup /\ s.revision = state.revision /\ "local_identity" \notin s.skipped
    BY <2>1 DEF Setup
  <2>3. s.tested = state.tested
    BY <2>1 DEF Setup
  <2> HIDE DEF s
  <2>4. Typed' /\ ActInv' /\ AnsweredIsKept'
    BY <1>1, <1>3, <2>1, <2>2, Succeeded
  <2>5. act'.at = "save" /\ act'.request = act.request
        /\ state'.tested = s.tested /\ state'.skipped = s.skipped
    BY <1>3, <2>2, ChangedEffect DEF IInv
  <2>6. TestInv'
    BY <1>3, <2>3, <2>5, SameTest
  <2>7. ShownInv'
    BY <1>1, <1>3, <2>2, <2>5 DEF ShownInv, Achieved
  <2> QED BY <2>4, <2>6, <2>7 DEF IInv
<1> QED BY <1>2, <1>3 DEF CheckIdentity

LEMMA ConfigureStep ==
  ASSUME IInv, Up, Held, ConfigureCapture
  PROVE  IInv'
<1> DEFINE s == [state EXCEPT !.skipped = state.skipped \ {"capture", "ffprobe"},
                              !.tested = FALSE, !.probe = act.arg]
<1>1. act.at = "effect" /\ act.request = "configure_capture"
  BY DEF ConfigureCapture, Doing
<1>2. CASE Refuse
  BY <1>1, <1>2, Refused
<1>3. CASE files' = [files EXCEPT !.conf = act.arg] /\ Changed(s) /\ UNCHANGED <<proof, foreign>>
  <2>1. state \in Setup /\ files \in HostFiles /\ foreign' \in BOOLEAN /\ act.arg \in Probes
    BY <1>1, <1>3, EffectFacts DEF ArgOk
  <2>2. s \in Setup /\ s.revision = state.revision /\ "capture" \notin s.skipped
    BY <2>1 DEF Setup
  <2>3. ~s.tested
    BY <2>1 DEF Setup
  <2> HIDE DEF s
  <2>4. files' \in HostFiles /\ files'.token = files.token /\ files'.conf = act.arg
    BY <1>3, <2>1 DEF HostFiles
  <2>5. Typed' /\ ActInv' /\ AnsweredIsKept'
    BY <1>1, <1>3, <2>1, <2>2, <2>4, Succeeded
  <2>6. act'.at = "save" /\ act'.request = act.request
        /\ state'.tested = s.tested /\ state'.skipped = s.skipped
    BY <1>3, <2>2, ChangedEffect DEF IInv
  <2>7. TestInv'
    BY <2>3, <2>6 DEF TestInv, TestedIsConfigured
  <2>8. ShownInv'
    BY <1>1, <2>1, <2>2, <2>4, <2>6 DEF ShownInv, Achieved
  <2> QED BY <2>5, <2>7, <2>8 DEF IInv
<1> QED BY <1>2, <1>3 DEF ConfigureCapture, AfterConfigure

LEMMA ProbeStep ==
  ASSUME IInv, Up, Held, SetFfprobe
  PROVE  IInv'
<1> DEFINE s == [state EXCEPT !.skipped = state.skipped \ {"ffprobe"}, !.probe = act.arg]
<1>1. act.at = "effect" /\ act.request = "set_ffprobe"
  BY DEF SetFfprobe, Doing
<1>2. CASE Refuse
  BY <1>1, <1>2, Refused
<1>3. CASE Changed(s) /\ UNCHANGED <<files, proof, foreign>>
  <2>1. state \in Setup /\ files \in HostFiles /\ foreign' \in BOOLEAN /\ act.arg \in Probes
    BY <1>1, <1>3, EffectFacts DEF ArgOk
  <2>2. s \in Setup /\ s.revision = state.revision /\ "ffprobe" \notin s.skipped /\ s.probe = act.arg
    BY <2>1 DEF Setup
  <2>3. s.tested = state.tested
    BY <2>1 DEF Setup
  <2> HIDE DEF s
  <2>4. Typed' /\ ActInv' /\ AnsweredIsKept'
    BY <1>1, <1>3, <2>1, <2>2, Succeeded
  <2>5. act'.at = "save" /\ act'.request = act.request
        /\ state'.tested = s.tested /\ state'.skipped = s.skipped /\ state'.probe = s.probe
    BY <1>3, <2>2, ChangedEffect DEF IInv
  <2>6. TestInv'
    BY <1>3, <2>3, <2>5, SameTest
  <2>7. ShownInv'
    BY <1>1, <2>1, <2>2, <2>5 DEF ShownInv, Achieved
  <2> QED BY <2>4, <2>6, <2>7 DEF IInv
<1> QED BY <1>2, <1>3 DEF SetFfprobe

LEMMA StartTestStep ==
  ASSUME IInv, Up, Held, StartTest
  PROVE  IInv'
<1>1. act.at = "effect" /\ act.request = "run_test_capture"
  BY DEF StartTest, Doing
<1>2. CASE Refuse
  BY <1>1, <1>2, Refused
<1>3. CASE /\ act' = [act EXCEPT !.at = "test", !.arg = files.conf]
           /\ UNCHANGED <<state, saved, files, seen, answered, proof, foreign>>
  <2>1. act \in Action /\ files.conf \in Args
    BY EffectFacts DEF Args
  <2>2. act' \in Action /\ act'.at = "test" /\ act'.request = act.request
    BY <1>3, <2>1 DEF Action
  <2>3. UNCHANGED <<state, saved, files, answered, proof, foreign, found, active, flag, cli>> /\ Up'
    BY <1>3 DEF Held, Up
  <2>4. Typed'
    BY <2>2, <2>3 DEF IInv, Typed
  <2>5. ActInv'
    BY <1>1, <2>2, <2>3 DEF IInv, ActInv, Names, ArgOk
  <2>6. AnsweredIsKept'
    BY <2>3 DEF IInv, AnsweredIsKept
  <2>7. TestInv'
    BY <1>1, <2>3 DEF IInv, TestInv, TestedIsConfigured
  <2>8. ShownInv'
    BY <2>2 DEF ShownInv
  <2> QED BY <2>4, <2>5, <2>6, <2>7, <2>8 DEF IInv
<1> QED BY <1>2, <1>3 DEF StartTest

LEMMA EndTestStep ==
  ASSUME IInv, Up, Held, EndTest
  PROVE  IInv'
<1> DEFINE s == [state EXCEPT !.tested = TRUE, !.skipped = state.skipped \ {"test_capture"}]
<1>1. act.at = "test" /\ act.request = "run_test_capture"
  BY DEF EndTest, IInv, ActInv
<1>2. CASE Refuse
  BY <1>1, <1>2, Refused
<1>3. CASE Changed(s) /\ proof' = act.arg /\ foreign' = (act.arg # files.conf) /\ UNCHANGED files
  <2>1. state \in Setup /\ files \in HostFiles /\ foreign' \in BOOLEAN
    BY <1>3, EffectFacts
  <2>2. s \in Setup /\ s.revision = state.revision /\ "test_capture" \notin s.skipped
    BY <2>1 DEF Setup
  <2>3. s.tested
    BY <2>1 DEF Setup
  <2> HIDE DEF s
  <2>4. Typed' /\ ActInv' /\ AnsweredIsKept'
    BY <1>1, <1>3, <2>1, <2>2, Succeeded
  <2>5. act'.at = "save" /\ act'.request = act.request
        /\ state'.tested = s.tested /\ state'.skipped = s.skipped
    BY <1>3, <2>2, ChangedEffect DEF IInv
  <2>6. TestInv'
    BY <1>3, <2>5 DEF TestInv, TestedIsConfigured
  <2>7. ShownInv'
    BY <1>1, <2>2, <2>3, <2>5 DEF ShownInv, Achieved
  <2> QED BY <2>4, <2>6, <2>7 DEF IInv
<1> QED BY <1>2, <1>3 DEF EndTest

LEMMA FlagStep ==
  ASSUME IInv, Up, Held, RequestManualFlag
  PROVE  IInv'
<1>1. act.at = "effect" /\ act.request = "request_manual_flag"
  BY DEF RequestManualFlag, Doing
<1>2. CASE Refuse
  BY <1>1, <1>2, Refused
<1>3. CASE flag = "ready" /\ Changed(state) /\ UNCHANGED <<files, proof, foreign>>
  <2>1. state \in Setup /\ files \in HostFiles /\ foreign' \in BOOLEAN
    BY <1>3, EffectFacts
  <2>2. Typed' /\ ActInv' /\ AnsweredIsKept'
    BY <1>1, <1>3, <2>1, Succeeded
  <2>3. act'.at = "save" /\ act'.request = act.request /\ state'.tested = state.tested
    BY <1>3, <2>1, ChangedEffect DEF IInv
  <2>4. TestInv'
    BY <1>3, <2>3, SameTest
  <2>5. ShownInv'
    BY <1>1, <1>3, <2>3 DEF ShownInv, Achieved, Held
  <2> QED BY <2>2, <2>4, <2>5 DEF IInv
<1> QED BY <1>2, <1>3 DEF RequestManualFlag

LEMMA SaveStep ==
  ASSUME IInv, Up, Held, Save
  PROVE  IInv'
<1>1. act.at = "save" /\ act' = Nothing /\ UNCHANGED <<state, files, proof, found, active, flag, cli>>
      /\ \/ saved' = state /\ answered' = state.revision /\ UNCHANGED foreign
         \/ foreign' = TRUE /\ UNCHANGED <<saved, answered>>
  BY DEF Save, Held, ToSave
<1>2. Up' /\ act'.at = "none" /\ act' \in Action
  BY <1>1, NothingTyped DEF Up
<1>3. state \in Setup /\ state.revision \in Nat
  BY DEF IInv, Typed, Setup
<1>4. Typed'
  BY <1>1, <1>2, <1>3 DEF IInv, Typed
<1>5. ActInv'
  BY <1>1, <1>2 DEF IInv, ActInv
<1>6. AnsweredIsKept'
  BY <1>1, <1>2, <1>3 DEF IInv, AnsweredIsKept
<1>7. TestInv'
  BY <1>1 DEF IInv, TestInv, TestedIsConfigured
<1>8. ShownInv'
  BY <1>2 DEF ShownInv
<1> QED BY <1>4, <1>5, <1>6, <1>7, <1>8 DEF IInv

LEMMA EffectStep == IInv /\ Effect => IInv'
BY MarkerStep, CfgStep, SkipStep, BackgroundStep, IdentityStep, ConfigureStep, ProbeStep,
   StartTestStep, EndTestStep, FlagStep, SaveStep DEF Effect, Held
-----------------------------------------------------------------------------
(* The dashboards                                                           *)
LEMMA LookStep ==
  ASSUME IInv, NEW c \in Clients, Look(c)
  PROVE  IInv'
<1>1. UNCHANGED <<state, saved, files, found, active, flag, act, cli, answered, proof, foreign>>
  BY DEF Look
<1> QED BY <1>1 DEF IInv, Typed, ActInv, ArgOk, Up, AnsweredIsKept, TestInv, TestedIsConfigured,
                    ShownInv, Achieved

LEMMA BeginStep ==
  ASSUME IInv, NEW c \in Clients, NEW r \in Requests, Begin(c, r)
  PROVE  IInv'
<1>1. /\ act = Nothing /\ Up
      /\ act' = [at |-> "effect", client |-> c, request |-> r[1], arg |-> r[2]]
      /\ UNCHANGED <<state, saved, files, found, active, flag, cli, answered, proof, foreign>>
  BY DEF Begin, Unlocked
<1>2. /\ act' \in Action /\ act'.at = "effect" /\ act'.request \in Names
      /\ act'.request = "skip" => act'.arg \in Optional
      /\ act'.request = "set_background" => act'.arg \in BOOLEAN
      /\ act'.request \in {"configure_capture", "set_ffprobe"} => act'.arg \in Probes
  BY <1>1, Begun
<1>3. act.at # "save" /\ Up'
  BY <1>1, NothingTyped DEF Up
<1>4. Typed'
  BY <1>1, <1>2 DEF IInv, Typed
<1>5. ArgOk'
  BY <1>2 DEF ArgOk
<1>6. ActInv'
  BY <1>1, <1>2, <1>3, <1>5 DEF IInv, ActInv
<1>7. AnsweredIsKept' /\ TestInv'
  BY <1>1, <1>3 DEF IInv, AnsweredIsKept, TestInv, TestedIsConfigured
<1>8. ShownInv'
  BY <1>2 DEF ShownInv
<1> QED BY <1>4, <1>6, <1>7, <1>8 DEF IInv
-----------------------------------------------------------------------------
(* The commands and the host: they undo nothing an action has achieved.     *)
LEMMA Outside ==
  ASSUME IInv, UNCHANGED <<state, saved, active, flag, act, answered, proof>>,
         found' \subseteq Probes, files' \in HostFiles, foreign' \in BOOLEAN,
         cli' \in {"idle", "steam", "cfg"}, cli' # "idle" => files'.token # 0,
         files.cfg # 0 => files'.cfg # 0, files.steam => files'.steam,
         files.conf \in Probes => files'.conf \in Probes,
         ~foreign' => files'.conf = files.conf /\ foreign' = foreign
  PROVE  IInv'
<1>1. Typed'
  BY DEF IInv, Typed
<1>2. ActInv'
  BY DEF IInv, ActInv, ArgOk, Up
<1>3. AnsweredIsKept'
  BY DEF IInv, AnsweredIsKept, Up
<1>4. TestInv'
  BY DEF IInv, TestInv, TestedIsConfigured
<1>5. ASSUME act'.at = "save" PROVE Achieved'
  <2>1. act.at = "save" /\ act.request \in Names /\ Achieved
    BY <1>5 DEF IInv, ActInv, ShownInv
  <2>2. CASE act.request = "install_gsi"
    BY <2>1, <2>2 DEF Achieved
  <2>3. CASE act.request = "check_identity"
    BY <2>1, <2>3 DEF Achieved
  <2>4. CASE act.request = "configure_capture"
    BY <2>1, <2>4 DEF Achieved
  <2>5. CASE act.request \in {"skip", "set_background", "run_test_capture", "request_manual_flag",
                              "set_ffprobe"}
    BY <2>1, <2>5 DEF Achieved
  <2> QED BY <2>1, <2>2, <2>3, <2>4, <2>5 DEF Names
<1> QED BY <1>1, <1>2, <1>3, <1>4, <1>5 DEF IInv, ShownInv

LEMMA GsiStep == IInv /\ SetupGsi => IInv'
<1> SUFFICES ASSUME IInv, SetupGsi PROVE IInv'
  OBVIOUS
<1>1. /\ UNCHANGED <<state, saved, active, flag, act, answered, proof, found, foreign>>
      /\ files' = Written(cli)
      /\ cli' = IF cli = "idle" THEN "steam" ELSE IF cli = "steam" THEN "cfg" ELSE "idle"
  BY DEF SetupGsi, Daemon
<1>2. files \in HostFiles /\ foreign \in BOOLEAN /\ found \subseteq Probes /\ files.token \in Nat
  BY EffectFacts DEF IInv, Typed
<1>3. CASE cli = "idle"
  <2> DEFINE n == files.token + 1
  <2>1. n \in Nat /\ n # 0 /\ files' = [files EXCEPT !.token = n]
    BY <1>1, <1>2, <1>3 DEF Written
  <2> HIDE DEF n
  <2>2. /\ files' \in HostFiles /\ files'.token = n /\ files'.cfg = files.cfg
        /\ files'.conf = files.conf
    BY <1>2, <2>1 DEF HostFiles
  <2>3. files'.steam = files.steam
    BY <1>2, <2>1 DEF HostFiles
  <2> QED BY <1>1, <1>2, <1>3, <2>1, <2>2, <2>3, Outside
<1>4. CASE cli = "steam"
  <2>1. files' = [files EXCEPT !.steam = TRUE]
    BY <1>1, <1>4 DEF Written
  <2>2. /\ files' \in HostFiles /\ files'.token = files.token /\ files'.cfg = files.cfg
        /\ files'.conf = files.conf
    BY <1>2, <2>1 DEF HostFiles
  <2>3. files'.steam
    BY <1>2, <2>1 DEF HostFiles
  <2>4. files.token # 0
    BY <1>4 DEF IInv, ActInv
  <2> QED BY <1>1, <1>2, <1>4, <2>2, <2>3, <2>4, Outside
<1>5. CASE cli = "cfg"
  <2>1. files' = [files EXCEPT !.cfg = files.token]
    BY <1>1, <1>5 DEF Written
  <2>2. /\ files' \in HostFiles /\ files'.token = files.token /\ files'.cfg = files.token
        /\ files'.conf = files.conf
    BY <1>2, <2>1 DEF HostFiles
  <2>3. files'.steam = files.steam
    BY <1>2, <2>1 DEF HostFiles
  <2>4. files.token # 0
    BY <1>5 DEF IInv, ActInv
  <2> QED BY <1>1, <1>2, <1>5, <2>2, <2>3, <2>4, Outside
<1> QED BY <1>3, <1>4, <1>5 DEF IInv, ActInv

LEMMA GsiStopsStep == IInv /\ SetupGsiStops => IInv'
<1> SUFFICES ASSUME IInv, SetupGsiStops PROVE IInv'
  OBVIOUS
<1>1. /\ UNCHANGED <<state, saved, active, flag, act, answered, proof, found, files, foreign>>
      /\ cli' = "idle"
  BY DEF SetupGsiStops, Daemon
<1>2. files \in HostFiles /\ foreign \in BOOLEAN /\ found \subseteq Probes
  BY DEF IInv, Typed
<1> QED BY <1>1, <1>2, Outside

LEMMA CaptureCommandStep ==
  ASSUME IInv, NEW p \in Probes, SetupCapture(p)
  PROVE  IInv'
<1>1. /\ UNCHANGED <<state, saved, active, flag, act, answered, proof, found, cli>>
      /\ files' = [files EXCEPT !.conf = p] /\ foreign' = TRUE
  BY DEF SetupCapture, Daemon
<1>2. files \in HostFiles /\ found \subseteq Probes /\ cli \in {"idle", "steam", "cfg"}
      /\ (cli # "idle" => files.token # 0)
  BY DEF IInv, Typed, ActInv
<1>3. /\ files' \in HostFiles /\ files'.token = files.token /\ files'.cfg = files.cfg
      /\ files'.conf = p
  BY <1>1, <1>2 DEF HostFiles
<1>4. files'.steam = files.steam
  BY <1>1, <1>2 DEF HostFiles
<1> QED BY <1>1, <1>2, <1>3, <1>4, Outside

LEMMA HostStep ==
  ASSUME IInv, NEW p \in Probes, HostChanges(p)
  PROVE  IInv'
<1>1. /\ UNCHANGED <<state, saved, files, active, flag, act, cli, answered, proof, foreign>>
      /\ found' = IF p \in found THEN found \ {p} ELSE found \cup {p}
  BY DEF HostChanges
<1>2. files \in HostFiles /\ foreign \in BOOLEAN /\ found \subseteq Probes
      /\ cli \in {"idle", "steam", "cfg"} /\ (cli # "idle" => files.token # 0)
  BY DEF IInv, Typed, ActInv
<1>3. found' \subseteq Probes
  BY <1>1, <1>2
<1> QED BY <1>1, <1>2, <1>3, Outside
-----------------------------------------------------------------------------
LEMMA StopStep == IInv /\ StopDaemon => IInv'
<1> SUFFICES ASSUME IInv, StopDaemon PROVE IInv'
  OBVIOUS
<1>1. /\ active' = Down /\ flag' = None /\ act' = Nothing
      /\ foreign' = (foreign \/ act.at = "save")
      /\ UNCHANGED <<state, saved, files, found, cli, answered, proof>>
  BY DEF StopDaemon
<1>2. ~Up' /\ act'.at = "none" /\ act' \in Action
  BY <1>1, NothingTyped DEF Up
<1>3. Typed'
  BY <1>1, <1>2 DEF IInv, Typed
<1>4. ActInv'
  BY <1>1, <1>2 DEF IInv, ActInv
<1>5. AnsweredIsKept'
  BY <1>1, <1>2 DEF IInv, AnsweredIsKept
<1>6. TestInv'
  BY <1>1 DEF IInv, TestInv, TestedIsConfigured
<1>7. ShownInv'
  BY <1>2 DEF ShownInv
<1> QED BY <1>3, <1>4, <1>5, <1>6, <1>7 DEF IInv

LEMMA StartStep == IInv /\ StartDaemon => IInv'
<1> SUFFICES ASSUME IInv, StartDaemon PROVE IInv'
  OBVIOUS
<1>1. /\ ~Up /\ state' = saved /\ flag' \in {None, "starting"}
      /\ UNCHANGED <<saved, files, found, act, cli, answered, proof, foreign>>
  BY DEF StartDaemon, Composed
<1>2. act = Nothing /\ act.at = "none"
  BY <1>1, NothingTyped DEF IInv, ActInv
<1>3. Typed'
  BY <1>1 DEF IInv, Typed
<1>4. ActInv'
  BY <1>1, <1>2 DEF IInv, ActInv
<1>5. AnsweredIsKept'
  BY <1>1 DEF IInv, AnsweredIsKept
<1>6. TestInv'
  BY <1>1, <1>2 DEF IInv, TestInv, TestedIsConfigured
<1>7. ShownInv'
  BY <1>1, <1>2 DEF ShownInv
<1> QED BY <1>3, <1>4, <1>5, <1>6, <1>7 DEF IInv

LEMMA ReportStep == IInv /\ WorkerReports => IInv'
<1> SUFFICES ASSUME IInv, WorkerReports PROVE IInv'
  OBVIOUS
<1>1. /\ UNCHANGED <<state, saved, files, found, active, act, cli, answered, proof, foreign>>
      /\ flag' \in {"ready", "unavailable"}
  BY DEF WorkerReports
<1>2. Typed'
  BY <1>1 DEF IInv, Typed
<1>3. ActInv'
  BY <1>1 DEF IInv, ActInv, ArgOk, Up
<1>4. AnsweredIsKept'
  BY <1>1 DEF IInv, AnsweredIsKept, Up
<1>5. TestInv'
  BY <1>1 DEF IInv, TestInv, TestedIsConfigured
<1>6. ShownInv'
  BY <1>1 DEF IInv, ShownInv, Achieved
<1> QED BY <1>2, <1>3, <1>4, <1>5, <1>6 DEF IInv

LEMMA WizardInit == Init => IInv
<1> SUFFICES ASSUME Init PROVE IInv
  OBVIOUS
<1>1. Fresh \in Setup /\ Fresh.revision = 0
  BY DEF Fresh, Setup
<1>2. ~Fresh.tested
  BY DEF Fresh
<1>3. files \in HostFiles
  BY DEF Init, HostFiles
<1>4. Typed
  BY <1>1, <1>3, NothingTyped DEF Init, Typed
<1>5. ActInv
  BY NothingTyped DEF Init, ActInv
<1>6. AnsweredIsKept
  BY <1>1 DEF Init, AnsweredIsKept
<1>7. TestInv
  BY <1>2 DEF Init, TestInv, TestedIsConfigured
<1>8. ShownInv
  BY NothingTyped DEF Init, ShownInv
<1> QED BY <1>4, <1>5, <1>6, <1>7, <1>8 DEF IInv

LEMMA WizardStutter == IInv /\ UNCHANGED vars => IInv'
<1> SUFFICES ASSUME IInv, UNCHANGED vars PROVE IInv'
  OBVIOUS
<1>1. UNCHANGED <<state, saved, active, flag, act, answered, proof, found, files, foreign, cli>>
  BY DEF vars
<1>2. files \in HostFiles /\ foreign \in BOOLEAN /\ found \subseteq Probes
      /\ cli \in {"idle", "steam", "cfg"} /\ (cli # "idle" => files.token # 0)
  BY DEF IInv, Typed, ActInv
<1> QED BY <1>1, <1>2, Outside

(* Typing, what the action under the mutex has achieved and what the state  *)
(* in memory and the saved one say of the last test.                        *)
THEOREM WizardInductive == Spec => []IInv
<1>1. IInv /\ [Next]_vars => IInv'
  <2> SUFFICES ASSUME IInv, [Next]_vars PROVE IInv'
    OBVIOUS
  <2>1. ASSUME NEW c \in Clients, Look(c) \/ \E r \in Requests : Begin(c, r) PROVE IInv'
    BY <2>1, LookStep, BeginStep
  <2>2. ASSUME NEW p \in Probes, SetupCapture(p) \/ HostChanges(p) PROVE IInv'
    BY <2>2, CaptureCommandStep, HostStep
  <2> QED BY <2>1, <2>2, EffectStep, GsiStep, GsiStopsStep, StopStep, StartStep, ReportStep, WizardStutter
          DEF Next
<1> QED BY <1>1, WizardInit, PTL DEF Spec

(* A passed test shows only while it was of the capture.conf that is there: *)
(* apply_capture_configuration takes it back, and a state that is loaded    *)
(* again was saved with the test it tells of (TestedIsConfigured).          *)
THEOREM WizardTested == Spec => []TestedIsConfigured
<1>1. IInv => TestedIsConfigured
  BY DEF IInv, TestInv
<1> QED BY <1>1, WizardInductive, PTL

(* What was answered with success survives errors, stops and restarts: the  *)
(* answer follows the save of the state it is about (AnsweredIsKept; act,   *)
(* persist).                                                                *)
THEOREM WizardKept == Spec => []AnsweredIsKept
<1>1. IInv => AnsweredIsKept
  BY DEF IInv
<1> QED BY <1>1, WizardInductive, PTL
-----------------------------------------------------------------------------
(* Only a save that succeeds answers with success.                          *)
LEMMA AnsweredBySave ==
  ASSUME IInv, Next, answered' # answered
  PROVE  /\ Up /\ act.at = "save" /\ Achieved
         /\ UNCHANGED <<state, files, found, active, flag>>
<1>1. \A c \in Clients : ~(Look(c) \/ \E r \in Requests : Begin(c, r))
  BY DEF Look, Begin
<1>2. ~SetupGsi /\ ~SetupGsiStops /\ ~StopDaemon /\ ~StartDaemon /\ ~WorkerReports
  BY DEF SetupGsi, SetupGsiStops, StopDaemon, StartDaemon, WorkerReports, Daemon
<1>3. \A p \in Probes : ~(SetupCapture(p) \/ HostChanges(p))
  BY DEF SetupCapture, HostChanges, Daemon
<1>4. Effect
  BY <1>1, <1>2, <1>3 DEF Next
<1>5. ~WriteMarker /\ ~WriteMarkedCfg /\ ~Skip /\ ~SetBackground /\ ~CheckIdentity /\ ~SetFfprobe
  BY DEF WriteMarker, WriteMarkedCfg, Skip, SetBackground, CheckIdentity, SetFfprobe, Changed, Refuse
<1>6. ~ConfigureCapture /\ ~StartTest /\ ~EndTest /\ ~RequestManualFlag
  BY DEF ConfigureCapture, StartTest, EndTest, RequestManualFlag, Changed, Refuse
<1>7. Up /\ Save /\ UNCHANGED <<found, active, flag, cli>>
  BY <1>4, <1>5, <1>6 DEF Effect
<1>8. act.at = "save" /\ UNCHANGED <<state, files>>
  BY <1>7 DEF Save
<1> QED BY <1>7, <1>8 DEF IInv, ShownInv

(* What a response shows of a host and a state that do not change.          *)
LEMMA SameChecks ==
  ASSUME UNCHANGED <<state, files, found, active, flag>>, NEW id
  PROVE  Checks(id)' = Checks(id)
BY DEF Checks, InitialCheck, CaptureCheck, BackgroundCheck, Deferrable, GsiInstalled, Configured,
       FoundProbe

Shows(request) == IF request = "skip" THEN {"ready", "not_tested"} ELSE {"ready"}

(* The executables are found, so what was achieved shows.                   *)
LEMMA AchievedShows ==
  ASSUME IInv, act.at = "save", Achieved, found = Probes, act.request # "request_manual_flag"
  PROVE  Checks(StepOf(act.request, act.arg)) \in Shows(act.request)
<1>1. act.request \in Names /\ ArgOk
  BY DEF IInv, ActInv
<1>2. CASE act.request = "install_gsi"
  BY <1>2 DEF Achieved, Shows, StepOf, Checks, InitialCheck, GsiInstalled
<1>3. CASE act.request = "check_identity"
  BY <1>3 DEF Achieved, Shows, StepOf, Checks, InitialCheck, Deferrable
<1>4. CASE act.request = "configure_capture"
  BY <1>4 DEF Achieved, Shows, StepOf, Checks, CaptureCheck, Deferrable, Configured
<1>5. CASE act.request = "set_ffprobe"
  <2>1. state.probe \in found /\ "ffprobe" \notin state.skipped
    BY <1>5 DEF Achieved
  <2>2. FoundProbe # None
    BY <2>1, WizardAssumption DEF FoundProbe
  <2> QED BY <1>5, <2>1, <2>2 DEF Shows, StepOf, Checks, CaptureCheck, Deferrable
<1>6. CASE act.request = "run_test_capture"
  BY <1>6 DEF Achieved, Shows, StepOf, Checks, CaptureCheck, Deferrable
<1>7. CASE act.request = "set_background"
  BY <1>7 DEF Achieved, Shows, StepOf, Checks, BackgroundCheck
<1>8. CASE act.request = "skip"
  <2>1. act.arg \in Optional /\ act.arg \in state.skipped
    BY <1>1, <1>8 DEF ArgOk, Achieved
  <2>2. act.arg \in {"gsi", "local_identity", "capture", "ffprobe", "test_capture", "manual_flag"}
    BY <2>1, WizardAssumption
  <2>3. StepOf(act.request, act.arg) = act.arg /\ Shows(act.request) = {"ready", "not_tested"}
    BY <1>8 DEF StepOf, Shows
  <2>4. Checks(act.arg) \in {"ready", "not_tested"}
    BY <2>1, <2>2 DEF Checks, InitialCheck, CaptureCheck, Deferrable
  <2> QED BY <2>3, <2>4
<1> QED BY <1>1, <1>2, <1>3, <1>4, <1>5, <1>6, <1>7, <1>8 DEF Names

(* An action answered with success shows in the answer: nobody undoes it    *)
(* between its effect and its save, and a step it makes ready is not hidden *)
(* by an earlier skip; only request_manual_flag has no effect of its own to *)
(* show (AnsweredIsShown; act, response_for).                               *)
THEOREM WizardShown == Spec => AnsweredIsShown
<1> DEFINE Shown ==
      answered' # answered /\ found = Probes /\ act.request # "request_manual_flag" =>
        \A id \in {StepOf(act.request, act.arg)} :
          Checks(id)' \in IF act.request = "skip" THEN {"ready", "not_tested"} ELSE {"ready"}
<1>1. IInv /\ [Next]_vars => [Shown]_vars
  <2> SUFFICES ASSUME IInv, Next, answered' # answered, found = Probes,
                      act.request # "request_manual_flag",
                      NEW id, id = StepOf(act.request, act.arg)
               PROVE  Checks(id)' \in Shows(act.request)
    BY DEF Shows
  <2>1. /\ act.at = "save" /\ Achieved
        /\ UNCHANGED <<state, files, found, active, flag>>
    BY AnsweredBySave
  <2>2. Checks(id) \in Shows(act.request)
    BY <2>1, AchievedShows
  <2>3. Checks(id)' = Checks(id)
    BY <2>1, SameChecks
  <2> QED BY <2>2, <2>3
<1> QED BY <1>1, WizardInductive, PTL DEF Spec, AnsweredIsShown
=============================================================================
