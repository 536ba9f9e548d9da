---------------------------- MODULE ImportPipeline ----------------------------
(***************************************************************************)
(* ImportService (crates/openfrag-pipeline/src/lib.rs): import_inner and   *)
(* run_leased over the job, match and analysis tables of openfrag-storage. *)
(* Each storage call is one transaction; a worker may lose its lease, a    *)
(* call may fail, and its process may die between any two of them.         *)
(* A worker is an import with a storage handle of its own, as leases and   *)
(* worker names provide for; the daemon runs one import at a time on its   *)
(* handle, so its imports follow each other, whole or interrupted.         *)
(*                                                                         *)
(* Parses says which builds of the parser read a demo; the roster is the   *)
(* participants the demo names.  Rounds, receipts and rating components go *)
(* with the rating they support, and a rating that is unavailable is one.  *)
(***************************************************************************)
EXTENDS Naturals, Sequences

CONSTANTS
  Demos, Workers, JobIds, None,
  Builds,       \* calculation identities (parser_commit ... evidence_semantics_epoch)
  Players, Local,  \* SteamIDs and the configured local one
  Roster,       \* Demo -> sequence of participants
  Parses,       \* Demo -> the builds that parse it
  Candidates,   \* number of candidates the reconciliation hook is given
  LeaseTime, MaxTime,
  MaxFaults     \* bound on failing calls, crashes and upgrades

(* parser_progress_basis_points, the fraction in thousandths                *)
ParserPhases == 1..3  \* first_pass, second_pass, finalize
Fractions == {0, 1000}
ParserProgress(phase, fraction) ==
  CASE phase = 1 -> 3000 + (fraction * 1000) \div 1000
    [] phase = 2 -> 4000 + (fraction * 2500) \div 1000
    [] phase = 3 -> 6500 + (fraction * 500) \div 1000
Levels == {3000, 7000, 10000} \cup {ParserProgress(p, f) : p \in ParserPhases, f \in Fractions}
MaxAttempts == 1  \* nobody leases a job but the import that enqueued it

ASSUME PipelineAssumption ==
  /\ Local \in Players /\ None \notin Builds
  /\ \A d \in Demos : Roster[d] \in Seq(Players) /\ Parses[d] \subseteq Builds
  /\ Candidates \in Nat /\ LeaseTime \in Nat /\ MaxFaults \in Nat

VARIABLES
  now, jobs, attempts,   \* the job table
  artifact,      \* [Demos -> availability]
  matched,       \* demos with a row in matches
  players, participants, \* players, and match_players per match
  runs,          \* [Demos -> [Builds -> status]]: analysis_runs
  rated,         \* player_rating_vectors and unavailable_rating_results of the local player
  canonical,     \* matches.canonical_run_id
  decided,       \* decisions the reconciliation persistence has accepted
  build,         \* the installed build
  workers,       \* where each import is
  faults,
  interrupted,   \* history: demos whose roster was not stored in one go
  misread        \* history: demos taken from under an import by one that could not read them

Jobs == INSTANCE ImportJobs WITH Owners <- Workers

tables == <<now, jobs, attempts>>
matchTables == <<matched, players, participants>>
runTables == <<runs, rated, canonical>>
history == <<interrupted, misread>>
vars == <<tables, artifact, matchTables, runTables, decided, build, workers, faults, history>>

Stages == {"idle", "enqueue", "lease", "start", "parse", "unread", "quarantine", "parsed", "dedupe",
           "match", "player", "participant", "begin", "persist", "complete", "reconcile",
           "full", "finish", "fail"}
Worker == [at : Stages, demo : Demos \cup {None}, job : JobIds \cup {None},
           left : Seq(Players),       \* participants still to store
           next : Nat,                \* the next candidate to decide
           phase : 0..3, reported : Levels \cup {0},  \* last_persisted
           lost : BOOLEAN,            \* progress_error
           dedupe : BOOLEAN]
Idle == [at |-> "idle", demo |-> None, job |-> None, left |-> <<>>, next |-> 1,
         phase |-> 0, reported |-> 0, lost |-> FALSE, dedupe |-> FALSE]

Init ==
  /\ Jobs!Init
  /\ artifact = [d \in Demos |-> "absent"]
  /\ matched = {} /\ players = {}
  /\ participants = [d \in Demos |-> {}]
  /\ runs = [d \in Demos |-> [b \in Builds |-> "none"]]
  /\ rated = [d \in Demos |-> [b \in Builds |-> FALSE]]
  /\ canonical = [d \in Demos |-> None]
  /\ decided = [d \in Demos |-> {}]
  /\ build \in Builds
  /\ workers = [w \in Workers |-> Idle]
  /\ faults = 0
  /\ interrupted = {} /\ misread = {}

Demo(w) == workers[w].demo
JobOf(w) == workers[w].job
At(w, stage) == workers[w].at = stage
Go(w, stage) == workers' = [workers EXCEPT ![w].at = stage]
Held(w) == Jobs!Held(JobOf(w), w)
rest == <<artifact, matchTables, runTables, decided, build, faults, history>>

(* The storage's answers: match_for_demo, completed_analysis_for_identity   *)
(* and the uniqueness of matches.demo_sha256 and of a run's identity        *)
HasMatch(d) == d \in matched
Completed(d) == runs[d][build] = "succeeded"
CanInsertMatch(d) == ~HasMatch(d)
CanBeginAgain(d) == TRUE  \* mutant: the identity is not UNIQUE
CanBegin(d) == runs[d][build] = "none"

(* quarantine_artifact refuses what is not present and what a match names;  *)
(* rating rows reference the player; complete_analysis and its trigger want *)
(* a rating row                                                             *)
CanQuarantineAny(d) == artifact[d] = "present"  \* mutant: the match is not asked for
CanQuarantine(d) == artifact[d] = "present" /\ ~HasMatch(d)
CanRate(p) == p \in players
CanComplete(d) == rated[d][build]

Names(d) == {Roster[d][i] : i \in DOMAIN Roster[d]}
-----------------------------------------------------------------------------
(* import_inner: the demo is staged and committed.  ON CONFLICT makes a     *)
(* quarantined artifact present again.                                      *)
Import(w, d) ==
  /\ At(w, "idle")
  /\ artifact' = [artifact EXCEPT ![d] = "present"]
  /\ misread' = misread \ {d}
  /\ workers' = [workers EXCEPT ![w].at = "enqueue", ![w].demo = d]
  /\ UNCHANGED <<tables, matchTables, runTables, decided, build, faults, interrupted>>

Enqueue(w) ==
  /\ At(w, "enqueue")
  /\ \E j \in JobIds :
       /\ Jobs!Enqueue(j, Demo(w))
       /\ workers' = [workers EXCEPT ![w].at = "lease", ![w].job = j]
  /\ UNCHANGED rest

Lease(w) ==
  /\ At(w, "lease")
  /\ Jobs!Lease(JobOf(w), w, now + LeaseTime)
  /\ Go(w, "start")
  /\ UNCHANGED rest

(* The first progress report.  Its failure returns from import_inner, past  *)
(* the code that fails the job.                                             *)
Start(w) ==
  /\ At(w, "start")
  /\ \/ Jobs!Report(JobOf(w), w, 3000) /\ Go(w, "parse")
     \/ ~Held(w) /\ workers' = [workers EXCEPT ![w] = Idle] /\ UNCHANGED tables
  /\ UNCHANGED rest

(* The parser's callback: a phase after the other, bytes growing.  Reports  *)
(* are thinned out and stop at the first that fails.                        *)
Progress(w) ==
  /\ At(w, "parse") /\ ~workers[w].lost
  /\ \E phase \in ParserPhases, fraction \in Fractions :
       LET bp == ParserProgress(phase, fraction)
           known == workers[w].phase # 0
       IN /\ phase >= workers[w].phase /\ bp >= workers[w].reported
          /\ \/ ~known \/ phase # workers[w].phase
             \/ bp >= workers[w].reported + 10 \/ phase = 3
          /\ <<phase, bp>> # <<workers[w].phase, workers[w].reported>>
          /\ workers' = [workers EXCEPT ![w].phase = phase, ![w].reported = bp,
                                        ![w].lost = ~Held(w)]
          /\ \/ Jobs!Report(JobOf(w), w, bp)
             \/ ~Held(w) /\ UNCHANGED tables
  /\ UNCHANGED rest

(* The parser returns.  A lost lease is noticed before the result is.       *)
ParseOutcome(w) ==
  IF workers[w].lost THEN "fail"
  ELSE IF build \notin Parses[Demo(w)] \/ Roster[Demo(w)] = <<>> THEN "quarantine"
  ELSE "parsed"
Parse(w) ==
  /\ At(w, "parse")
  /\ workers' = [workers EXCEPT ![w].at = ParseOutcome(w),
                   ![w].phase = 0, ![w].reported = 0, ![w].lost = FALSE]
  /\ UNCHANGED <<tables, rest>>

(* The parser cannot read the file: by a fault, or as it is not there any   *)
(* more.  That is an error of the parser like any other.                    *)
ReadFails(w) ==
  LET gone == artifact[Demo(w)] # "present"
  IN /\ At(w, "parse") /\ workers[w].phase = 0
     /\ gone \/ faults < MaxFaults
     /\ faults' = IF gone THEN faults ELSE faults + 1
     /\ Go(w, "unread")
     /\ UNCHANGED <<tables, artifact, matchTables, runTables, decided, build, history>>

(* The other imports of the demo that go on, having parsed it or taking its *)
(* path from the row: nobody looks at the availability again.               *)
Underway == Stages \ {"idle", "unread", "quarantine", "fail"}
Overtaken(w) == \E v \in Workers \ {w} : Demo(v) = Demo(w) /\ workers[v].at \in Underway

(* The import fails whether the file can be quarantined or not.             *)
Quarantine(w) ==
  /\ At(w, "quarantine") \/ At(w, "unread")
  /\ artifact' = IF CanQuarantine(Demo(w))
                 THEN [artifact EXCEPT ![Demo(w)] = "quarantined"] ELSE artifact
  /\ misread' = IF At(w, "unread") /\ CanQuarantine(Demo(w)) /\ Overtaken(w)
                THEN misread \cup {Demo(w)} ELSE misread
  /\ Go(w, "fail")
  /\ UNCHANGED <<tables, matchTables, runTables, decided, build, faults, interrupted>>

Parsed(w) ==
  /\ At(w, "parsed")
  /\ \/ Jobs!Report(JobOf(w), w, 7000) /\ Go(w, "dedupe")
     \/ ~Held(w) /\ Go(w, "fail") /\ UNCHANGED tables
  /\ UNCHANGED rest

(* mutant: any match will do, whatever run it has *)
DedupeByMatch(w) ==
  /\ At(w, "dedupe")
  /\ workers' = [workers EXCEPT
       ![w].dedupe = HasMatch(Demo(w)), ![w].left = Roster[Demo(w)],
       ![w].at = IF HasMatch(Demo(w)) THEN "reconcile" ELSE "match"]
  /\ UNCHANGED <<tables, rest>>

(* The same calculation of a known match ends the import; another one only  *)
(* skips the match and its participants.                                    *)
Dedupe(w) ==
  LET d == Demo(w)
      done == HasMatch(d) /\ Completed(d)
  IN /\ At(w, "dedupe")
     /\ workers' = [workers EXCEPT
          ![w].dedupe = done, ![w].left = IF HasMatch(d) THEN <<>> ELSE Roster[d],
          ![w].at = IF done THEN "reconcile" ELSE IF HasMatch(d) THEN "begin" ELSE "match"]
     /\ UNCHANGED <<tables, rest>>

Match(w) ==
  /\ At(w, "match")
  /\ matched' = matched \cup {Demo(w)}
  /\ Go(w, IF CanInsertMatch(Demo(w)) THEN "player" ELSE "fail")
  /\ UNCHANGED <<tables, artifact, players, participants, runTables, decided, build,
                 faults, history>>

(* upsert_player and add_match_participant, for one participant after the   *)
(* other                                                                    *)
UpsertPlayer(w) ==
  /\ At(w, "player")
  /\ players' = players \cup {Head(workers[w].left)}
  /\ Go(w, "participant")
  /\ UNCHANGED <<tables, artifact, matched, participants, runTables, decided, build,
                 faults, history>>

(* mutant: stops one early *)
AddParticipantButLast(w) ==
  /\ At(w, "participant")
  /\ participants' = [participants EXCEPT ![Demo(w)] = @ \cup {Head(workers[w].left)}]
  /\ workers' = [workers EXCEPT ![w].left = <<>>, ![w].at = "begin"]
  /\ UNCHANGED <<tables, artifact, matched, players, runTables, decided, build, faults, history>>

AddParticipant(w) ==
  /\ At(w, "participant")
  /\ participants' = [participants EXCEPT ![Demo(w)] = @ \cup {Head(workers[w].left)}]
  /\ workers' = [workers EXCEPT ![w].left = Tail(@),
                   ![w].at = IF Len(workers[w].left) = 1 THEN "begin" ELSE "player"]
  /\ UNCHANGED <<tables, artifact, matched, players, runTables, decided, build, faults, history>>

(* begin_analysis always inserts, and the identity is UNIQUE: a run that    *)
(* was left behind refuses every later one.                                 *)
Begin(w) ==
  LET d == Demo(w)
      free == CanBegin(d)
  IN /\ At(w, "begin")
     /\ runs' = IF free THEN [runs EXCEPT ![d][build] = "running"] ELSE runs
     /\ Go(w, IF free THEN "persist" ELSE "fail")
     /\ UNCHANGED <<tables, artifact, matchTables, rated, canonical, decided, build, faults,
                    history>>

(* The rows of the analysis: of one that rates the local player, who then   *)
(* is in the roster, or of one that does not, for whatever reason.  The     *)
(* unavailable rating, too, references the player.                          *)
Store(w) ==
  /\ rated' = IF CanRate(Local) THEN [rated EXCEPT ![Demo(w)][build] = TRUE] ELSE rated
  /\ Go(w, IF CanRate(Local) THEN "complete" ELSE "fail")
  /\ UNCHANGED <<tables, artifact, matchTables, runs, canonical, decided, build, faults,
                 history>>
PersistAvailable(w) == At(w, "persist") /\ Local \in Names(Demo(w)) /\ Store(w)
PersistUnavailable(w) == At(w, "persist") /\ Store(w)

(* The run succeeds and becomes the canonical one of its match.             *)
Complete(w) ==
  LET d == Demo(w)
      valid == CanComplete(d)
  IN /\ At(w, "complete")
     /\ runs' = IF valid THEN [runs EXCEPT ![d][build] = "succeeded"] ELSE runs
     /\ canonical' = IF valid THEN [canonical EXCEPT ![d] = build] ELSE canonical
     /\ Go(w, IF valid THEN "reconcile" ELSE "fail")
     /\ UNCHANGED <<tables, artifact, matchTables, rated, decided, build, faults, history>>

(* reconcile_demo_candidates persists in the order of the identifiers       *)
Reconcile(w) ==
  /\ At(w, "reconcile")
  /\ IF workers[w].next <= Candidates
     THEN /\ decided' = [decided EXCEPT ![Demo(w)] = @ \cup {workers[w].next}]
          /\ workers' = [workers EXCEPT ![w].next = @ + 1]
     ELSE /\ Go(w, IF workers[w].dedupe THEN "finish" ELSE "full")
          /\ UNCHANGED decided
  /\ UNCHANGED <<tables, artifact, matchTables, runTables, build, faults, history>>

Full(w) ==
  /\ At(w, "full")
  /\ \/ Jobs!Report(JobOf(w), w, 10000) /\ Go(w, "finish")
     \/ ~Held(w) /\ Go(w, "fail") /\ UNCHANGED tables
  /\ UNCHANGED rest

Finish(w) ==
  /\ At(w, "finish")
  /\ \/ Jobs!Finish(JobOf(w), w, "succeeded") /\ workers' = [workers EXCEPT ![w] = Idle]
     \/ ~Held(w) /\ Go(w, "fail") /\ UNCHANGED tables
  /\ UNCHANGED rest

(* mutant: fails the job whoever holds it *)
FailUnheld(w) ==
  /\ At(w, "fail")
  /\ jobs' = [jobs EXCEPT ![JobOf(w)].phase = "failed"]
  /\ workers' = [workers EXCEPT ![w] = Idle]
  /\ UNCHANGED <<now, attempts, rest>>

(* The error branch of import_inner; its own failure is ignored.            *)
Fail(w) ==
  /\ At(w, "fail")
  /\ \/ Jobs!Finish(JobOf(w), w, "failed")
     \/ ~Held(w) /\ UNCHANGED tables
  /\ workers' = [workers EXCEPT ![w] = Idle]
  /\ UNCHANGED rest
-----------------------------------------------------------------------------
Storing == {"player", "participant"}
Interruption(w) ==
  /\ faults < MaxFaults
  /\ faults' = faults + 1
  /\ interrupted' = IF workers[w].at \in Storing
                    THEN interrupted \cup {Demo(w)} ELSE interrupted
  /\ UNCHANGED misread

(* A storage call, or the reconciliation's, returns an error: before        *)
(* run_leased import_inner just returns, in it the job is failed.           *)
CallFails(w) ==
  /\ Interruption(w)
  /\ \/ workers[w].at \in {"enqueue", "lease", "start"} /\ workers' = [workers EXCEPT ![w] = Idle]
     \/ workers[w].at \notin {"idle", "enqueue", "lease", "start", "fail"} /\ Go(w, "fail")
  /\ UNCHANGED <<tables, artifact, matchTables, runTables, decided, build>>

(* The process dies; another has the same name.                             *)
Crash(w) ==
  /\ ~At(w, "idle")
  /\ Interruption(w)
  /\ workers' = [workers EXCEPT ![w] = Idle]
  /\ UNCHANGED <<tables, artifact, matchTables, runTables, decided, build>>

(* Another version of the parser is installed while nothing is imported.    *)
Upgrade ==
  /\ faults < MaxFaults
  /\ \A w \in Workers : At(w, "idle")
  /\ build' \in Builds \ {build}
  /\ faults' = faults + 1
  /\ UNCHANGED <<tables, artifact, matchTables, runTables, decided, workers, history>>

(* ImportService::cancel, retry and recover_expired, called by anybody      *)
Cancel(j) == (\E w \in Workers : Jobs!Finish(j, w, "cancelled")) /\ UNCHANGED <<rest, workers>>
Retry(j) == Jobs!Retry(j) /\ UNCHANGED <<rest, workers>>
RecoverExpired == Jobs!RecoverExpired /\ UNCHANGED <<rest, workers>>
Tick == Jobs!Tick /\ UNCHANGED <<rest, workers>>

Step(w) ==
  \/ \E d \in Demos : Import(w, d)
  \/ Enqueue(w) \/ Lease(w) \/ Start(w) \/ Progress(w) \/ Parse(w) \/ ReadFails(w) \/ Quarantine(w)
  \/ Parsed(w) \/ Dedupe(w) \/ Match(w) \/ UpsertPlayer(w) \/ AddParticipant(w)
  \/ Begin(w) \/ PersistAvailable(w) \/ PersistUnavailable(w) \/ Complete(w)
  \/ Reconcile(w) \/ Full(w) \/ Finish(w) \/ Fail(w)
  \/ CallFails(w) \/ Crash(w)

Next ==
  \/ \E w \in Workers : Step(w)
  \/ \E j \in JobIds : Cancel(j) \/ Retry(j)
  \/ RecoverExpired \/ Upgrade \/ Tick

Spec == Init /\ [][Next]_vars
-----------------------------------------------------------------------------
(* rating_availability, as the views of matches show it                     *)
Availability(d) == IF canonical[d] # None /\ rated[d][canonical[d]] THEN "known" ELSE "pending"

(* What the dashboard shows is complete: a canonical run has succeeded, has *)
(* its rating, and belongs to a match whose demo file is still there -      *)
(* unless an import that could not read the file quarantined it before      *)
(* another one, which could, had stored the match.                          *)
CanonicalIsAnalysed ==
  \A d \in Demos : canonical[d] # None =>
    /\ runs[d][canonical[d]] = "succeeded" /\ Availability(d) = "known"
    /\ d \in matched
    /\ artifact[d] = "present" \/ d \in misread

(* An import that says it succeeded left an analysis behind, and the        *)
(* reconciliation of the demo has decided every candidate.                  *)
SucceededImportIsComplete ==
  \A j \in JobIds : jobs[j].phase = "succeeded" =>
    canonical[jobs[j].demo] # None /\ decided[jobs[j].demo] = 1..Candidates

(* A canonical match names everybody the demo does, unless an import died   *)
(* or failed in the middle of storing the participants: the next one takes  *)
(* the match as it is, as does one that runs while they are being stored.   *)
RosterIsComplete ==
  \A d \in Demos :
    /\ canonical[d] # None /\ d \notin interrupted
    /\ \A w \in Workers : Demo(w) = d => workers[w].left = <<>>
    => participants[d] = Names(d)

(* Two imports of the same demo at the same time, each with its own job, do *)
(* not analyse it twice: an analysis that has succeeded is never begun or   *)
(* rated again.                                                             *)
AnalysedOnce ==
  [][\A d \in Demos, b \in Builds : runs[d][b] = "succeeded" =>
       runs'[d][b] = "succeeded" /\ rated'[d][b] = rated[d][b]]_vars

(* The pipeline keeps to the contract of the job table.                     *)
ImplementsJobs == Jobs!Spec

=============================================================================
