------------------------- MODULE ImportPipelineProofs -------------------------
(***************************************************************************)
(* Proofs about the import pipeline: for any demos, builds, rosters,       *)
(* numbers of workers, candidates, failing calls and crashes, and any      *)
(* interleaving of the imports.                                            *)
(*                                                                         *)
(* The invariant comes in layers, each inductive under the ones before it: *)
(* the types; JobsInv (the job table, by refinement); FileInv (the demo    *)
(* file and its match); AnalysisInv (runs, ratings, the canonical run);    *)
(* DecisionInv (jobs and reconciliation); RosterInv (participants).  Each  *)
(* layer has a condition per worker, and a relation between two states     *)
(* (FilesStay, AnalysesStay, DecisionsStay) under which a step of one      *)
(* worker leaves the condition of the others true.                         *)
(***************************************************************************)
EXTENDS ImportPipeline, SequenceTheorems, TLAPS

-----------------------------------------------------------------------------
(* The elements of a sequence; AddParticipant takes them from the head.     *)
In(s) == {s[i] : i \in DOMAIN s}

LEMMA HeadThenTail ==
  ASSUME NEW s \in Seq(Players), s # <<>>
  PROVE  /\ Head(s) \in Players /\ Tail(s) \in Seq(Players)
         /\ Len(s) = 1 <=> Tail(s) = <<>>
         /\ In(s) = {Head(s)} \cup In(Tail(s))
<1>1. Len(s) \in Nat \ {0}
  BY EmptySeq
<1>2. /\ Head(s) \in Players /\ Tail(s) \in Seq(Players) /\ Len(Tail(s)) = Len(s) - 1
      /\ \A i \in 1..Len(Tail(s)) : Tail(s)[i] = s[i + 1]
  BY HeadTailProperties
<1>3. Tail(s) = <<>> <=> Len(Tail(s)) = 0
  BY <1>2, EmptySeq
<1>4. Head(s) = s[1] /\ DOMAIN s = 1..Len(s) /\ DOMAIN Tail(s) = 1..Len(Tail(s))
  BY <1>2
<1>5. In(s) \subseteq {Head(s)} \cup In(Tail(s))
  <2> SUFFICES ASSUME NEW i \in 1..Len(s) PROVE s[i] \in {Head(s)} \cup In(Tail(s))
    BY <1>4 DEF In
  <2>1. CASE i = 1
    BY <2>1, <1>4
  <2>2. CASE i # 1
    <3>1. i - 1 \in 1..Len(Tail(s)) /\ s[i] = Tail(s)[i - 1]
      BY <1>1, <1>2, <2>2
    <3> QED BY <3>1, <1>4 DEF In
  <2> QED BY <2>1, <2>2
<1>6. {Head(s)} \cup In(Tail(s)) \subseteq In(s)
  <2>1. s[1] \in In(s)
    BY <1>1, <1>4 DEF In
  <2>2. ASSUME NEW i \in 1..Len(Tail(s)) PROVE Tail(s)[i] \in In(s)
    <3>1. i + 1 \in 1..Len(s)
      BY <1>1, <1>2
    <3> QED BY <3>1, <1>2, <1>4 DEF In
  <2> QED BY <2>1, <2>2, <1>4 DEF In
<1> QED BY <1>1, <1>2, <1>3, <1>5, <1>6

-----------------------------------------------------------------------------
(* What the steps do to the record of their worker.  Others(w): no other    *)
(* worker moves.  Kept(w): w keeps its demo, its job and what is left to do. *)
Others(w) ==
  /\ workers' \in [Workers -> Worker]
  /\ \A v \in Workers \ {w} : workers'[v] = workers[v]

Kept(w) ==
  /\ workers'[w].demo = workers[w].demo /\ workers'[w].job = workers[w].job
  /\ workers'[w].left = workers[w].left /\ workers'[w].next = workers[w].next

LEMMA Takes ==
  ASSUME workers \in [Workers -> Worker], NEW w \in Workers, NEW r \in Worker,
         workers' = [workers EXCEPT ![w] = r]
  PROVE  Others(w) /\ workers'[w] = r
BY DEF Others

LEMMA IdleType == Idle \in Worker
BY DEF Idle, Worker, Stages

LEMMA Fields ==
  ASSUME NEW r \in Worker
  PROVE  r.at \in Stages /\ r.left \in Seq(Players) /\ r.next \in Nat
BY DEF Worker

(* One lemma per shape of assignment to workers                             *)
LEMMA GoEffect ==
  ASSUME workers \in [Workers -> Worker], NEW w \in Workers, NEW stage \in Stages, Go(w, stage)
  PROVE  Others(w) /\ Kept(w) /\ workers'[w].at = stage
<1> DEFINE r == [workers[w] EXCEPT !.at = stage]
<1>1. workers[w] \in Worker
  OBVIOUS
<1>2. /\ r \in Worker /\ r.at = stage /\ r.demo = workers[w].demo
      /\ r.job = workers[w].job /\ r.left = workers[w].left /\ r.next = workers[w].next
  BY <1>1 DEF Worker
<1>3. workers' = [workers EXCEPT ![w] = r]
  BY DEF Go
<1> HIDE DEF r
<1> QED BY <1>2, <1>3, Takes DEF Kept

LEMMA ImportEffect ==
  ASSUME workers \in [Workers -> Worker], NEW w \in Workers, NEW d \in Demos, Import(w, d)
  PROVE  /\ Others(w) /\ workers'[w].at = "enqueue" /\ workers'[w].demo = d
         /\ workers'[w].next = workers[w].next
<1> DEFINE r == [workers[w] EXCEPT !.at = "enqueue", !.demo = d]
<1>1. workers[w] \in Worker /\ "enqueue" \in Stages
  BY DEF Stages
<1>2. /\ r \in Worker /\ r.at = "enqueue" /\ r.demo = d /\ r.next = workers[w].next
  BY <1>1 DEF Worker
<1>3. workers' = [workers EXCEPT ![w] = r]
  BY DEF Import
<1> HIDE DEF r
<1> QED BY <1>2, <1>3, Takes

LEMMA EnqueueEffect ==
  ASSUME workers \in [Workers -> Worker], NEW w \in Workers, NEW j \in JobIds,
         workers' = [workers EXCEPT ![w].at = "lease", ![w].job = j]
  PROVE  /\ Others(w) /\ workers'[w].at = "lease" /\ workers'[w].job = j
         /\ workers'[w].demo = workers[w].demo /\ workers'[w].next = workers[w].next
<1> DEFINE r == [workers[w] EXCEPT !.at = "lease", !.job = j]
<1>1. workers[w] \in Worker /\ "lease" \in Stages
  BY DEF Stages
<1>2. /\ r \in Worker /\ r.at = "lease" /\ r.job = j /\ r.demo = workers[w].demo
      /\ r.next = workers[w].next
  BY <1>1 DEF Worker
<1>3. workers' = [workers EXCEPT ![w] = r]
  OBVIOUS
<1> HIDE DEF r
<1> QED BY <1>2, <1>3, Takes

(* Every progress that is reported is one of Levels.                        *)
LEMMA LevelTypes ==
  /\ {3000, 7000, 10000} \subseteq Levels
  /\ \A p \in ParserPhases, f \in Fractions : ParserProgress(p, f) \in Levels
BY DEF Levels

LEMMA ProgressEffect ==
  ASSUME workers \in [Workers -> Worker], NEW w \in Workers, Progress(w)
  PROVE  Others(w) /\ Kept(w) /\ workers'[w].at = workers[w].at
<1>1. PICK phase \in ParserPhases, fraction \in Fractions :
        workers' = [workers EXCEPT ![w].phase = phase,
          ![w].reported = ParserProgress(phase, fraction), ![w].lost = ~Held(w)]
  BY DEF Progress
<1> DEFINE bp == ParserProgress(phase, fraction)
           lost == ~Held(w)
           r == [workers[w] EXCEPT !.phase = phase, !.reported = bp, !.lost = lost]
<1>2. bp \in Levels /\ lost \in BOOLEAN /\ phase \in 0..3 /\ workers[w] \in Worker
  BY LevelTypes DEF Held, Jobs!Held, ParserPhases
<1>3. workers' = [workers EXCEPT ![w] = r]
  BY <1>1
<1> HIDE DEF bp, lost
<1>4. /\ r \in Worker /\ r.at = workers[w].at /\ r.demo = workers[w].demo
      /\ r.job = workers[w].job /\ r.left = workers[w].left /\ r.next = workers[w].next
  BY <1>2 DEF Worker
<1> HIDE DEF r
<1> QED BY <1>3, <1>4, Takes DEF Kept

LEMMA ParseEffect ==
  ASSUME workers \in [Workers -> Worker], NEW w \in Workers, Parse(w)
  PROVE  Others(w) /\ Kept(w) /\ workers'[w].at = ParseOutcome(w)
<1> DEFINE at == ParseOutcome(w)
           r == [workers[w] EXCEPT !.at = at, !.phase = 0, !.reported = 0, !.lost = FALSE]
<1>1. at \in Stages /\ workers[w] \in Worker
  BY DEF ParseOutcome, Stages
<1>2. workers' = [workers EXCEPT ![w] = r]
  BY DEF Parse
<1> HIDE DEF at
<1>4. 0 \in 0..3 /\ 0 \in Levels \cup {0} /\ FALSE \in BOOLEAN
  OBVIOUS
<1>3. /\ r \in Worker /\ r.at = at /\ r.demo = workers[w].demo
      /\ r.job = workers[w].job /\ r.left = workers[w].left /\ r.next = workers[w].next
  BY <1>1, <1>4 DEF Worker
<1> HIDE DEF r
<1> QED BY <1>2, <1>3, Takes DEF Kept, at

LEMMA DedupeEffect ==
  ASSUME workers \in [Workers -> Worker], NEW w \in Workers, Dedupe(w), Demo(w) \in Demos
  PROVE  /\ Others(w) /\ workers'[w].demo = workers[w].demo
         /\ workers'[w].job = workers[w].job /\ workers'[w].next = workers[w].next
         /\ workers'[w].left = IF HasMatch(Demo(w)) THEN <<>> ELSE Roster[Demo(w)]
         /\ workers'[w].at = IF HasMatch(Demo(w)) /\ Completed(Demo(w)) THEN "reconcile"
                             ELSE IF HasMatch(Demo(w)) THEN "begin" ELSE "match"
<1> DEFINE d == Demo(w)
           done == HasMatch(d) /\ Completed(d)
           left == IF HasMatch(d) THEN <<>> ELSE Roster[d]
           at == IF done THEN "reconcile" ELSE IF HasMatch(d) THEN "begin" ELSE "match"
           r == [workers[w] EXCEPT !.dedupe = done, !.left = left, !.at = at]
<1>1. workers' = [workers EXCEPT ![w] = r]
  BY DEF Dedupe
<1>2. done \in BOOLEAN /\ left \in Seq(Players) /\ at \in Stages /\ workers[w] \in Worker
  BY PipelineAssumption DEF HasMatch, Completed, Stages
<1> HIDE DEF done, left, at
<1>3. /\ r \in Worker /\ r.at = at /\ r.left = left /\ r.demo = workers[w].demo
      /\ r.job = workers[w].job /\ r.next = workers[w].next
  BY <1>2 DEF Worker
<1> HIDE DEF r
<1> QED BY <1>1, <1>3, Takes DEF done, left, at

LEMMA AddParticipantEffect ==
  ASSUME workers \in [Workers -> Worker], NEW w \in Workers, AddParticipant(w),
         workers[w].left # <<>>
  PROVE  /\ Others(w) /\ workers'[w].demo = workers[w].demo
         /\ workers'[w].job = workers[w].job /\ workers'[w].next = workers[w].next
         /\ workers'[w].left = Tail(workers[w].left)
         /\ workers'[w].at = IF Len(workers[w].left) = 1 THEN "begin" ELSE "player"
<1> DEFINE left == Tail(workers[w].left)
           at == IF Len(workers[w].left) = 1 THEN "begin" ELSE "player"
           r == [workers[w] EXCEPT !.left = left, !.at = at]
<1>1. workers' = [workers EXCEPT ![w] = r]
  BY DEF AddParticipant
<1>2. at \in Stages /\ workers[w] \in Worker
  BY DEF Stages
<1>3. workers[w].left \in Seq(Players)
  BY <1>2 DEF Worker
<1>4. left \in Seq(Players)
  BY <1>3
<1> HIDE DEF left, at
<1>5. /\ r \in Worker /\ r.at = at /\ r.left = left /\ r.demo = workers[w].demo
      /\ r.job = workers[w].job /\ r.next = workers[w].next
  BY <1>2, <1>4 DEF Worker
<1> HIDE DEF r
<1> QED BY <1>1, <1>5, Takes DEF left, at

LEMMA NextCandidateEffect ==
  ASSUME workers \in [Workers -> Worker], NEW w \in Workers,
         workers' = [workers EXCEPT ![w].next = @ + 1]
  PROVE  /\ Others(w) /\ workers'[w].demo = workers[w].demo
         /\ workers'[w].job = workers[w].job /\ workers'[w].left = workers[w].left
         /\ workers'[w].at = workers[w].at /\ workers'[w].next = workers[w].next + 1
<1> DEFINE next == workers[w].next + 1
           r == [workers[w] EXCEPT !.next = next]
<1>1. workers' = [workers EXCEPT ![w] = r]
  OBVIOUS
<1>2. workers[w] \in Worker
  OBVIOUS
<1>3. workers[w].next \in Nat
  BY <1>2 DEF Worker
<1>4. next \in Nat
  BY <1>3
<1> HIDE DEF next
<1>5. /\ r \in Worker /\ r.at = workers[w].at /\ r.left = workers[w].left
      /\ r.demo = workers[w].demo /\ r.job = workers[w].job /\ r.next = next
  BY <1>2, <1>4 DEF Worker
<1> HIDE DEF r
<1> QED BY <1>1, <1>5, Takes DEF next
-----------------------------------------------------------------------------
(* What every later argument needs of the types.  An import that is under   *)
(* way has a demo, and from the lease on it has a job; what it has still to *)
(* store is not empty while it stores.                                      *)
TablesTyped ==
  /\ build \in Builds
  /\ artifact \in [Demos -> {"absent", "present", "quarantined"}]
  /\ matched \subseteq Demos
  /\ participants \in [Demos -> SUBSET Players]
  /\ runs \in [Demos -> [Builds -> {"none", "running", "succeeded"}]]
  /\ rated \in [Demos -> [Builds -> BOOLEAN]]
  /\ canonical \in [Demos -> Builds \cup {None}]
  /\ decided \in [Demos -> SUBSET Nat]

WorkerTyped(w) ==
  /\ workers[w].at # "idle" => workers[w].demo \in Demos
  /\ workers[w].at \notin {"idle", "enqueue"} => workers[w].job \in JobIds
  /\ workers[w].at \in Storing => workers[w].left # <<>>
  /\ workers[w].at = "match" => workers[w].left = Roster[workers[w].demo]
  /\ workers[w].at \in {"parsed", "dedupe", "match"} => Roster[workers[w].demo] # <<>>

Typed ==
  /\ TablesTyped
  /\ workers \in [Workers -> Worker]
  /\ \A w \in Workers : WorkerTyped(w)

LEMMA InitTyped == Init => Typed
<1> SUFFICES ASSUME Init PROVE Typed
  OBVIOUS
<1>1. workers \in [Workers -> Worker] /\ \A w \in Workers : workers[w].at = "idle"
  BY IdleType DEF Init, Idle
<1>2. TablesTyped
  BY DEF Init, TablesTyped
<1> HIDE DEF Init
<1> QED BY <1>1, <1>2 DEF Typed, WorkerTyped, Storing

(* A step moves one worker, and leaves it typed.                            *)
LEMMA StepMoves ==
  ASSUME Typed, NEW w \in Workers, Step(w)
  PROVE  Others(w) /\ WorkerTyped(w)'
<1> USE DEF Typed, At, Demo, JobOf, Storing, WorkerTyped, Kept
<1>0. workers \in [Workers -> Worker] /\ workers[w].left \in Seq(Players)
  BY Fields
<1>1. ASSUME NEW d \in Demos, Import(w, d) PROVE Others(w) /\ WorkerTyped(w)'
  BY <1>1, ImportEffect
<1>2. CASE Enqueue(w)
  BY <1>2, EnqueueEffect DEF Enqueue
<1>3. ASSUME NEW stage \in Stages \ {"player", "participant", "match", "dedupe", "parsed", "idle"},
             ~ At(w, "idle"), ~At(w, "enqueue"), Go(w, stage)
      PROVE Others(w) /\ WorkerTyped(w)'
  BY <1>3, GoEffect
<1>4. CASE workers' = [workers EXCEPT ![w] = Idle]
  BY <1>4, IdleType, Takes DEF Idle
<1>5. CASE Lease(w)
  BY <1>5, <1>3 DEF Lease, Stages
<1>6. CASE Start(w)
  BY <1>6, <1>3, <1>4 DEF Start, Stages
<1>7. CASE Progress(w)
  BY <1>7, ProgressEffect DEF Progress
<1>8. CASE Parse(w)
  <2>1. ParseOutcome(w) = "parsed" => Roster[workers[w].demo] # <<>>
    BY DEF ParseOutcome
  <2>2. ParseOutcome(w) \in {"fail", "quarantine", "parsed"}
    BY DEF ParseOutcome
  <2> QED BY <1>8, <2>1, <2>2, ParseEffect DEF Parse
<1>9. CASE Quarantine(w) \/ ReadFails(w)
  BY <1>9, <1>3 DEF Quarantine, ReadFails, Stages
<1>10. CASE Parsed(w)
  BY <1>10, <1>3, GoEffect DEF Parsed, Stages
<1>11. CASE Dedupe(w)
  <2>1. workers[w].demo \in Demos /\ workers[w].job \in JobIds /\ Roster[workers[w].demo] # <<>>
    BY <1>11 DEF Dedupe
  <2>2. /\ Others(w) /\ workers'[w].demo = workers[w].demo /\ workers'[w].job = workers[w].job
        /\ workers'[w].left = IF HasMatch(Demo(w)) THEN <<>> ELSE Roster[Demo(w)]
        /\ workers'[w].at = IF HasMatch(Demo(w)) /\ Completed(Demo(w)) THEN "reconcile"
                            ELSE IF HasMatch(Demo(w)) THEN "begin" ELSE "match"
    BY <1>0, <1>11, <2>1, DedupeEffect
  <2>3. CASE HasMatch(Demo(w))
    BY <2>1, <2>2, <2>3
  <2>4. CASE ~HasMatch(Demo(w))
    BY <2>1, <2>2, <2>4
  <2> QED BY <2>3, <2>4
<1>12. CASE Match(w)
  <2>1. CanInsertMatch(Demo(w)) \in BOOLEAN
    BY DEF CanInsertMatch
  <2>2. Go(w, "player") \/ Go(w, "fail")
    BY <1>12 DEF Match
  <2>3. workers[w].left # <<>>
    BY <1>12 DEF Match
  <2> QED BY <1>12, <2>2, <2>3, GoEffect DEF Match, Stages
<1>13. CASE UpsertPlayer(w)
  BY <1>13, GoEffect DEF UpsertPlayer, Stages
<1>14. CASE AddParticipant(w)
  <2>1. workers[w].left # <<>>
    BY <1>14 DEF AddParticipant
  <2>2. Tail(workers[w].left) # <<>> \/ Len(workers[w].left) = 1
    BY <1>0, <2>1, HeadThenTail
  <2>3. workers[w].demo \in Demos /\ workers[w].job \in JobIds
    BY <1>14 DEF AddParticipant
  <2>4. Others(w) /\ workers'[w].demo = workers[w].demo /\ workers'[w].job = workers[w].job
        /\ workers'[w].left = Tail(workers[w].left)
        /\ workers'[w].at = IF Len(workers[w].left) = 1 THEN "begin" ELSE "player"
    BY <1>0, <1>14, <2>1, AddParticipantEffect
  <2> QED  BY <1>0, <2>1, <2>2, <2>3, <2>4
<1>15. CASE Begin(w)
  BY <1>15, <1>3 DEF Begin, Stages
<1>16. CASE At(w, "persist") /\ Store(w)
  BY <1>16, <1>3 DEF Store, Stages
<1>17. CASE Complete(w)
  BY <1>17, <1>3 DEF Complete, Stages
<1>18. CASE Reconcile(w)
  BY <1>18, <1>3, NextCandidateEffect DEF Reconcile, Stages
<1>19. CASE Full(w)
  BY <1>19, <1>3 DEF Full, Stages
<1>20. CASE Finish(w)
  BY <1>20, <1>3, <1>4 DEF Finish, Stages
<1>21. CASE Fail(w)
  BY <1>21, <1>4 DEF Fail
<1>22. CASE CallFails(w)
  BY <1>22, <1>3, <1>4 DEF CallFails, Stages
<1>23. CASE Crash(w)
  BY <1>23, <1>4 DEF Crash
<1> QED BY <1>1, <1>2, <1>5, <1>6, <1>7, <1>8, <1>9, <1>10, <1>11, <1>12, <1>13, <1>14,
           <1>15, <1>16, <1>17, <1>18, <1>19, <1>20, <1>21, <1>22, <1>23
        DEF Step, PersistAvailable, PersistUnavailable

(* A step of a worker leaves the tables typed.                              *)
LEMMA StepTables ==
  ASSUME Typed, NEW w \in Workers, Step(w)
  PROVE  TablesTyped'
<1> USE DEF Typed, TablesTyped, At, Demo, matchTables, runTables, rest
<1>0. /\ workers[w].at # "idle" => Demo(w) \in Demos
      /\ workers[w].at \in Storing => workers[w].left # <<>>
  BY DEF WorkerTyped
<1>1. ASSUME NEW d \in Demos, Import(w, d) PROVE TablesTyped'
  BY <1>1 DEF Import
<1>2. CASE Enqueue(w) \/ Lease(w) \/ Start(w) \/ Progress(w) \/ Parse(w) \/ Parsed(w)
           \/ ReadFails(w) \/ Dedupe(w) \/ Full(w) \/ Finish(w) \/ Fail(w) \/ CallFails(w)
           \/ Crash(w)
  <2>1. CASE UNCHANGED rest
    BY <2>1
  <2>2. CASE Enqueue(w) \/ Lease(w) \/ Start(w) \/ Progress(w) \/ Parse(w) \/ Parsed(w)
    BY <2>1, <2>2 DEF Enqueue, Lease, Start, Progress, Parse, Parsed
  <2>3. CASE Dedupe(w) \/ Full(w) \/ Finish(w) \/ Fail(w)
    BY <2>1, <2>3 DEF Dedupe, Full, Finish, Fail
  <2>4. CASE ReadFails(w) \/ CallFails(w) \/ Crash(w)
    BY <2>4 DEF ReadFails, CallFails, Crash
  <2> QED BY <1>2, <2>2, <2>3, <2>4
<1>3. CASE Quarantine(w)
  BY <1>3 DEF Quarantine
<1>4. CASE Match(w)
  BY <1>0, <1>4 DEF Match
<1>5. CASE UpsertPlayer(w)
  BY <1>5 DEF UpsertPlayer
<1>6. CASE AddParticipant(w)
  <2>1. workers[w].left \in Seq(Players) /\ workers[w].left # <<>>
    BY <1>0, <1>6, Fields DEF AddParticipant, Storing
  <2>2. Head(workers[w].left) \in Players
    BY <2>1, HeadThenTail
  <2> QED BY <1>0, <1>6, <2>2 DEF AddParticipant
<1>7. CASE Begin(w)
  BY <1>0, <1>7 DEF Begin
<1>8. CASE Store(w)
  BY <1>8 DEF Store
<1>9. CASE Complete(w)
  BY <1>9 DEF Complete
<1>10. CASE Reconcile(w)
  <2>1. workers[w].next \in Nat
    BY Fields
  <2>2. Demo(w) \in Demos /\ UNCHANGED <<build, artifact, matched, participants, runs, rated, canonical>>
    BY <1>0, <1>10 DEF Reconcile
  <2>3. \/ decided' = [decided EXCEPT ![Demo(w)] = @ \cup {workers[w].next}]
        \/ UNCHANGED decided
    BY <1>10 DEF Reconcile
  <2>4. decided[Demo(w)] \cup {workers[w].next} \in SUBSET Nat
    BY <2>1, <2>2
  <2>5. decided' \in [Demos -> SUBSET Nat]
    BY <2>3, <2>4
  <2> QED BY <2>2, <2>5
<1> QED BY <1>1, <1>2, <1>3, <1>4, <1>5, <1>6, <1>7, <1>8, <1>9, <1>10
        DEF Step, PersistAvailable, PersistUnavailable

(* Whoever calls them, these touch the job table or the build alone         *)
LEMMA EnvironmentTyped ==
  ASSUME Typed,
         \/ \E j \in JobIds : Cancel(j) \/ Retry(j)
         \/ RecoverExpired \/ Upgrade \/ Tick \/ UNCHANGED vars
  PROVE  Typed' /\ UNCHANGED workers
BY DEF Cancel, Retry, RecoverExpired, Upgrade, Tick, vars, rest, matchTables, runTables,
       Typed, TablesTyped, WorkerTyped

(* The first layer of the invariant                                         *)
LEMMA Typing == Spec => []Typed
<1>1. Typed /\ [Next]_vars => Typed'
  <2> SUFFICES ASSUME Typed, [Next]_vars PROVE Typed'
    OBVIOUS
  <2>1. ASSUME NEW w \in Workers, Step(w) PROVE Typed'
    BY <2>1, StepMoves, StepTables DEF Typed, Others, WorkerTyped
  <2> QED BY <2>1, EnvironmentTyped DEF Next
<1> QED BY <1>1, InitTyped, PTL DEF Spec

-----------------------------------------------------------------------------
(* The job table itself, whoever issues its statements: what it promises    *)
(* needs no more than the types and the relation between a job's row and    *)
(* its attempts.                                                            *)
JobsInv == Jobs!TypeOK /\ Jobs!AttemptsFollowLease

(* Closing the running attempts leaves none, and keeps their number.        *)
LEMMA JobsSettled ==
  ASSUME NEW a \in Jobs!Attempts, NEW success \in BOOLEAN
  PROVE  /\ Jobs!Settled(a, success) \in Jobs!Attempts
         /\ Jobs!Settled(a, success).running = 0
         /\ success => Jobs!Settled(a, success).succeeded = a.succeeded + a.running
         /\ ~success => Jobs!Settled(a, success).succeeded = a.succeeded
<1>1. a.running \in Nat /\ a.succeeded \in Nat /\ a.failed \in Nat
  BY DEF Jobs!Attempts
<1>2. success = TRUE \/ success = FALSE
  OBVIOUS
<1> QED BY <1>1, <1>2 DEF Jobs!Settled, Jobs!Attempts

LEMMA JobsMoved ==
  ASSUME NEW job \in Jobs!Job, NEW phase \in Jobs!Phases, NEW owner \in Workers \cup {None},
         NEW expires \in Nat
  PROVE  /\ Jobs!Moved(job, phase, owner, expires) \in Jobs!Job
         /\ Jobs!Moved(job, phase, owner, expires).phase = phase
         /\ Jobs!Moved(job, phase, owner, expires).owner = owner
BY DEF Jobs!Moved, Jobs!Job

(* The row of a job whose lease is given up.                                *)
LEMMA JobsReleased ==
  ASSUME NEW job \in Jobs!Job, NEW phase \in {"queued", "succeeded", "failed", "cancelled"}
  PROVE  Jobs!Moved(job, phase, None, 0) \in Jobs!Job /\ Jobs!Moved(job, phase, None, 0).phase = phase
<1>1. None \in Workers \cup {None} /\ 0 \in Nat /\ phase \in Jobs!Phases
  BY DEF Jobs!Phases, Jobs!Final
<1> QED BY <1>1 DEF Jobs!Moved, Jobs!Job

LEMMA JobsInit == Jobs!Init => JobsInv
BY DEF Jobs!Init, JobsInv, Jobs!TypeOK, Jobs!AttemptsFollowLease, Jobs!Job, Jobs!NoJob, Jobs!Attempts, Jobs!Phases, Jobs!Final

LEMMA JobsEnqueue ==
  ASSUME JobsInv, NEW j \in JobIds, NEW d \in Demos, Jobs!Enqueue(j, d)
  PROVE  JobsInv'
BY DEF JobsInv, Jobs!TypeOK, Jobs!AttemptsFollowLease, Jobs!Enqueue, Jobs!Job, Jobs!Phases, Jobs!Final

LEMMA JobsLease ==
  ASSUME LeaseTime \in Nat, JobsInv, NEW j \in JobIds, NEW w \in Workers,
         Jobs!Lease(j, w, now + LeaseTime)
  PROVE  JobsInv'
<1>1. jobs[j].phase \in {"queued", "leased"} /\ attempts[j] \in Jobs!Attempts
  BY DEF Jobs!Lease, Jobs!Expired, JobsInv, Jobs!TypeOK
<1>2. /\ Jobs!Settled(attempts[j], FALSE) \in Jobs!Attempts
      /\ Jobs!Settled(attempts[j], FALSE).succeeded = attempts[j].succeeded
  BY <1>1, JobsSettled
<1>3. attempts[j].succeeded = 0
  BY <1>1 DEF JobsInv, Jobs!AttemptsFollowLease
<1> DEFINE opened == [Jobs!Settled(attempts[j], FALSE) EXCEPT !.running = 1]
<1>6. opened \in Jobs!Attempts
  BY <1>2 DEF Jobs!Attempts
<1>7. attempts' = [attempts EXCEPT ![j] = opened]
  BY DEF Jobs!Lease
<1> DEFINE job == Jobs!Moved(jobs[j], "leased", w, now + LeaseTime)
<1>8. job \in Jobs!Job /\ job.phase = "leased"
  BY JobsMoved DEF JobsInv, Jobs!TypeOK, Jobs!Phases
<1>11. jobs' = [jobs EXCEPT ![j] = job] /\ now' = now
  BY DEF Jobs!Lease
<1> HIDE DEF opened, job
<1>9. attempts' \in [JobIds -> Jobs!Attempts]
  BY <1>6, <1>7 DEF JobsInv, Jobs!TypeOK
<1>10. jobs' \in [JobIds -> Jobs!Job]
  BY <1>8, <1>11 DEF JobsInv, Jobs!TypeOK
<1>4. Jobs!TypeOK'
  BY <1>9, <1>10, <1>11 DEF JobsInv, Jobs!TypeOK
<1>12. opened.running = 1 /\ opened.succeeded = 0
  BY <1>2, <1>3 DEF opened, Jobs!Attempts
<1>5. Jobs!AttemptsFollowLease'
  BY <1>7, <1>8, <1>11, <1>12 DEF JobsInv, Jobs!TypeOK, Jobs!AttemptsFollowLease
<1> QED BY <1>4, <1>5 DEF JobsInv

LEMMA JobsReport ==
  ASSUME JobsInv, NEW j \in JobIds, NEW w \in Workers, NEW p \in Levels, Jobs!Report(j, w, p)
  PROVE  JobsInv'
BY DEF JobsInv, Jobs!TypeOK, Jobs!AttemptsFollowLease, Jobs!Report, Jobs!Held, Jobs!Job

LEMMA JobsFinish ==
  ASSUME JobsInv, NEW j \in JobIds, NEW w \in Workers, NEW phase \in Jobs!Final, Jobs!Finish(j, w, phase)
  PROVE  JobsInv'
<1>1. jobs[j].phase = "leased" /\ attempts[j] \in Jobs!Attempts
  BY DEF Jobs!Finish, Jobs!Held, JobsInv, Jobs!TypeOK
<1>2. attempts[j].running = 1 /\ attempts[j].succeeded = 0
  BY <1>1 DEF JobsInv, Jobs!AttemptsFollowLease
<1> DEFINE closed == Jobs!Settled(attempts[j], phase = "succeeded")
<1>3. closed \in Jobs!Attempts /\ closed.running = 0
      /\ closed.succeeded = IF phase = "succeeded" THEN 1 ELSE 0
<2>1. CASE phase = "succeeded"
  <3>1. closed = Jobs!Settled(attempts[j], TRUE)
    BY <2>1
  <3>2. /\ Jobs!Settled(attempts[j], TRUE) \in Jobs!Attempts
        /\ Jobs!Settled(attempts[j], TRUE).running = 0
        /\ Jobs!Settled(attempts[j], TRUE).succeeded = 1
    BY <1>1, <1>2, JobsSettled, 0 + 1 = 1
  <3> HIDE DEF closed
  <3> QED BY <2>1, <3>1, <3>2, Zenon
<2>2. CASE phase # "succeeded"
  <3>1. closed = Jobs!Settled(attempts[j], FALSE)
    BY <2>2
  <3> HIDE DEF closed
  <3> QED BY <1>1, <1>2, <2>2, <3>1, JobsSettled
<2> QED BY <2>1, <2>2
<1> DEFINE job == Jobs!Moved(jobs[j], phase, None, 0)
<1>8. job \in Jobs!Job /\ job.phase = phase
  BY JobsReleased DEF JobsInv, Jobs!TypeOK, Jobs!Final
<1>5. jobs' = [jobs EXCEPT ![j] = job] /\ now' = now
  BY DEF Jobs!Finish
<1>4. attempts' = [attempts EXCEPT ![j] = closed]
  BY DEF Jobs!Finish
<1> HIDE DEF closed, job
<1>6. Jobs!TypeOK'
  BY <1>3, <1>4, <1>5, <1>8 DEF JobsInv, Jobs!TypeOK
<1>7. Jobs!AttemptsFollowLease'
  BY <1>3, <1>4, <1>5, <1>8 DEF JobsInv, Jobs!TypeOK, Jobs!AttemptsFollowLease, Jobs!Final
<1> QED BY <1>6, <1>7 DEF JobsInv

LEMMA JobsRetry ==
  ASSUME JobsInv, NEW j \in JobIds, Jobs!Retry(j)
  PROVE  JobsInv'
<1> DEFINE job == Jobs!Moved(jobs[j], "queued", None, 0)
<1>1. job \in Jobs!Job /\ job.phase = "queued"
  BY JobsReleased DEF JobsInv, Jobs!TypeOK
<1>2. jobs' = [jobs EXCEPT ![j] = job] /\ now' = now /\ attempts' = attempts
      /\ jobs[j].phase \in {"failed", "cancelled"}
  BY DEF Jobs!Retry
<1> HIDE DEF job
<1> QED BY <1>1, <1>2 DEF JobsInv, Jobs!TypeOK, Jobs!AttemptsFollowLease

LEMMA JobsRecover ==
  ASSUME JobsInv, Jobs!RecoverExpired
  PROVE  JobsInv'
<1>1. \A j \in JobIds : Jobs!Settled(attempts[j], FALSE) \in Jobs!Attempts
        /\ Jobs!Settled(attempts[j], FALSE).running = 0
        /\ Jobs!Settled(attempts[j], FALSE).succeeded = attempts[j].succeeded
  BY JobsSettled DEF JobsInv, Jobs!TypeOK
<1>4. \A j \in JobIds : Jobs!Moved(jobs[j], "queued", None, 0) \in Jobs!Job
        /\ Jobs!Moved(jobs[j], "queued", None, 0).phase = "queued"
  BY JobsReleased DEF JobsInv, Jobs!TypeOK
<1>2. Jobs!TypeOK'
  BY <1>1, <1>4 DEF JobsInv, Jobs!TypeOK, Jobs!RecoverExpired
<1>3. Jobs!AttemptsFollowLease'
  BY <1>1, <1>4 DEF JobsInv, Jobs!TypeOK, Jobs!AttemptsFollowLease, Jobs!RecoverExpired, Jobs!Expired
<1> QED BY <1>2, <1>3 DEF JobsInv

LEMMA JobsStep ==
  ASSUME LeaseTime \in Nat, JobsInv, [Jobs!Next]_(Jobs!vars)
  PROVE  JobsInv'
<1>1. CASE \E j \in JobIds, d \in Demos : Jobs!Enqueue(j, d)
  BY <1>1, JobsEnqueue
<1>2. CASE \E j \in JobIds, w \in Workers : Jobs!Lease(j, w, now + LeaseTime)
  BY <1>2, JobsLease
<1>3. CASE \E j \in JobIds, w \in Workers, p \in Levels : Jobs!Report(j, w, p)
  BY <1>3, JobsReport
<1>4. CASE \E j \in JobIds, w \in Workers, phase \in Jobs!Final : Jobs!Finish(j, w, phase)
  BY <1>4, JobsFinish
<1>5. CASE \E j \in JobIds : Jobs!Retry(j)
  BY <1>5, JobsRetry
<1>6. CASE Jobs!RecoverExpired
  BY <1>6, JobsRecover
<1>7. CASE Jobs!Tick
  BY <1>7 DEF Jobs!Tick, JobsInv, Jobs!TypeOK, Jobs!AttemptsFollowLease
<1>8. CASE UNCHANGED Jobs!vars
  BY <1>8 DEF Jobs!vars, JobsInv, Jobs!TypeOK, Jobs!AttemptsFollowLease
<1> QED BY <1>1, <1>2, <1>3, <1>4, <1>5, <1>6, <1>7, <1>8 DEF Jobs!Next

LEMMA JobsInductive == Jobs!Spec => []JobsInv
<1>1. Jobs!Init => JobsInv
  BY JobsInit
<1>2. JobsInv /\ [Jobs!Next]_(Jobs!vars) => JobsInv'
  BY JobsStep, PipelineAssumption
<1> QED BY <1>1, <1>2, PTL DEF Jobs!Spec

-----------------------------------------------------------------------------
(* Whatever the order in which leases expire, are taken over, recovered,    *)
(* finished and retried, the append-only record of attempts agrees with the *)
(* row of the job: AttemptsFollowLease of enqueue_import ...                *)
(* recover_expired_imports and their triggers.                              *)
THEOREM JobAttempts == Jobs!Spec => []Jobs!AttemptsFollowLease
<1>1. JobsInv => Jobs!AttemptsFollowLease
  BY DEF JobsInv
<1> QED BY <1>1, JobsInductive, PTL

(* No late call of a former owner, no retry and no recovery changes a job   *)
(* that has succeeded: every statement names the status it starts from.     *)
THEOREM JobSuccess == Jobs!Spec => Jobs!SuccessIsFinal
<1>1. ASSUME JobsInv, [Jobs!Next]_(Jobs!vars), NEW j \in JobIds, jobs[j].phase = "succeeded"
      PROVE  jobs'[j] = jobs[j] /\ attempts'[j] = attempts[j]
  BY <1>1 DEF Jobs!Next, Jobs!vars, Jobs!Enqueue, Jobs!Lease, Jobs!Report, Jobs!Finish, Jobs!Retry, Jobs!RecoverExpired, Jobs!Tick,
              Jobs!Held, Jobs!Expired, JobsInv, Jobs!TypeOK
<1>2. JobsInv /\ [Jobs!Next]_(Jobs!vars) => [\A j \in JobIds : jobs[j].phase = "succeeded" =>
        jobs'[j] = jobs[j] /\ attempts'[j] = attempts[j]]_<<jobs, attempts>>
  BY <1>1
<1> QED BY <1>2, JobsInductive, PTL DEF Jobs!Spec, Jobs!SuccessIsFinal

(* While a lease has not expired no other owner gets the job.               *)
THEOREM JobLease == Jobs!Spec => Jobs!LiveLeaseIsExclusive
<1>1. ASSUME JobsInv, [Jobs!Next]_(Jobs!vars), NEW j \in JobIds, jobs[j].phase = "leased", ~Jobs!Expired(j)
      PROVE  jobs'[j].owner \in {jobs[j].owner, None}
  <2> jobs \in [JobIds -> Jobs!Job]
    BY <1>1 DEF JobsInv, Jobs!TypeOK
  <2>1. CASE \E i \in JobIds, d \in Demos : Jobs!Enqueue(i, d)
    BY <1>1, <2>1 DEF Jobs!Enqueue
  <2>2. CASE \E i \in JobIds, w \in Workers : Jobs!Lease(i, w, now + LeaseTime)
    BY <1>1, <2>2 DEF Jobs!Lease
  <2>3. CASE \E i \in JobIds, w \in Workers, p \in Levels : Jobs!Report(i, w, p)
    BY <1>1, <2>3 DEF Jobs!Report, Jobs!Job
  <2>4. CASE \E i \in JobIds, w \in Workers, phase \in Jobs!Final : Jobs!Finish(i, w, phase)
    BY <1>1, <2>4 DEF Jobs!Finish, Jobs!Moved
  <2>5. CASE \E i \in JobIds : Jobs!Retry(i)
    BY <1>1, <2>5 DEF Jobs!Retry
  <2>6. CASE Jobs!RecoverExpired
    BY <1>1, <2>6 DEF Jobs!RecoverExpired
  <2>7. CASE Jobs!Tick \/ UNCHANGED Jobs!vars
    BY <1>1, <2>7 DEF Jobs!Tick, Jobs!vars
  <2> QED BY <1>1, <2>1, <2>2, <2>3, <2>4, <2>5, <2>6, <2>7 DEF Jobs!Next
<1>2. JobsInv /\ [Jobs!Next]_(Jobs!vars) => [\A j \in JobIds : jobs[j].phase = "leased" /\ ~Jobs!Expired(j) =>
        jobs'[j].owner \in {jobs[j].owner, None}]_<<jobs, attempts>>
  BY <1>1
<1> QED BY <1>2, JobsInductive, PTL DEF Jobs!Spec, Jobs!LiveLeaseIsExclusive

-----------------------------------------------------------------------------
(* Every step of the pipeline is a statement of the job table or leaves the *)
(* table alone.                                                             *)
LEMMA WorkerImplements ==
  ASSUME Typed, NEW w \in Workers, Step(w)
  PROVE  Jobs!Next \/ UNCHANGED Jobs!vars
<1> USE DEF At, tables, Jobs!vars
<1>0. /\ workers[w].at # "idle" => Demo(w) \in Demos
      /\ workers[w].at \notin {"idle", "enqueue"} => JobOf(w) \in JobIds
  BY DEF Typed, WorkerTyped, Demo, JobOf
<1>1. ASSUME NEW p \in Levels, JobOf(w) \in JobIds, Jobs!Report(JobOf(w), w, p) PROVE Jobs!Next
  BY <1>1 DEF Jobs!Next
<1>2. ASSUME NEW phase \in Jobs!Final, JobOf(w) \in JobIds, Jobs!Finish(JobOf(w), w, phase)
      PROVE  Jobs!Next
  BY <1>2 DEF Jobs!Next
<1>3. CASE Enqueue(w)
  BY <1>0, <1>3 DEF Enqueue, Jobs!Next
<1>4. CASE Lease(w)
  BY <1>0, <1>4 DEF Lease, Jobs!Next
<1>5. CASE Start(w) \/ Parsed(w) \/ Full(w)
  BY <1>0, <1>1, <1>5, LevelTypes DEF Start, Parsed, Full
<1>6. CASE Progress(w)
  <2>1. PICK phase \in ParserPhases, fraction \in Fractions :
          \/ Jobs!Report(JobOf(w), w, ParserProgress(phase, fraction))
          \/ UNCHANGED tables
    BY <1>6 DEF Progress
  <2> QED BY <1>0, <1>1, <1>6, <2>1, LevelTypes DEF Progress
<1>7. CASE Finish(w) \/ Fail(w)
  BY <1>0, <1>2, <1>7 DEF Finish, Fail, Jobs!Final
<1>8. CASE (\E d \in Demos : Import(w, d)) \/ Parse(w) \/ ReadFails(w) \/ Quarantine(w)
           \/ Dedupe(w) \/ Match(w) \/ UpsertPlayer(w) \/ AddParticipant(w) \/ Begin(w)
  BY <1>8 DEF Import, Parse, ReadFails, Quarantine, Dedupe, Match, UpsertPlayer, AddParticipant, Begin
<1>9. CASE Store(w) \/ Complete(w) \/ Reconcile(w) \/ CallFails(w) \/ Crash(w)
  BY <1>9 DEF Store, Complete, Reconcile, CallFails, Crash
<1> QED BY <1>3, <1>4, <1>5, <1>6, <1>7, <1>8, <1>9 DEF Step, PersistAvailable, PersistUnavailable

(* So does a call of cancel, retry or recover_expired.                      *)
LEMMA StepImplements ==
  ASSUME Typed, [Next]_vars
  PROVE  [Jobs!Next]_(Jobs!vars)
<1>1. CASE \E w \in Workers : Step(w)
  BY <1>1, WorkerImplements
<1>2. CASE \E j \in JobIds : Cancel(j) \/ Retry(j)
  BY <1>2 DEF Cancel, Retry, Jobs!Next, Jobs!Final
<1>3. CASE RecoverExpired \/ Tick
  BY <1>3 DEF RecoverExpired, Tick, Jobs!Next
<1>4. CASE Upgrade \/ UNCHANGED vars
  BY <1>4 DEF Upgrade, vars, tables, Jobs!vars
<1> QED BY <1>1, <1>2, <1>3, <1>4 DEF Next

(* The pipeline implements the contract of the job table (ImplementsJobs):  *)
(* import_inner, run_leased, cancel, retry and recover_expired change it    *)
(* only by statements the table allows, whoever holds the lease by then.    *)
THEOREM PipelineImplementsJobs == Spec => ImplementsJobs
<1>1. Init => Jobs!Init
  BY DEF Init
<1>2. Typed /\ [Next]_vars => [Jobs!Next]_(Jobs!vars)
  BY StepImplements
<1> QED BY <1>1, <1>2, Typing, PTL DEF Spec, ImplementsJobs, Jobs!Spec

(* Whatever the imports do, the record of attempts agrees with the row of   *)
(* the job (the triggers on import_jobs).                                   *)
THEOREM PipelineAttempts == Spec => []Jobs!TypeOK /\ []Jobs!AttemptsFollowLease
<1>1. Jobs!Spec => []JobsInv
  BY JobsInductive
<1>2. JobsInv => Jobs!TypeOK /\ Jobs!AttemptsFollowLease
  BY DEF JobsInv
<1> QED BY <1>1, <1>2, PipelineImplementsJobs, PTL DEF ImplementsJobs

(* A job of an import that has succeeded is final, and a lease that has not *)
(* expired is left to its owner, whatever late callers do.                  *)
THEOREM PipelineLeases == Spec => Jobs!SuccessIsFinal /\ Jobs!LiveLeaseIsExclusive
<1>1. Jobs!Spec => Jobs!SuccessIsFinal /\ Jobs!LiveLeaseIsExclusive
  BY JobSuccess, JobLease, PTL
<1> QED BY <1>1, PipelineImplementsJobs, PTL DEF ImplementsJobs

-----------------------------------------------------------------------------
(* The demo file.  Imports that overlap run the same build, so of one demo  *)
(* they all come to the match or all to the quarantine - but those that     *)
(* cannot read the file.                                                    *)
Readable(d) == build \in Parses[d] /\ Roster[d] # <<>>
Analysing == {"player", "participant", "begin", "persist", "complete", "reconcile", "full",
              "finish"}
AfterParse == {"parsed", "dedupe", "match"} \cup Analysing

FileOf(w) ==
  /\ workers[w].at \in Underway =>
       \/ artifact[workers[w].demo] = "present" \/ ~Readable(workers[w].demo)
       \/ workers[w].demo \in misread
  /\ workers[w].at = "quarantine" => ~Readable(workers[w].demo)
  /\ workers[w].at \in AfterParse => Readable(workers[w].demo)
  /\ workers[w].at \in Analysing => workers[w].demo \in matched

FileInv ==
  /\ \A d \in matched : artifact[d] = "present" \/ d \in misread
  /\ \A w \in Workers : FileOf(w)

(* What an import may do to the demo of another                             *)
FileStays(d) ==
  \/ artifact'[d] = "present" \/ d \in misread' \/ ~Readable(d)
  \/ artifact'[d] = artifact[d] /\ (d \in misread => d \in misread')
FilesStay(w) ==
  /\ build' = build /\ matched \subseteq matched'
  /\ \A d \in Demos :
       FileStays(d) \/ ~\E v \in Workers \ {w} : workers[v].demo = d /\ workers[v].at \in Underway

(* The condition of the other workers survives.                             *)
LEMMA OtherFiles ==
  ASSUME Typed, NEW w \in Workers, Others(w), FilesStay(w), FileInv
  PROVE  \A v \in Workers \ {w} : FileOf(v)'
<1> SUFFICES ASSUME NEW v \in Workers, v # w PROVE FileOf(v)'
  OBVIOUS
<1>1. workers'[v] = workers[v] /\ FileOf(v)
  BY DEF Others, FileInv
<1>2. workers[v].at # "idle" => workers[v].demo \in Demos
  BY DEF Typed, WorkerTyped
<1>3. \A d : Readable(d)' = Readable(d)
  BY DEF FilesStay, Readable
<1>4. workers[v].at \in Underway => FileStays(workers[v].demo)
  BY <1>2 DEF FilesStay, Underway
<1>5. matched \subseteq matched'
  BY DEF FilesStay
<1> HIDE DEF Readable
<1> QED BY <1>1, <1>3, <1>4, <1>5 DEF FileOf, FileStays, AfterParse, Analysing

(* The steps that read or write the job table, fail or die: nothing but the *)
(* place of the import changes.                                             *)
QuietEdges == {<<"enqueue", "lease">>, <<"lease", "start">>, <<"start", "parse">>,
               <<"parse", "parse">>, <<"parse", "unread">>, <<"parsed", "dedupe">>, <<"full", "finish">>}

Quietly(w) ==
  \/ workers'[w] = Idle
  \/ /\ workers[w].at # "idle" /\ workers'[w].demo = workers[w].demo
     /\ workers[w].at # "enqueue" => workers'[w].job = workers[w].job
     /\ \/ workers'[w].at = "fail" /\ workers[w].at # "enqueue"
        \/ <<workers[w].at, workers'[w].at>> \in QuietEdges
     /\ workers'[w].next = workers[w].next

Quiet(w) ==
  \/ Enqueue(w) \/ Lease(w) \/ Start(w) \/ Progress(w) \/ Parsed(w) \/ Full(w) \/ Finish(w)
  \/ Fail(w) \/ ReadFails(w) \/ CallFails(w) \/ Crash(w)

LEMMA QuietSteps ==
  ASSUME Typed, NEW w \in Workers, Quiet(w)
  PROVE  Quietly(w) /\ UNCHANGED <<artifact, matchTables, runTables, decided, build, misread>>
<1> USE DEF At, Kept
<1>0. workers \in [Workers -> Worker]
  BY DEF Typed
<1>1. ASSUME NEW s \in Stages, Go(w, s), workers[w].at # "idle",
             \/ s = "fail" /\ workers[w].at # "enqueue"
             \/ <<workers[w].at, s>> \in QuietEdges
      PROVE  Quietly(w)
  BY <1>0, <1>1, GoEffect DEF Quietly
<1>2. ASSUME workers' = [workers EXCEPT ![w] = Idle] PROVE Quietly(w)
  BY <1>0, <1>2, IdleType, Takes DEF Quietly
<1>3. CASE Enqueue(w)
  BY <1>0, <1>3, EnqueueEffect DEF Enqueue, Quietly, QuietEdges, rest, history
<1>4. CASE Lease(w) \/ Start(w)
  BY <1>1, <1>2, <1>4 DEF Lease, Start, QuietEdges, rest, history, Stages
<1>5. CASE Progress(w)
  BY <1>0, <1>5, ProgressEffect DEF Progress, Quietly, QuietEdges, rest, history
<1>6. CASE Parsed(w) \/ Full(w)
  BY <1>1, <1>6 DEF Parsed, Full, QuietEdges, rest, history, Stages
<1>7. CASE Finish(w) \/ Fail(w)
  BY <1>1, <1>2, <1>7 DEF Finish, Fail, rest, history, Stages
<1>8. CASE CallFails(w) \/ Crash(w)
  BY <1>1, <1>2, <1>8 DEF CallFails, Crash, Interruption, Stages
<1>9. CASE ReadFails(w)
  BY <1>1, <1>9 DEF ReadFails, QuietEdges, history, Stages
<1> QED BY <1>3, <1>4, <1>5, <1>6, <1>7, <1>8, <1>9 DEF Quiet

LEMMA StepCases ==
  ASSUME NEW w \in Workers, Step(w)
  PROVE  \/ Quiet(w) \/ \E d \in Demos : Import(w, d)
         \/ Parse(w) \/ Quarantine(w) \/ Dedupe(w) \/ Match(w) \/ UpsertPlayer(w)
         \/ AddParticipant(w) \/ Begin(w) \/ (At(w, "persist") /\ Store(w)) \/ Complete(w)
         \/ Reconcile(w)
BY DEF Step, Quiet, PersistAvailable, PersistUnavailable, At

(* From the match on, an import stays where its demo is matched, or fails.  *)
LEMMA AnalysingEffect ==
  ASSUME Typed, NEW w \in Workers,
         \/ UpsertPlayer(w) \/ AddParticipant(w) \/ Begin(w) \/ (At(w, "persist") /\ Store(w))
         \/ Complete(w) \/ Reconcile(w)
  PROVE  /\ workers'[w].demo = workers[w].demo /\ workers'[w].job = workers[w].job
         /\ workers'[w].at \in Analysing \cup {"fail"}
<1> USE DEF At, Kept, Analysing
<1>0. workers \in [Workers -> Worker] /\ WorkerTyped(w)
  BY DEF Typed
<1>1. ASSUME NEW s \in {"participant", "persist", "complete", "reconcile", "finish", "full", "fail"},
             Go(w, s)
      PROVE  /\ workers'[w].demo = workers[w].demo /\ workers'[w].job = workers[w].job
             /\ workers'[w].at \in Analysing \cup {"fail"}
  BY <1>0, <1>1, GoEffect DEF Stages
<1>2. CASE UpsertPlayer(w)
  BY <1>1, <1>2 DEF UpsertPlayer
<1>3. CASE AddParticipant(w)
  <2>1. workers[w].left # <<>>
    BY <1>0, <1>3 DEF AddParticipant, WorkerTyped, Storing
  <2> QED BY <1>0, <1>3, <2>1, AddParticipantEffect
<1>4. CASE Begin(w)
  BY <1>1, <1>4 DEF Begin
<1>5. CASE Store(w)
  BY <1>1, <1>5 DEF Store
<1>6. CASE Complete(w)
  BY <1>1, <1>6 DEF Complete
<1>7. CASE Reconcile(w)
  BY <1>0, <1>1, <1>7, NextCandidateEffect DEF Reconcile
<1> QED BY <1>2, <1>3, <1>4, <1>5, <1>6, <1>7

(* A step establishes the condition of its worker.                          *)
LEMMA StepFiles ==
  ASSUME Typed, FileInv, NEW w \in Workers, Step(w)
  PROVE  FilesStay(w) /\ FileOf(w)' /\ \A d \in matched' : artifact'[d] = "present" \/ d \in misread'
<1> USE DEF At, Demo, matchTables, runTables, rest, history
<1>0. /\ workers \in [Workers -> Worker] /\ WorkerTyped(w) /\ FileOf(w)
      /\ artifact \in [Demos -> {"absent", "present", "quarantined"}] /\ matched \subseteq Demos
      /\ \A d \in matched : artifact[d] = "present" \/ d \in misread
  BY DEF Typed, TablesTyped, FileInv
<1>1. ASSUME UNCHANGED <<build, matched, artifact, misread>>
      PROVE  /\ FilesStay(w) /\ \A d \in matched' : artifact'[d] = "present" \/ d \in misread'
             /\ \A d : Readable(d)' = Readable(d)
  BY <1>0, <1>1 DEF FilesStay, FileStays, Readable
<1>2. ASSUME UNCHANGED <<build, matched, artifact, misread>>, workers'[w].at = "idle"
      PROVE  FileOf(w)'
  BY <1>2 DEF FileOf, Underway, AfterParse, Analysing
<1>3. ASSUME UNCHANGED <<build, matched, artifact, misread>>, workers'[w].demo = workers[w].demo,
             workers[w].at # "idle",
             \/ workers'[w].at \in {"unread", "fail"}
             \/ workers[w].at \in Underway /\ workers'[w].at \in {"lease", "start", "parse"}
             \/ workers[w].at \in AfterParse /\ workers'[w].at \in {"dedupe", "match"}
             \/ workers[w].at \in Analysing /\ workers'[w].at \in Analysing
      PROVE  FileOf(w)'
  BY <1>0, <1>1, <1>3 DEF FileOf, Underway, Stages, AfterParse, Analysing
<1>4. CASE Quiet(w)
  <2>1. Quietly(w) /\ UNCHANGED <<build, matched, artifact, misread>>
    BY <1>4, QuietSteps
  <2>2. FileOf(w)'
    BY <1>2, <1>3, <2>1 DEF Quietly, QuietEdges, Idle, Underway, Stages, AfterParse, Analysing
  <2> QED BY <1>1, <2>1, <2>2
<1>5. ASSUME NEW d \in Demos, Import(w, d)
      PROVE  FilesStay(w) /\ FileOf(w)' /\ \A e \in matched' : artifact'[e] = "present" \/ e \in misread'
  <2>1. /\ artifact' = [artifact EXCEPT ![d] = "present"] /\ UNCHANGED <<build, matched>>
        /\ workers'[w].at = "enqueue" /\ workers'[w].demo = d /\ misread' = misread \ {d}
    BY <1>0, <1>5, ImportEffect DEF Import
  <2> QED BY <1>0, <2>1 DEF FilesStay, FileStays, FileOf, Underway, AfterParse, Analysing
<1>6. CASE Parse(w)
  <2>1. /\ UNCHANGED <<build, matched, artifact, misread>> /\ workers[w].at = "parse"
        /\ workers'[w].at = ParseOutcome(w) /\ workers'[w].demo = workers[w].demo
    BY <1>0, <1>6, ParseEffect DEF Parse, Kept
  <2>2. \/ workers'[w].at = "fail"
        \/ workers'[w].at = "quarantine" /\ ~Readable(workers[w].demo)
        \/ workers'[w].at = "parsed" /\ Readable(workers[w].demo)
    BY <2>1 DEF ParseOutcome, Readable
  <2>3. FileOf(w)'
    BY <1>0, <1>1, <2>1, <2>2 DEF FileOf, Underway, Stages, AfterParse, Analysing
  <2> QED BY <1>1, <2>1, <2>3
<1>7. CASE Quarantine(w)
  <2> DEFINE d == workers[w].demo
  <2>1. /\ UNCHANGED <<build, matched>> /\ workers'[w].at = "fail"
        /\ workers'[w].demo = d /\ workers[w].at \in {"quarantine", "unread"}
    BY <1>0, <1>7, GoEffect DEF Quarantine, Stages, Kept
  <2>2. d \in Demos /\ \A e : Readable(e)' = Readable(e)
    BY <1>0, <2>1 DEF WorkerTyped, Readable
  <2>3. /\ \A e \in Demos : e # d => artifact'[e] = artifact[e]
        /\ d \in matched => artifact' = artifact
        /\ misread \subseteq misread'
    BY <1>0, <1>7 DEF Quarantine, CanQuarantine, HasMatch
  <2>4. \A e \in matched' : artifact'[e] = "present" \/ e \in misread'
    BY <1>0, <2>1, <2>3
  <2>5. FileOf(w)'
    BY <2>1 DEF FileOf, Underway, AfterParse, Analysing
  <2>6. FileStays(d) \/ ~\E v \in Workers \ {w} : workers[v].demo = d /\ workers[v].at \in Underway
    <3>1. CASE workers[w].at = "quarantine"
      BY <1>0, <3>1 DEF FileOf, FileStays
    <3>2. CASE ~CanQuarantine(d)
      BY <1>7, <2>3, <3>2 DEF Quarantine, FileStays
    <3>3. CASE workers[w].at = "unread" /\ CanQuarantine(d)
      BY <1>7, <3>3 DEF Quarantine, FileStays, Overtaken
    <3> QED BY <2>1, <3>1, <3>2, <3>3
  <2>7. \A e \in Demos : e # d => FileStays(e)
    BY <2>3 DEF FileStays
  <2>8. FilesStay(w)
    BY <2>1, <2>6, <2>7 DEF FilesStay
  <2> QED BY <2>4, <2>5, <2>8
<1>8. CASE Dedupe(w)
  <2>1. UNCHANGED <<build, matched, artifact, misread>> /\ workers[w].at = "dedupe"
    BY <1>8 DEF Dedupe
  <2>2. /\ workers'[w].demo = workers[w].demo
        /\ workers'[w].at \in {"reconcile", "begin", "match"}
        /\ workers'[w].at # "match" => workers[w].demo \in matched
    BY <1>0, <1>8, <2>1, DedupeEffect DEF HasMatch, WorkerTyped
  <2>3. FileOf(w)'
    BY <1>0, <1>1, <2>1, <2>2 DEF FileOf, Underway, Stages, AfterParse, Analysing
  <2> QED BY <1>1, <2>1, <2>3
<1>9. CASE Match(w)
  <2>1. /\ Go(w, "player") \/ Go(w, "fail")
        /\ UNCHANGED <<build, artifact, misread>> /\ workers[w].at = "match"
        /\ matched' = matched \cup {workers[w].demo}
    BY <1>9 DEF Match
  <2>2. workers'[w].demo = workers[w].demo /\ workers'[w].at \in {"player", "fail"}
    BY <1>0, <2>1, GoEffect DEF Stages, Kept
  <2>3. /\ workers[w].demo \in Demos /\ Readable(workers[w].demo)
        /\ artifact[workers[w].demo] = "present" \/ workers[w].demo \in misread
        /\ \A d : Readable(d)' = Readable(d)
    BY <1>0, <2>1 DEF FileOf, Underway, Stages, AfterParse, Readable, WorkerTyped
  <2> HIDE DEF Readable
  <2> QED BY <1>0, <2>1, <2>2, <2>3 DEF FilesStay, FileStays, FileOf, AfterParse, Analysing
<1>10. CASE UpsertPlayer(w) \/ AddParticipant(w) \/ Begin(w) \/ (At(w, "persist") /\ Store(w))
            \/ Complete(w) \/ Reconcile(w)
  <2>1. UNCHANGED <<build, matched, artifact, misread>> /\ workers[w].at \in Analysing
    BY <1>10 DEF UpsertPlayer, AddParticipant, Begin, Store, Complete, Reconcile, Analysing
  <2>2. workers'[w].demo = workers[w].demo /\ workers'[w].at \in Analysing \cup {"fail"}
    BY ONLY Typed, w \in Workers, <1>10, AnalysingEffect
  <2>3. FileOf(w)'
    BY <1>3, <2>1, <2>2 DEF Analysing
  <2> QED BY <1>1, <2>1, <2>3
<1> QED BY <1>4, <1>5, <1>6, <1>7, <1>8, <1>9, <1>10, StepCases

(* The second layer                                                         *)
LEMMA FilesInductive == Spec => []FileInv
<1>1. Init => FileInv
  BY DEF Init, FileInv, FileOf, Idle, Underway, AfterParse, Analysing
<1>2. Typed /\ FileInv /\ [Next]_vars => FileInv'
  <2> SUFFICES ASSUME Typed, FileInv, [Next]_vars PROVE FileInv'
    OBVIOUS
  <2>1. ASSUME NEW w \in Workers, Step(w) PROVE FileInv'
    BY <2>1, StepMoves, StepFiles, OtherFiles DEF FileInv
  <2>2. CASE Upgrade
    BY <2>2 DEF Upgrade, At, matchTables, history, FileInv, FileOf, Underway, AfterParse, Analysing
  <2>3. CASE \/ \E j \in JobIds : Cancel(j) \/ Retry(j)
             \/ RecoverExpired \/ Tick \/ UNCHANGED vars
    <3>1. UNCHANGED <<workers, artifact, matched, build, misread>>
      BY <2>3 DEF Cancel, Retry, RecoverExpired, Tick, vars, rest, matchTables, history
    <3> QED BY <3>1 DEF FileInv, FileOf, Readable
  <2> QED BY <2>1, <2>2, <2>3 DEF Next
<1> QED BY <1>1, <1>2, Typing, PTL DEF Spec

-----------------------------------------------------------------------------
(* The analysis.  A run succeeds only with its rating stored, and becomes   *)
(* canonical as it succeeds; what an import passes on to the reconciliation *)
(* has a canonical run.                                                     *)
AnalysisOf(w) ==
  workers[w].at \in {"reconcile", "full", "finish"} => canonical[workers[w].demo] # None

(* The rows of runs, ratings and matches                                    *)
RowsOk ==
  /\ \A d \in Demos, b \in Builds :
       runs[d][b] = "succeeded" => rated[d][b] /\ canonical[d] # None
  /\ \A d \in Demos : canonical[d] # None =>
       d \in matched /\ runs[d][canonical[d]] = "succeeded"

AnalysisInv == RowsOk /\ \A w \in Workers : AnalysisOf(w)

(* The rows of a run, as far as anybody relies on them                      *)
AnalysesStay ==
  /\ matched \subseteq matched'
  /\ \A d \in Demos : canonical[d] # None => canonical'[d] # None
  /\ \A d \in Demos, b \in Builds :
       runs[d][b] = "succeeded" => runs'[d][b] = "succeeded" /\ rated'[d][b] = rated[d][b]

(* Only Complete makes a run succeed, and only with its rating.             *)
LEMMA StepAnalyses ==
  ASSUME Typed, FileInv, AnalysisInv, NEW w \in Workers, Step(w)
  PROVE  AnalysesStay /\ RowsOk' /\ AnalysisOf(w)'
<1> USE DEF At, Demo, matchTables, runTables, rest
<1>0. /\ workers \in [Workers -> Worker] /\ WorkerTyped(w) /\ FileOf(w) /\ AnalysisOf(w)
      /\ RowsOk /\ TablesTyped
  BY DEF Typed, FileInv, AnalysisInv, RowsOk
<1>1. ASSUME UNCHANGED <<runs, rated, canonical>>, matched \subseteq matched'
      PROVE  AnalysesStay /\ RowsOk'
  BY <1>0, <1>1 DEF AnalysesStay, RowsOk
<1>2. CASE Quiet(w)
  <2>1. Quietly(w) /\ UNCHANGED <<matched, runs, rated, canonical>>
    BY <1>2, QuietSteps
  <2>2. AnalysisOf(w)'
    BY <1>0, <2>1 DEF AnalysisOf, Quietly, QuietEdges, Idle
  <2> QED BY <1>1, <2>1, <2>2
<1>3. ASSUME NEW d \in Demos, Import(w, d)
      PROVE  AnalysesStay /\ RowsOk' /\ AnalysisOf(w)'
  <2>1. UNCHANGED <<matched, runs, rated, canonical>> /\ workers'[w].at = "enqueue"
    BY <1>0, <1>3, ImportEffect DEF Import
  <2> QED BY <1>1, <2>1 DEF AnalysisOf
<1>4. CASE Parse(w)
  <2>1. /\ UNCHANGED <<matched, runs, rated, canonical>>
        /\ workers'[w].at \in {"fail", "quarantine", "parsed"}
    BY <1>0, <1>4, ParseEffect DEF Parse, ParseOutcome
  <2> QED BY <1>1, <2>1 DEF AnalysisOf
<1>5. CASE Quarantine(w) \/ UpsertPlayer(w)
  <2>1. /\ UNCHANGED <<matched, runs, rated, canonical>>
        /\ workers'[w].at \in {"fail", "participant"}
    BY <1>0, <1>5, GoEffect DEF Quarantine, UpsertPlayer, Stages
  <2> QED BY <1>1, <2>1 DEF AnalysisOf
<1>6. CASE Dedupe(w)
  <2>1. /\ UNCHANGED <<matched, runs, rated, canonical, build>> /\ workers[w].at = "dedupe"
    BY <1>6 DEF Dedupe
  <2>2. /\ workers'[w].demo = workers[w].demo /\ workers[w].demo \in Demos
        /\ workers'[w].at \in {"reconcile", "begin", "match"}
        /\ workers'[w].at = "reconcile" => Completed(workers[w].demo)
    BY <1>0, <1>6, <2>1, DedupeEffect DEF WorkerTyped
  <2>3. Completed(workers[w].demo) => canonical[workers[w].demo] # None
    BY <1>0, <2>2 DEF Completed, RowsOk, TablesTyped
  <2>4. AnalysisOf(w)'
    BY <2>1, <2>2, <2>3 DEF AnalysisOf
  <2> QED BY <1>1, <2>1, <2>4
<1>7. CASE Match(w)
  <2>1. (Go(w, "player") \/ Go(w, "fail")) /\ UNCHANGED <<runs, rated, canonical>>
        /\ matched \subseteq matched'
    BY <1>7 DEF Match
  <2>2. AnalysisOf(w)'
    BY <1>0, <2>1, GoEffect DEF Stages, AnalysisOf
  <2> QED BY <1>1, <2>1, <2>2
<1>8. CASE AddParticipant(w)
  <2>1. workers[w].left # <<>> /\ UNCHANGED <<matched, runs, rated, canonical>>
    BY <1>0, <1>8 DEF AddParticipant, WorkerTyped, Storing
  <2>2. AnalysisOf(w)'
    BY <1>0, <1>8, <2>1, AddParticipantEffect DEF AnalysisOf
  <2> QED BY <1>1, <2>1, <2>2
<1>9. CASE Begin(w)
  <2>1. /\ workers[w].demo \in Demos /\ UNCHANGED <<matched, rated, canonical>>
        /\ Go(w, "persist") \/ Go(w, "fail")
    BY <1>0, <1>9 DEF Begin, WorkerTyped
  <2>2. \A d \in Demos, b \in Builds :
          /\ runs[d][b] = "succeeded" => runs'[d][b] = "succeeded"
          /\ runs'[d][b] = "succeeded" => runs[d][b] = "succeeded"
    BY <1>0, <1>9, <2>1 DEF Begin, CanBegin, TablesTyped
  <2>3. AnalysisOf(w)'
    BY <1>0, <2>1, GoEffect DEF Stages, AnalysisOf
  <2>4. AnalysesStay /\ RowsOk'
    BY <1>0, <2>1, <2>2 DEF AnalysesStay, RowsOk, TablesTyped
  <2> QED BY <2>3, <2>4
<1>10. CASE Store(w) /\ At(w, "persist")
  <2>1. /\ workers[w].demo \in Demos /\ UNCHANGED <<matched, runs, canonical>>
        /\ Go(w, "complete") \/ Go(w, "fail")
    BY <1>0, <1>10 DEF Store, WorkerTyped
  <2>2. \A d \in Demos, b \in Builds : rated[d][b] => rated'[d][b] = rated[d][b]
    BY <1>0, <1>10, <2>1 DEF Store, TablesTyped
  <2>3. AnalysisOf(w)'
    BY <1>0, <2>1, GoEffect DEF Stages, AnalysisOf
  <2>4. AnalysesStay /\ RowsOk'
    BY <1>0, <2>1, <2>2 DEF AnalysesStay, RowsOk, TablesTyped
  <2> QED BY <2>3, <2>4
<1>11. CASE Complete(w)
  <2> DEFINE d == workers[w].demo
  <2>1. /\ d \in Demos /\ d \in matched /\ UNCHANGED <<matched, rated>>
    BY <1>0, <1>11 DEF Complete, WorkerTyped, FileOf, AfterParse, Analysing
  <2>2. CASE rated[d][build]
    <3>1. /\ runs' = [runs EXCEPT ![d][build] = "succeeded"]
          /\ canonical' = [canonical EXCEPT ![d] = build] /\ Go(w, "reconcile")
      BY <1>11, <2>2 DEF Complete, CanComplete
    <3>2. build \in Builds /\ build # None
      BY <1>0, PipelineAssumption DEF TablesTyped
    <3>3. workers'[w].demo = d
      BY <1>0, <3>1, GoEffect DEF Stages, Kept
    <3> HIDE DEF d
    <3>4. AnalysesStay /\ RowsOk'
      BY <1>0, <2>1, <2>2, <3>1, <3>2 DEF AnalysesStay, RowsOk, TablesTyped
    <3>5. AnalysisOf(w)'
      BY <1>0, <2>1, <3>1, <3>2, <3>3 DEF AnalysisOf, TablesTyped
    <3> QED BY <3>4, <3>5
  <2>3. CASE ~rated[d][build]
    <3>1. UNCHANGED <<runs, canonical>> /\ Go(w, "fail")
      BY <1>11, <2>3 DEF Complete, CanComplete
    <3>2. AnalysisOf(w)'
      BY <1>0, <3>1, GoEffect DEF Stages, AnalysisOf
    <3> QED BY <1>1, <2>1, <3>1, <3>2
  <2> QED BY <2>2, <2>3
<1>12. CASE Reconcile(w)
  <2>1. UNCHANGED <<matched, runs, rated, canonical>> /\ workers[w].at = "reconcile"
    BY <1>12 DEF Reconcile
  <2>2. workers'[w].demo = workers[w].demo
    BY ONLY Typed, w \in Workers, <1>12, AnalysingEffect
  <2> QED BY <1>0, <1>1, <2>1, <2>2 DEF AnalysisOf
<1> QED BY <1>2, <1>3, <1>4, <1>5, <1>6, <1>7, <1>8, <1>9, <1>10, <1>11, <1>12, StepCases

(* Calls on the jobs, an upgrade and time touch none of the other tables.   *)
LEMMA OtherStepKeepsTables ==
  ASSUME [Next]_vars, ~\E w \in Workers : Step(w)
  PROVE  UNCHANGED <<workers, artifact, matched, players, participants, runs, rated, canonical,
                     decided, interrupted, misread>>
BY DEF Next, Upgrade, Cancel, Retry, RecoverExpired, Tick, vars, rest, matchTables, runTables,
       history

LEMMA AnalysisStep ==
  ASSUME Typed, FileInv, AnalysisInv, [Next]_vars
  PROVE  AnalysisInv' /\ AnalysesStay
<1>1. ASSUME NEW w \in Workers, Step(w) PROVE AnalysisInv' /\ AnalysesStay
  <2>1. AnalysesStay /\ RowsOk' /\ AnalysisOf(w)' /\ Others(w)
    BY <1>1, StepAnalyses, StepMoves
  <2>2. ASSUME NEW v \in Workers \ {w} PROVE AnalysisOf(v)'
    <3>1. workers'[v] = workers[v] /\ AnalysisOf(v) /\ WorkerTyped(v)
      BY <2>1 DEF Others, AnalysisInv, RowsOk, Typed
    <3> QED BY <2>1, <3>1 DEF AnalysesStay, AnalysisOf, WorkerTyped
  <2> QED BY <2>1, <2>2 DEF AnalysisInv, RowsOk
<1>2. CASE ~\E w \in Workers : Step(w)
  BY <1>2, OtherStepKeepsTables DEF AnalysisInv, RowsOk, AnalysesStay, AnalysisOf
<1> QED BY <1>1, <1>2

(* The third layer                                                          *)
LEMMA AnalysisInductive == Spec => []AnalysisInv
<1>1. Init => AnalysisInv
  BY DEF Init, AnalysisInv, RowsOk, AnalysisOf, Idle
<1>2. Typed /\ FileInv /\ AnalysisInv /\ [Next]_vars => AnalysisInv'
  BY AnalysisStep
<1> QED BY <1>1, <1>2, Typing, FilesInductive, PTL DEF Spec

(* A canonical run has succeeded and has its rating, and its match has the  *)
(* demo file, or an import that could not read the file took it from under  *)
(* the one that stored the match: complete_analysis, its trigger, and       *)
(* quarantine_artifact keep what the dashboard shows complete               *)
(* (CanonicalIsAnalysed).                                                   *)
THEOREM PipelineCanonical == Spec => []CanonicalIsAnalysed
<1>1. Typed /\ FileInv /\ AnalysisInv => CanonicalIsAnalysed
  <2> SUFFICES ASSUME Typed, FileInv, AnalysisInv, NEW d \in Demos, canonical[d] # None
               PROVE  /\ runs[d][canonical[d]] = "succeeded" /\ Availability(d) = "known"
                      /\ d \in matched /\ (artifact[d] = "present" \/ d \in misread)
    BY DEF CanonicalIsAnalysed
  <2>1. canonical[d] \in Builds
    BY DEF Typed, TablesTyped
  <2> QED BY <2>1 DEF FileInv, AnalysisInv, RowsOk, Availability
<1> QED BY <1>1, Typing, FilesInductive, AnalysisInductive, PTL

(* Imports of one demo side by side never begin or rate again an analysis   *)
(* that has succeeded (begin_analysis, the identity of analysis_runs).      *)
THEOREM PipelineAnalysedOnce == Spec => AnalysedOnce
<1>1. Typed /\ FileInv /\ AnalysisInv /\ [Next]_vars =>
        [\A d \in Demos, b \in Builds : runs[d][b] = "succeeded" =>
           runs'[d][b] = "succeeded" /\ rated'[d][b] = rated[d][b]]_vars
  BY AnalysisStep DEF AnalysesStay
<1> QED BY <1>1, Typing, FilesInductive, AnalysisInductive, PTL DEF Spec, AnalysedOnce

-----------------------------------------------------------------------------
(* The job of an import and the decisions of its reconciliation.  Whatever  *)
(* happens to the job, its row keeps naming the demo of the import.         *)
DecisionsOf(w) ==
  /\ workers[w].at \notin {"idle", "enqueue"} =>
       /\ jobs[workers[w].job].demo = workers[w].demo
       /\ jobs[workers[w].job].phase # "absent"
  /\ workers[w].at \notin {"reconcile", "full", "finish", "fail"} => workers[w].next = 1
  /\ workers[w].at = "reconcile" =>
       \A i \in 1..Candidates : i < workers[w].next => i \in decided[workers[w].demo]
  /\ workers[w].at \in {"full", "finish"} => decided[workers[w].demo] = 1..Candidates

DecisionInv ==
  /\ \A d \in Demos : decided[d] \subseteq 1..Candidates
  /\ \A j \in JobIds : jobs[j].phase # "absent" => jobs[j].demo \in Demos
  /\ \A w \in Workers : workers[w].next # 0 /\ DecisionsOf(w)

(* Statements on the job table keep the demo of a row, and give it one.     *)
RowKept(j) ==
  /\ jobs[j].phase # "absent" => jobs'[j].phase # "absent" /\ jobs'[j].demo = jobs[j].demo
  /\ jobs[j].phase = "absent" /\ jobs'[j].phase # "absent" => jobs'[j].demo \in Demos

LEMMA JobRows ==
  ASSUME Jobs!TypeOK, [Jobs!Next]_(Jobs!vars), NEW j \in JobIds
  PROVE  RowKept(j)
<1>0. jobs \in [JobIds -> Jobs!Job]
  BY DEF Jobs!TypeOK
<1> USE DEF RowKept
<1>1. ASSUME NEW i \in JobIds, NEW d \in Demos, Jobs!Enqueue(i, d) PROVE RowKept(j)
  BY <1>0, <1>1 DEF Jobs!Enqueue, Jobs!Job
<1>2. ASSUME NEW i \in JobIds, NEW w \in Workers, Jobs!Lease(i, w, now + LeaseTime)
      PROVE  RowKept(j)
  BY <1>0, <1>2 DEF Jobs!Lease, Jobs!Moved, Jobs!Expired
<1>3. ASSUME NEW i \in JobIds, NEW w \in Workers, NEW p \in Levels, Jobs!Report(i, w, p)
      PROVE  RowKept(j)
  BY <1>0, <1>3 DEF Jobs!Report, Jobs!Job, Jobs!Held
<1>4. ASSUME NEW i \in JobIds, NEW w \in Workers, NEW p \in Jobs!Final, Jobs!Finish(i, w, p)
      PROVE  RowKept(j)
  BY <1>0, <1>4 DEF Jobs!Finish, Jobs!Moved, Jobs!Final, Jobs!Held
<1>5. ASSUME NEW i \in JobIds, Jobs!Retry(i) PROVE RowKept(j)
  BY <1>0, <1>5 DEF Jobs!Retry, Jobs!Moved
<1>6. CASE Jobs!RecoverExpired
  BY <1>0, <1>6 DEF Jobs!RecoverExpired, Jobs!Moved, Jobs!Expired
<1>7. CASE Jobs!Tick \/ UNCHANGED Jobs!vars
  BY <1>7 DEF Jobs!Tick, Jobs!vars
<1> QED BY <1>1, <1>2, <1>3, <1>4, <1>5, <1>6, <1>7 DEF Jobs!Next

(* Only an import that finishes makes its job succeed.                      *)
LEMMA NewSuccess ==
  ASSUME Typed, Jobs!TypeOK, [Next]_vars, NEW j \in JobIds,
         jobs'[j].phase = "succeeded", jobs[j].phase # "succeeded"
  PROVE  \E w \in Workers : Finish(w) /\ At(w, "finish") /\ j = JobOf(w)
<1> USE DEF tables, rest
<1>0. jobs \in [JobIds -> Jobs!Job] /\ jobs' # jobs
  BY DEF Jobs!TypeOK
<1>1. ASSUME NEW i \in JobIds, NEW w \in Workers, NEW p,
             \/ Jobs!Report(i, w, p) \/ Jobs!Lease(i, w, p)
             \/ p \in {"failed", "cancelled"} /\ Jobs!Finish(i, w, p)
             \/ p \in Demos /\ Jobs!Enqueue(i, p)
      PROVE  FALSE
  <2>1. CASE Jobs!Report(i, w, p)
    BY <1>0, <2>1 DEF Jobs!Report, Jobs!Job
  <2>2. CASE Jobs!Lease(i, w, p)
    BY <1>0, <2>2 DEF Jobs!Lease, Jobs!Moved
  <2>3. CASE p \in {"failed", "cancelled"} /\ Jobs!Finish(i, w, p)
    BY <1>0, <2>3 DEF Jobs!Finish, Jobs!Moved
  <2>4. CASE p \in Demos /\ Jobs!Enqueue(i, p)
    BY <1>0, <2>4 DEF Jobs!Enqueue, Jobs!Job
  <2> QED BY <1>1, <2>1, <2>2, <2>3, <2>4
<1>2. ASSUME NEW w \in Workers, Step(w) PROVE Finish(w) /\ At(w, "finish") /\ j = JobOf(w)
  <2>0. /\ workers[w].at # "idle" => Demo(w) \in Demos
        /\ workers[w].at \notin {"idle", "enqueue"} => JobOf(w) \in JobIds
    BY DEF Typed, WorkerTyped, Demo, JobOf
  <2>1. CASE Enqueue(w) \/ Lease(w)
    BY <1>1, <2>0, <2>1 DEF Enqueue, Lease, At
  <2>2. CASE Start(w) \/ Parsed(w) \/ Full(w)
    BY <1>0, <1>1, <2>0, <2>2 DEF Start, Parsed, Full, At
  <2>3. CASE Progress(w)
    BY <1>0, <1>1, <2>0, <2>3 DEF Progress, At
  <2>4. CASE Fail(w)
    BY <1>0, <1>1, <2>0, <2>4 DEF Fail, At
  <2>5. CASE Finish(w)
    <3>1. Jobs!Finish(JobOf(w), w, "succeeded") /\ At(w, "finish")
      BY <1>0, <2>5 DEF Finish
    <3> QED BY <1>0, <2>5, <3>1 DEF Jobs!Finish
  <2>6. CASE (\E d \in Demos : Import(w, d)) \/ Parse(w) \/ Quarantine(w) \/ Dedupe(w)
             \/ Match(w) \/ UpsertPlayer(w) \/ AddParticipant(w) \/ Begin(w)
    BY <1>0, <2>6 DEF Import, Parse, Quarantine, Dedupe, Match, UpsertPlayer, AddParticipant,
                      Begin
  <2>7. CASE Store(w) \/ Complete(w) \/ Reconcile(w) \/ ReadFails(w) \/ CallFails(w) \/ Crash(w)
    BY <1>0, <2>7 DEF ReadFails, Store, Complete, Reconcile, CallFails, Crash
  <2> QED BY <1>2, <2>1, <2>2, <2>3, <2>4, <2>5, <2>6, <2>7
          DEF Step, PersistAvailable, PersistUnavailable
<1>3. ASSUME NEW i \in JobIds, Cancel(i) \/ Retry(i) PROVE FALSE
  BY <1>0, <1>1, <1>3 DEF Cancel, Retry, Jobs!Retry, Jobs!Moved
<1>4. CASE RecoverExpired \/ Tick
  <2>1. CASE Jobs!RecoverExpired
    BY <1>0, <2>1 DEF Jobs!RecoverExpired, Jobs!Moved
  <2> QED BY <1>0, <1>4, <2>1 DEF RecoverExpired, Tick, Jobs!Tick
<1>5. CASE Upgrade \/ UNCHANGED vars
  BY <1>0, <1>5 DEF Upgrade, vars
<1> QED BY <1>2, <1>3, <1>4, <1>5 DEF Next

(* What a step may do to the decisions and the jobs of the others           *)
DecisionsStay ==
  /\ \A d \in Demos : decided[d] \subseteq decided'[d] /\ decided'[d] \subseteq 1..Candidates
  /\ \A j \in JobIds : RowKept(j)

(* The decisions of a demo only grow, in the order of the candidates.       *)
LEMMA StepDecisions ==
  ASSUME Typed, Jobs!TypeOK, DecisionInv, NEW w \in Workers, Step(w)
  PROVE  DecisionsStay /\ workers'[w].next # 0 /\ DecisionsOf(w)'
<1> USE DEF At, Demo, matchTables, runTables, rest
<1>0. /\ workers \in [Workers -> Worker] /\ WorkerTyped(w) /\ DecisionsOf(w) /\ workers[w].next # 0
      /\ decided \in [Demos -> SUBSET Nat] /\ \A d \in Demos : decided[d] \subseteq 1..Candidates
      /\ workers[w].next \in Nat /\ Candidates \in Nat
  BY Fields, PipelineAssumption DEF Typed, TablesTyped, DecisionInv
<1>rows. \A j \in JobIds : RowKept(j)
  BY JobRows, StepImplements DEF Next
<1>1. \A j \in JobIds : jobs[j].phase # "absent" =>
        jobs'[j].phase # "absent" /\ jobs'[j].demo = jobs[j].demo
  BY <1>rows DEF RowKept
<1>2. ASSUME UNCHANGED decided PROVE DecisionsStay
  BY <1>0, <1>rows, <1>2 DEF DecisionsStay
<1>3. ASSUME UNCHANGED decided, workers[w].at \notin {"idle", "enqueue"},
             workers'[w].demo = workers[w].demo, workers'[w].job = workers[w].job,
             workers'[w].next = workers[w].next,
             \/ workers'[w].at = "fail"
             \/ /\ workers[w].at \notin {"reconcile", "full", "finish", "fail"}
                /\ workers'[w].at \notin {"full", "finish"}
             \/ workers[w].at = "full" /\ workers'[w].at = "finish"
      PROVE  DecisionsStay /\ workers'[w].next # 0 /\ DecisionsOf(w)'
  BY <1>0, <1>1, <1>2, <1>3 DEF DecisionsOf, WorkerTyped
<1>4. ASSUME UNCHANGED decided, workers'[w] = Idle
      PROVE  DecisionsStay /\ workers'[w].next # 0 /\ DecisionsOf(w)'
  BY <1>2, <1>4 DEF DecisionsOf, Idle
<1>5. CASE Enqueue(w)
  <2>1. PICK j \in JobIds : /\ Jobs!Enqueue(j, Demo(w))
                            /\ workers' = [workers EXCEPT ![w].at = "lease", ![w].job = j]
    BY <1>5 DEF Enqueue
  <2>2. /\ workers'[w].at = "lease" /\ workers'[w].job = j
        /\ workers'[w].demo = workers[w].demo /\ workers'[w].next = workers[w].next
    BY <1>0, <2>1, EnqueueEffect
  <2>3. jobs'[j].demo = workers[w].demo /\ jobs'[j].phase = "queued"
    <3>1. jobs \in [JobIds -> Jobs!Job]
      BY DEF Jobs!TypeOK
    <3> QED BY <2>1, <3>1 DEF Jobs!Enqueue, Jobs!Job
  <2>4. workers[w].at = "enqueue" /\ UNCHANGED decided
    BY <1>5 DEF Enqueue
  <2> QED BY <1>0, <1>2, <2>2, <2>3, <2>4 DEF DecisionsOf
<1>6. CASE Quiet(w) /\ ~Enqueue(w)
  <2>1. Quietly(w) /\ UNCHANGED decided
    BY <1>6, QuietSteps
  <2>2. workers[w].at # "enqueue" \/ workers'[w] = Idle
    <3>1. workers[w].at = "enqueue" => workers' = [workers EXCEPT ![w] = Idle]
      BY <1>6 DEF Quiet, Lease, Start, Progress, Parsed, Full, Finish, Fail, ReadFails, CallFails,
                  Crash
    <3> QED BY <1>0, <3>1, IdleType, Takes
  <2> QED BY <1>3, <1>4, <2>1, <2>2 DEF Quietly, QuietEdges
<1>7. ASSUME NEW d \in Demos, Import(w, d)
      PROVE  DecisionsStay /\ workers'[w].next # 0 /\ DecisionsOf(w)'
  <2>1. /\ UNCHANGED decided /\ workers[w].at = "idle" /\ workers'[w].at = "enqueue"
        /\ workers'[w].next = workers[w].next
    BY <1>0, <1>7, ImportEffect DEF Import
  <2> QED BY <1>0, <1>2, <2>1 DEF DecisionsOf
<1>8. CASE Parse(w)
  <2>1. /\ UNCHANGED decided /\ workers[w].at = "parse"
        /\ workers'[w].at \in {"fail", "quarantine", "parsed"}
        /\ workers'[w].demo = workers[w].demo /\ workers'[w].job = workers[w].job
        /\ workers'[w].next = workers[w].next
    BY <1>0, <1>8, ParseEffect DEF Parse, ParseOutcome, Kept
  <2> QED BY <1>3, <2>1
<1>9. CASE Dedupe(w)
  <2>1. UNCHANGED decided /\ workers[w].at = "dedupe"
    BY <1>9 DEF Dedupe
  <2>2. /\ workers'[w].demo = workers[w].demo /\ workers'[w].job = workers[w].job
        /\ workers'[w].next = workers[w].next
        /\ workers'[w].at \in {"reconcile", "begin", "match"}
    BY <1>0, <1>9, <2>1, DedupeEffect DEF WorkerTyped
  <2> QED BY <1>3, <2>1, <2>2
<1>10. CASE AddParticipant(w)
  <2>1. UNCHANGED decided /\ workers[w].at = "participant" /\ workers[w].left # <<>>
    BY <1>0, <1>10 DEF AddParticipant, WorkerTyped, Storing
  <2>2. /\ workers'[w].demo = workers[w].demo /\ workers'[w].job = workers[w].job
        /\ workers'[w].next = workers[w].next /\ workers'[w].at \in {"begin", "player"}
    BY <1>0, <1>10, <2>1, AddParticipantEffect
  <2> QED BY <1>3, <2>1, <2>2
<1>11. CASE \/ Quarantine(w) \/ Match(w) \/ UpsertPlayer(w) \/ Begin(w)
            \/ (At(w, "persist") /\ Store(w)) \/ Complete(w)
  <2>1. /\ UNCHANGED decided
        /\ workers[w].at \in {"quarantine", "unread", "match", "player", "begin", "persist",
                             "complete"}
    BY <1>11 DEF Quarantine, Match, UpsertPlayer, Begin, Store, Complete
  <2>2. \E s \in {"fail", "player", "participant", "persist", "complete", "reconcile"} : Go(w, s)
    BY <1>11 DEF Quarantine, Match, UpsertPlayer, Begin, Store, Complete
  <2>3. /\ workers'[w].demo = workers[w].demo /\ workers'[w].job = workers[w].job
        /\ workers'[w].next = workers[w].next
        /\ workers'[w].at \in {"fail", "player", "participant", "persist", "complete", "reconcile"}
    BY <1>0, <2>2, GoEffect DEF Stages, Kept
  <2> QED BY <1>3, <2>1, <2>3
<1>12. CASE Reconcile(w)
  <2> DEFINE d == workers[w].demo
             n == workers[w].next
  <2>0. workers[w].at = "reconcile" /\ d \in Demos /\ workers[w].job \in JobIds
    BY <1>0, <1>12 DEF Reconcile, WorkerTyped
  <2>1. CASE n <= Candidates
    <3>1. /\ decided' = [decided EXCEPT ![d] = @ \cup {n}]
          /\ workers' = [workers EXCEPT ![w].next = @ + 1]
      BY <1>12, <2>1 DEF Reconcile
    <3>2. /\ workers'[w].demo = d /\ workers'[w].job = workers[w].job
          /\ workers'[w].at = "reconcile" /\ workers'[w].next = n + 1
      BY <1>0, <2>0, <3>1, NextCandidateEffect
    <3>3. n \in 1..Candidates
      BY <1>0, <2>1
    <3> HIDE DEF d, n
    <3>4. DecisionsStay
      BY <1>0, <1>rows, <2>0, <3>1, <3>3 DEF DecisionsStay
    <3>5. \A i \in 1..Candidates : i < n + 1 => i \in decided'[d]
      <4>1. \A i \in 1..Candidates : i < n => i \in decided[d]
        BY <1>0, <2>0 DEF DecisionsOf, d, n
      <4>2. \A i \in 1..Candidates : i < n + 1 => i < n \/ i = n
        BY <3>3
      <4> QED BY <1>0, <2>0, <3>1, <4>1, <4>2
    <3>6. jobs'[workers'[w].job].demo = d /\ jobs'[workers'[w].job].phase # "absent"
      BY <1>0, <1>1, <2>0, <3>2 DEF DecisionsOf, d
    <3> QED BY <3>2, <3>3, <3>4, <3>5, <3>6 DEF DecisionsOf
  <2>2. CASE ~(n <= Candidates)
    <3>1. UNCHANGED decided /\ (Go(w, "finish") \/ Go(w, "full"))
      BY <1>12, <2>2 DEF Reconcile
    <3>2. /\ workers'[w].demo = d /\ workers'[w].job = workers[w].job
          /\ workers'[w].at \in {"full", "finish"} /\ workers'[w].next = n
      BY <1>0, <3>1, GoEffect DEF Stages, Kept
    <3>3. \A i \in 1..Candidates : i < n
      BY <1>0, <2>2
    <3>4. decided[d] = 1..Candidates
      BY <1>0, <2>0, <3>3 DEF DecisionsOf
    <3>5. jobs'[workers'[w].job].demo = d /\ jobs'[workers'[w].job].phase # "absent"
      BY <1>0, <1>1, <2>0, <3>2 DEF DecisionsOf
    <3> HIDE DEF d, n
    <3>6. n # 0
      BY <1>0 DEF n
    <3> QED BY <1>2, <3>1, <3>2, <3>4, <3>5, <3>6 DEF DecisionsOf
  <2> QED BY <2>1, <2>2
<1> QED BY <1>5, <1>6, <1>7, <1>8, <1>9, <1>10, <1>11, <1>12, StepCases

LEMMA DecisionStep ==
  ASSUME Typed, Jobs!TypeOK, DecisionInv, [Next]_vars
  PROVE  DecisionInv' /\ DecisionsStay
<1>0. Typed /\ \A w \in Workers : WorkerTyped(w) /\ DecisionsOf(w) /\ workers[w].next # 0
  BY DEF Typed, DecisionInv
<1>1. ASSUME NEW w \in Workers, Step(w) PROVE DecisionInv' /\ DecisionsStay
  <2>1. DecisionsStay /\ workers'[w].next # 0 /\ DecisionsOf(w)' /\ Others(w)
    BY <1>1, StepDecisions, StepMoves
  <2>2. ASSUME NEW v \in Workers, v # w PROVE workers'[v].next # 0 /\ DecisionsOf(v)'
    <3>1. workers'[v] = workers[v] /\ DecisionsOf(v) /\ WorkerTyped(v)
      BY <1>0, <2>1, <2>2 DEF Others
    <3> QED BY <1>0, <2>1, <3>1 DEF DecisionsStay, RowKept, DecisionsOf, WorkerTyped
  <2>3. /\ \A d \in Demos : decided'[d] \subseteq 1..Candidates
        /\ \A j \in JobIds : jobs'[j].phase # "absent" => jobs'[j].demo \in Demos
    BY <2>1 DEF DecisionsStay, RowKept, DecisionInv
  <2> QED BY <2>1, <2>2, <2>3 DEF DecisionInv
<1>2. CASE ~\E w \in Workers : Step(w)
  <2>1. \A j \in JobIds : RowKept(j)
    BY JobRows, StepImplements
  <2>2. UNCHANGED <<workers, decided>>
    BY <1>2, OtherStepKeepsTables
  <2>3. \A w \in Workers : DecisionsOf(w)'
    BY <1>0, <2>1, <2>2 DEF DecisionsOf, WorkerTyped, RowKept
  <2> QED BY <2>1, <2>2, <2>3 DEF DecisionsStay, RowKept, DecisionInv
<1> QED BY <1>1, <1>2

(* The fourth layer                                                         *)
LEMMA DecisionsInductive == Spec => []DecisionInv
<1>1. Init => DecisionInv
  BY DEF Init, DecisionInv, DecisionsOf, Idle, Jobs!Init, Jobs!NoJob
<1>2. Typed /\ Jobs!TypeOK /\ DecisionInv /\ [Next]_vars => DecisionInv'
  BY DecisionStep
<1> QED BY <1>1, <1>2, Typing, PipelineAttempts, PTL DEF Spec

(* A job that has succeeded left a canonical analysis, and every candidate  *)
(* of its demo decided, even when the job changed hands on the way: only    *)
(* finish_import by the holder makes it succeed, after the reconciliation   *)
(* (SucceededImportIsComplete).                                             *)
THEOREM PipelineSucceeded == Spec => []SucceededImportIsComplete
<1>1. Init => SucceededImportIsComplete
  BY DEF Init, SucceededImportIsComplete, Jobs!Init, Jobs!NoJob
<1>2. ASSUME Typed, Jobs!TypeOK, FileInv, AnalysisInv, DecisionInv, [Next]_vars,
             SucceededImportIsComplete, NEW j \in JobIds, jobs'[j].phase = "succeeded"
      PROVE  canonical'[jobs'[j].demo] # None /\ decided'[jobs'[j].demo] = 1..Candidates
  <2>1. AnalysesStay /\ DecisionsStay
    BY <1>2, AnalysisStep, DecisionStep
  <2>2. CASE jobs[j].phase = "succeeded"
    <3>1. /\ jobs'[j].demo = jobs[j].demo
          /\ canonical[jobs[j].demo] # None /\ decided[jobs[j].demo] = 1..Candidates
      BY <1>2, <2>1, <2>2 DEF DecisionsStay, RowKept, SucceededImportIsComplete
    <3>2. jobs[j].demo \in Demos
      BY <1>2, <2>2 DEF DecisionInv
    <3> QED BY <2>1, <3>1, <3>2 DEF AnalysesStay, DecisionsStay
  <2>3. CASE jobs[j].phase # "succeeded"
    <3>1. PICK w \in Workers : Finish(w) /\ At(w, "finish") /\ j = JobOf(w)
      BY <1>2, <2>3, NewSuccess
    <3>2. /\ jobs[j].demo = workers[w].demo /\ jobs[j].phase # "absent"
          /\ canonical[workers[w].demo] # None /\ decided[workers[w].demo] = 1..Candidates
          /\ workers[w].demo \in Demos
      BY <1>2, <3>1 DEF At, JobOf, DecisionInv, DecisionsOf, AnalysisInv,
                        RowsOk, AnalysisOf, Typed, WorkerTyped
    <3> QED BY <2>1, <3>2 DEF AnalysesStay, DecisionsStay, RowKept
  <2> QED BY <2>2, <2>3
<1>3. Typed /\ Jobs!TypeOK /\ FileInv /\ AnalysisInv /\ DecisionInv /\ [Next]_vars
        /\ SucceededImportIsComplete => SucceededImportIsComplete'
  BY <1>2 DEF SucceededImportIsComplete
<1> QED BY <1>1, <1>3, Typing, PipelineAttempts, FilesInductive, AnalysisInductive,
           DecisionsInductive, PTL DEF Spec

-----------------------------------------------------------------------------
(* The participants.  Until a roster is stored somebody is storing the rest *)
(* of it, or was interrupted.                                               *)
Storer(w, d) ==
  /\ workers[w].at \in Storing /\ workers[w].demo = d
  /\ Names(d) \subseteq participants[d] \cup In(workers[w].left)

RosterInv ==
  /\ \A d \in Demos : participants[d] \subseteq Names(d)
  /\ \A d \in Demos \ matched : participants[d] = {}
  /\ \A d \in matched \ interrupted : participants[d] = Names(d) \/ \E w \in Workers : Storer(w, d)
  /\ \A w \in Workers : workers[w].at \in Storing =>
       In(workers[w].left) \subseteq Names(workers[w].demo)

(* A worker that does not store or stops to, and leaves the tables alone    *)
LEMMA RosterLeft ==
  ASSUME Typed, RosterInv, NEW w \in Workers, Others(w), UNCHANGED <<participants, matched>>,
         interrupted \subseteq interrupted', workers'[w].at \notin Storing,
         workers[w].at \in Storing => workers[w].demo \in interrupted'
  PROVE  RosterInv'
<1>1. ASSUME NEW d \in matched \ interrupted', participants[d] # Names(d)
      PROVE  \E v \in Workers : Storer(v, d)'
  <2>1. PICK v \in Workers : Storer(v, d)
    BY <1>1 DEF RosterInv
  <2>2. v # w /\ workers'[v] = workers[v]
    BY <1>1, <2>1 DEF Storer, Others
  <2> QED BY <2>1, <2>2 DEF Storer
<1>2. ASSUME NEW v \in Workers, workers'[v].at \in Storing
      PROVE  In(workers'[v].left) \subseteq Names(workers'[v].demo)
  BY <1>2 DEF RosterInv, Others
<1> QED BY <1>1, <1>2 DEF RosterInv

LEMMA NothingIn == In(<<>>) = {}
BY DEF In

(* add_match_participant moves the head of the list into the table.         *)
LEMMA StoringStep ==
  ASSUME Typed, FileInv, RosterInv, NEW w \in Workers, AddParticipant(w)
  PROVE  RosterInv'
<1> DEFINE d == workers[w].demo
           s == workers[w].left
<1>0. /\ workers \in [Workers -> Worker] /\ WorkerTyped(w) /\ s \in Seq(Players)
      /\ participants \in [Demos -> SUBSET Players]
      /\ workers[w].at = "participant" /\ d \in Demos /\ s # <<>>
  BY Fields DEF Typed, TablesTyped, WorkerTyped, AddParticipant, At, Storing
<1>1. /\ Others(w) /\ workers'[w].demo = d /\ workers'[w].left = Tail(s)
      /\ workers'[w].at = IF Len(s) = 1 THEN "begin" ELSE "player"
  BY <1>0, AddParticipantEffect
<1>2. /\ In(s) = {Head(s)} \cup In(Tail(s)) /\ (Len(s) = 1 <=> Tail(s) = <<>>)
      /\ In(s) \subseteq Names(d)
  BY <1>0, HeadThenTail DEF RosterInv, Storing
<1>3. /\ participants' = [participants EXCEPT ![d] = @ \cup {Head(s)}]
      /\ UNCHANGED <<matched, interrupted>>
  BY DEF AddParticipant, Demo, history
<1> HIDE DEF d, s
<1>4. /\ participants'[d] = participants[d] \cup {Head(s)}
      /\ \A e \in Demos : participants[e] \subseteq participants'[e]
      /\ \A e \in Demos \ {d} : participants'[e] = participants[e]
      /\ \A e \in Demos : participants'[e] \subseteq Names(e)
  BY <1>0, <1>2, <1>3 DEF RosterInv
<1>5. ASSUME NEW e \in matched \ interrupted
      PROVE  participants'[e] = Names(e) \/ \E v \in Workers : Storer(v, e)'
  <2>0. e \in Demos
    BY DEF Typed, TablesTyped
  <2>1. CASE participants[e] = Names(e)
    BY <1>4, <2>0, <2>1
  <2>2. ASSUME NEW v \in Workers, v # w, Storer(v, e) PROVE Storer(v, e)'
    BY <1>1, <1>4, <2>0, <2>2 DEF Storer, Others
  <2>3. CASE Storer(w, e)
    <3>1. e = d /\ Names(d) \subseteq participants'[d] \cup In(Tail(s))
      BY <1>2, <1>4, <2>3 DEF Storer, d, s
    <3>2. CASE Len(s) = 1
      BY <1>2, <1>4, <2>0, <3>1, <3>2, NothingIn
    <3>3. CASE Len(s) # 1
      BY <1>1, <3>1, <3>3 DEF Storer, Storing
    <3> QED BY <3>2, <3>3
  <2> QED BY <2>1, <2>2, <2>3 DEF RosterInv
<1>6. ASSUME NEW v \in Workers, workers'[v].at \in Storing
      PROVE  In(workers'[v].left) \subseteq Names(workers'[v].demo)
  <2>1. CASE v = w
    BY <1>1, <1>2, <2>1
  <2>2. CASE v # w
    BY <1>1, <1>6, <2>2 DEF Others, RosterInv
  <2> QED BY <2>1, <2>2
<1>7. ASSUME NEW e \in Demos \ matched PROVE participants'[e] = {}
  <2>1. d \in matched
    BY <1>0 DEF FileInv, FileOf, AfterParse, Analysing, d
  <2> QED BY <1>4, <2>1 DEF RosterInv
<1> QED BY <1>3, <1>4, <1>5, <1>6, <1>7 DEF RosterInv

LEMMA RosterStep ==
  ASSUME Typed, FileInv, RosterInv, NEW w \in Workers, Step(w)
  PROVE  RosterInv'
<1> USE DEF At, Demo, matchTables, runTables, rest, history
<1>0. workers \in [Workers -> Worker] /\ WorkerTyped(w) /\ Others(w)
  BY StepMoves DEF Typed
<1>1. ASSUME UNCHANGED <<participants, matched, interrupted>>, workers'[w].at \notin Storing,
             workers[w].at \notin Storing
      PROVE  RosterInv'
  BY <1>0, <1>1, RosterLeft
<1>2. CASE Quiet(w)
  <2>1. Quietly(w) /\ UNCHANGED <<participants, matched>>
    BY <1>2, QuietSteps
  <2>2. workers'[w].at \notin Storing
    BY <2>1 DEF Quietly, QuietEdges, Idle, Storing
  <2>3. /\ interrupted \subseteq interrupted'
        /\ workers[w].at \in Storing => workers[w].demo \in interrupted'
    <3>1. CASE CallFails(w) \/ Crash(w)
      BY <3>1 DEF CallFails, Crash, Interruption
    <3>2. CASE Enqueue(w) \/ Lease(w) \/ Start(w) \/ Progress(w) \/ Parsed(w)
      BY <3>2 DEF Enqueue, Lease, Start, Progress, Parsed, Storing
    <3>3. CASE Full(w) \/ Finish(w) \/ Fail(w) \/ ReadFails(w)
      BY <3>3 DEF Full, Finish, Fail, ReadFails, Storing
    <3> QED BY <1>2, <3>1, <3>2, <3>3 DEF Quiet
  <2> QED BY <1>0, <2>1, <2>2, <2>3, RosterLeft
<1>3. ASSUME NEW d \in Demos, Import(w, d) PROVE RosterInv'
  <2>1. UNCHANGED <<participants, matched, interrupted>> /\ workers[w].at = "idle"
        /\ workers'[w].at = "enqueue"
    BY <1>0, <1>3, ImportEffect DEF Import
  <2> QED BY <1>1, <2>1 DEF Storing
<1>4. CASE Parse(w)
  <2>1. UNCHANGED <<participants, matched, interrupted>> /\ workers[w].at = "parse"
        /\ workers'[w].at \in {"fail", "quarantine", "parsed"}
    BY <1>0, <1>4, ParseEffect DEF Parse, ParseOutcome
  <2> QED BY <1>1, <2>1 DEF Storing
<1>5. CASE Dedupe(w)
  <2>1. UNCHANGED <<participants, matched, interrupted>> /\ workers[w].at = "dedupe"
    BY <1>5 DEF Dedupe
  <2>2. workers'[w].at \in {"reconcile", "begin", "match"}
    BY <1>0, <1>5, <2>1, DedupeEffect DEF WorkerTyped
  <2> QED BY <1>1, <2>1, <2>2 DEF Storing
<1>6. CASE Quarantine(w) \/ Begin(w) \/ (At(w, "persist") /\ Store(w)) \/ Complete(w)
  <2>1. /\ UNCHANGED <<participants, matched, interrupted>>
        /\ workers[w].at \in {"quarantine", "unread", "begin", "persist", "complete"}
    BY <1>6 DEF Quarantine, Begin, Store, Complete
  <2>2. \E s \in {"fail", "persist", "complete", "reconcile"} : Go(w, s)
    BY <1>6 DEF Quarantine, Begin, Store, Complete
  <2>3. workers'[w].at \in {"fail", "persist", "complete", "reconcile"}
    BY <1>0, <2>2, GoEffect DEF Stages
  <2> QED BY <1>1, <2>1, <2>3 DEF Storing
<1>7. CASE Reconcile(w)
  <2>1. /\ UNCHANGED <<participants, matched, interrupted>> /\ workers[w].at = "reconcile"
        /\ \/ Go(w, "finish") \/ Go(w, "full")
           \/ workers' = [workers EXCEPT ![w].next = @ + 1]
    BY <1>7 DEF Reconcile
  <2>2. workers'[w].at \in {"finish", "full", "reconcile"}
    BY <1>0, <2>1, GoEffect, NextCandidateEffect DEF Stages
  <2> QED BY <1>1, <2>1, <2>2 DEF Storing
<1>8. CASE AddParticipant(w)
  BY <1>8, StoringStep
<1>9. CASE UpsertPlayer(w)
  <2>1. /\ UNCHANGED <<participants, matched, interrupted>> /\ workers[w].at = "player"
        /\ workers'[w].at = "participant" /\ workers'[w].demo = workers[w].demo
        /\ workers'[w].left = workers[w].left
    BY <1>0, <1>9, GoEffect DEF UpsertPlayer, Stages, Kept
  <2>2. \A v \in Workers, d \in Demos : Storer(v, d) => Storer(v, d)'
    BY <1>0, <2>1 DEF Storer, Storing, Others
  <2>3. \A v \in Workers : workers'[v].at \in Storing =>
          In(workers'[v].left) \subseteq Names(workers'[v].demo)
    BY <1>0, <2>1 DEF RosterInv, Storing, Others
  <2>4. \A d \in matched : d \in Demos
    BY DEF Typed, TablesTyped
  <2> QED BY <2>1, <2>2, <2>3, <2>4 DEF RosterInv
<1>10. CASE Match(w)
  <2>0. PICK d \in Demos : workers[w].demo = d
    BY <1>0, <1>10 DEF Match, WorkerTyped
  <2>1. /\ UNCHANGED <<participants, interrupted>> /\ workers[w].at = "match"
        /\ matched' = matched \cup {d} /\ workers[w].left = Roster[d]
    BY <1>0, <1>10, <2>0 DEF Match, WorkerTyped
  <2>2. CASE d \in matched
    <3>1. Go(w, "fail")
      BY <1>10, <2>0, <2>2 DEF Match, CanInsertMatch, HasMatch
    <3>2. workers'[w].at = "fail" /\ matched' = matched
      BY <1>0, <2>1, <2>2, <3>1, GoEffect DEF Stages
    <3> QED BY <1>1, <2>1, <3>2 DEF Storing
  <2>3. CASE d \notin matched
    <3>1. Go(w, "player")
      BY <1>10, <2>0, <2>3 DEF Match, CanInsertMatch, HasMatch
    <3>2. /\ workers'[w].at = "player" /\ workers'[w].demo = d
          /\ workers'[w].left = Roster[d]
      BY <1>0, <2>0, <2>1, <3>1, GoEffect DEF Stages, Kept
    <3>3. In(Roster[d]) = Names(d)
      BY DEF In, Names
    <3>4. Storer(w, d)'
      BY <3>2, <3>3 DEF Storer, Storing
    <3>5. \A v \in Workers, e \in Demos : Storer(v, e) => Storer(v, e)'
      BY <1>0, <2>1 DEF Storer, Storing, Others
    <3>6. \A v \in Workers : workers'[v].at \in Storing =>
            In(workers'[v].left) \subseteq Names(workers'[v].demo)
      BY <1>0, <3>2, <3>3 DEF RosterInv, Others
    <3>7. ASSUME NEW e \in matched' \ interrupted
          PROVE  participants[e] = Names(e) \/ \E v \in Workers : Storer(v, e)'
      <4>1. CASE e = d
        BY <3>4, <4>1
      <4>2. CASE e # d
        <5>1. e \in matched \ interrupted /\ e \in Demos
          BY <2>1, <3>7, <4>2 DEF Typed, TablesTyped
        <5> QED BY <3>5, <5>1 DEF RosterInv
      <4> QED BY <4>1, <4>2
    <3>8. \A e \in Demos \ matched' : participants[e] = {}
      BY <2>1 DEF RosterInv
    <3> QED BY <2>1, <3>6, <3>7, <3>8 DEF RosterInv
  <2> QED BY <2>2, <2>3
<1> QED BY <1>2, <1>3, <1>4, <1>5, <1>6, <1>7, <1>8, <1>9, <1>10, StepCases

(* The fifth layer                                                          *)
LEMMA RosterInductive == Spec => []RosterInv
<1>1. Init => RosterInv
  BY DEF Init, RosterInv, Idle, Storing
<1>2. ASSUME Typed, FileInv, RosterInv, [Next]_vars PROVE RosterInv'
  <2>1. CASE ~\E w \in Workers : Step(w)
    <3>1. UNCHANGED <<workers, participants, matched, interrupted>>
      BY <1>2, <2>1, OtherStepKeepsTables
    <3> QED BY <1>2, <3>1 DEF RosterInv, Storer
  <2> QED BY <1>2, <2>1, RosterStep
<1> QED BY <1>1, <1>2, Typing, FilesInductive, PTL DEF Spec

(* A canonical match names everybody the demo does, unless an import was    *)
(* interrupted while it stored them or is storing them still                *)
(* (RosterIsComplete; upsert_player and add_match_participant).             *)
THEOREM PipelineRoster == Spec => []RosterIsComplete
<1>1. Typed /\ AnalysisInv /\ RosterInv => RosterIsComplete
  <2> SUFFICES ASSUME Typed, AnalysisInv, RosterInv, NEW d \in Demos,
                      canonical[d] # None, d \notin interrupted,
                      \A w \in Workers : Demo(w) = d => workers[w].left = <<>>
               PROVE  participants[d] = Names(d)
    BY DEF RosterIsComplete
  <2>1. d \in matched \ interrupted
    BY DEF AnalysisInv, RowsOk
  <2>2. \A w \in Workers : ~Storer(w, d)
    BY DEF Typed, WorkerTyped, Storer, Demo
  <2> QED BY <2>1, <2>2 DEF RosterInv
<1> QED BY <1>1, Typing, AnalysisInductive, RosterInductive, PTL
================================================================================
