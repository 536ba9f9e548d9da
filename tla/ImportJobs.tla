------------------------------ MODULE ImportJobs ------------------------------
(***************************************************************************)
(* The import job table of openfrag-storage: enqueue_import, lease_import, *)
(* update_import_progress, update_parser_progress, finish_import,          *)
(* reset_import_retry and recover_expired_imports, each a single           *)
(* conditional UPDATE, with the triggers that keep import_attempts.  Any   *)
(* caller may issue any of them: this is what the table promises whoever   *)
(* uses it.                                                                *)
(*                                                                         *)
(* Of a job's attempts their number per status is kept: the statements     *)
(* only ever move the running ones.                                        *)
(***************************************************************************)
EXTENDS Naturals

CONSTANTS
  Demos, Owners, JobIds,
  None,         \* SQL NULL
  Levels,       \* progress that is reported, in basis points
  LeaseTime,    \* how far in the future a lease expires
  MaxAttempts,  \* bound on the attempts of a job
  MaxTime       \* bound on the clock

VARIABLES now, jobs, attempts

Final == {"succeeded", "failed", "cancelled"}
Phases == {"absent", "queued", "leased"} \cup Final
Job == [demo : Demos \cup {None}, phase : Phases, owner : Owners \cup {None},
        expires : Nat, progress : Levels \cup {0}]
Attempts == [running : Nat, succeeded : Nat, failed : Nat]
NoJob == [demo |-> None, phase |-> "absent", owner |-> None, expires |-> 0, progress |-> 0]

TypeOK ==
  /\ now \in Nat
  /\ jobs \in [JobIds -> Job]
  /\ attempts \in [JobIds -> Attempts]

Init ==
  /\ now = 0
  /\ jobs = [j \in JobIds |-> NoJob]
  /\ attempts = [j \in JobIds |-> [running |-> 0, succeeded |-> 0, failed |-> 0]]

Held(j, w) == jobs[j].phase = "leased" /\ jobs[j].owner = w
Expired(j) == jobs[j].phase = "leased" /\ jobs[j].expires < now

(* UPDATE import_attempts ... WHERE import_job_id = j AND status = 'running' *)
Settled(a, success) ==
  [running |-> 0,
   succeeded |-> a.succeeded + IF success THEN a.running ELSE 0,
   failed |-> a.failed + IF success THEN 0 ELSE a.running]

(* What the statements set: the status and the lease, the rest is left      *)
Moved(job, phase, owner, expires) ==
  [demo |-> job.demo, phase |-> phase, owner |-> owner, expires |-> expires,
   progress |-> job.progress]

Total(j) == attempts[j].running + attempts[j].succeeded + attempts[j].failed

(* enqueue_import always inserts: the id is fresh and nothing is unique     *)
(* about the demo.                                                         *)
Enqueue(j, d) ==
  /\ jobs[j].phase = "absent"
  /\ jobs' = [jobs EXCEPT ![j].demo = d, ![j].phase = "queued"]
  /\ UNCHANGED <<now, attempts>>

(* lease_import, and the trigger import_attempt_started                     *)
Lease(j, w, expires) ==
  /\ jobs[j].phase = "queued" \/ Expired(j)
  /\ Total(j) < MaxAttempts
  /\ jobs' = [jobs EXCEPT ![j] = Moved(@, "leased", w, expires)]
  /\ attempts' = [attempts EXCEPT ![j] = [Settled(@, FALSE) EXCEPT !.running = 1]]
  /\ UNCHANGED now

(* update_import_progress and update_parser_progress                        *)
Report(j, w, progress) ==
  /\ Held(j, w)
  /\ jobs' = [jobs EXCEPT ![j].progress = progress]
  /\ UNCHANGED <<now, attempts>>

(* finish_import_with_diagnostic, and the trigger import_attempt_finished   *)
Finish(j, w, phase) ==
  /\ phase \in Final
  /\ Held(j, w)
  /\ jobs' = [jobs EXCEPT ![j] = Moved(@, phase, None, 0)]
  /\ attempts' = [attempts EXCEPT ![j] = Settled(@, phase = "succeeded")]
  /\ UNCHANGED now

(* reset_import_retry                                                       *)
Retry(j) ==
  /\ jobs[j].phase \in {"failed", "cancelled"}
  /\ jobs' = [jobs EXCEPT ![j] = Moved(@, "queued", None, 0)]
  /\ UNCHANGED <<now, attempts>>

(* recover_expired_imports, and the trigger import_attempt_interrupted      *)
RecoverExpired ==
  /\ \E j \in JobIds : Expired(j)
  /\ jobs' = [j \in JobIds |->
       IF Expired(j) THEN Moved(jobs[j], "queued", None, 0) ELSE jobs[j]]
  /\ attempts' = [j \in JobIds |->
       IF Expired(j) THEN Settled(attempts[j], FALSE) ELSE attempts[j]]
  /\ UNCHANGED now

Tick ==
  /\ now < MaxTime
  /\ now' = now + 1
  /\ UNCHANGED <<jobs, attempts>>

vars == <<now, jobs, attempts>>

Next ==
  \/ \E j \in JobIds, d \in Demos : Enqueue(j, d)
  \/ \E j \in JobIds, w \in Owners : Lease(j, w, now + LeaseTime)
  \/ \E j \in JobIds, w \in Owners, p \in Levels : Report(j, w, p)
  \/ \E j \in JobIds, w \in Owners, phase \in Final : Finish(j, w, phase)
  \/ \E j \in JobIds : Retry(j)
  \/ RecoverExpired
  \/ Tick

Spec == Init /\ [][Next]_vars
-----------------------------------------------------------------------------
(* A job has a running attempt exactly while it is leased, and a successful *)
(* one exactly when it has succeeded: whatever the order in which leases    *)
(* expire, are taken over, recovered and finished, the append-only record   *)
(* of attempts tells the truth about the job.                               *)
AttemptsFollowLease ==
  \A j \in JobIds :
    /\ attempts[j].running = IF jobs[j].phase = "leased" THEN 1 ELSE 0
    /\ attempts[j].succeeded = IF jobs[j].phase = "succeeded" THEN 1 ELSE 0

(* What has succeeded stays: no late call of a former owner, no retry and   *)
(* no recovery changes a succeeded job or its attempts.                     *)
SuccessIsFinal ==
  [][\A j \in JobIds : jobs[j].phase = "succeeded" =>
        jobs'[j] = jobs[j] /\ attempts'[j] = attempts[j]]_<<jobs, attempts>>

(* A live lease is left alone: while it has not expired, only its owner     *)
(* changes the job, and nobody else becomes its owner.                      *)
LiveLeaseIsExclusive ==
  [][\A j \in JobIds : jobs[j].phase = "leased" /\ ~Expired(j) =>
        jobs'[j].owner \in {jobs[j].owner, None}]_<<jobs, attempts>>
=============================================================================
