------------------------------- MODULE FormalRun -------------------------------
(***************************************************************************)
(* The job table of the quant-domain service and the life of a formal      *)
(* (validating) Run: services/quant-domain/src/quant_domain/domain.py.     *)
(*                                                                         *)
(* Commands queue, cancel and retry Runs; workers (worker.py) claim jobs   *)
(* one at a time, freeze the strategy's intent tape, step the engine from  *)
(* checkpoint to checkpoint, and publish a result.  A claim is a lease     *)
(* that runs out after 30 seconds; a job whose lease has run out is        *)
(* claimed again and resumes from its last durable checkpoint while the    *)
(* worker that lost it may still be computing.                             *)
(*                                                                         *)
(* Every database transaction is one action (BEGIN IMMEDIATE ... COMMIT    *)
(* on one SQLite file); what a worker does outside a transaction (run the  *)
(* strategy host, step the engine) is folded into the action that precedes *)
(* or follows it, because it reads and writes the worker's memory only.    *)
(***************************************************************************)
EXTENDS Naturals, Sequences, FiniteSets

CONSTANTS
    Workers,        \* worker processes polling run_next_job
    RunIds,         \* run_id values; a formal job is known by its run
    ValidationIds,  \* validation_id values a client may reserve
    RunSpecIds,     \* run_spec_id values a client may use
    CandidateIds,   \* merge candidates
    Tapes,          \* intent tapes the strategy host may emit
    VerifyIds,      \* artifact.verify_sha256 jobs (one per captured artifact)
    Stamps,         \* readings of the wall clock (created_at)
    TotalBars,      \* len(units) of the market input
    BatchSize,      \* checkpoint_batch_size
    Malformed,      \* RunSpecs whose market input has the shape the worker checks and
                    \* lacks a field it reads afterwards
    Refused,        \* generated contents that a client has captured under another
                    \* identity (or whose identity has other content)
    MaxFaults,      \* bound: crashes and leases outrun by a live worker
    MaxClaims,      \* bound: claims of one run
    None            \* SQL NULL, Python None, a row that does not exist

Policies == {"m3", "m5"}      \* gate_policy_version; m8-v1 follows the m5-v1 path
Active   == {"pending", "running"}
Terminal == {"succeeded", "failed", "cancelled"}

\* calculation_context_sha256: a hash over the run and the frozen tape; the
\* market input, the engine and the spec are the same for a given run.
Context(r, tape) == <<r, tape>>
Contexts == RunIds \X Tapes

\* What a run generates: a tape, the result (with its manifest) of a calculation, and
\* the checkpoints of a calculation, one per sequence number.
Outputs == Tapes \cup Contexts \cup (Contexts \X Nat)

SpecBodies == [candidate : CandidateIds, policy : Policies]

ASSUME PositiveBars == TotalBars \in Nat \ {0}
ASSUME PositiveBatch == BatchSize \in Nat \ {0}
ASSUME FaultBound == MaxFaults \in Nat
ASSUME ClaimBound == MaxClaims \in Nat
ASSUME UnfitInputs == Malformed \subseteq RunSpecIds
ASSUME UnfitOutputs == Refused \subseteq Outputs
ASSUME ClockReadings == Stamps \subseteq Nat
ASSUME DisjointJobs == RunIds \cap VerifyIds = {}
ASSUME NoneIsNothing ==
    /\ None \notin RunIds \cup VerifyIds \cup ValidationIds \cup RunSpecIds
    /\ None \notin Contexts \cup SpecBodies
    /\ None \notin Active \cup Terminal \cup {"live", "expired"}

VARIABLES
    candidates,         \* [CandidateIds -> absent | current | stale] w.r.t. the heads
    run_specs,          \* immutable RunSpecs: the candidate and gate policy hashed
    jobs,               \* formal.run rows of the jobs table
    verify_jobs,        \* artifact.verify_sha256 rows of the jobs table
    preparations,       \* formal_run_preparations: the frozen context of a run
    checkpoints,        \* formal_run_checkpoints: rows of a run in checkpoint_seq order
    formal_runs,        \* formal_runs: terminal record of a run
    merge_validations,  \* merge_validations: gate outcome per validation
    workers,            \* memory of each worker process
    faults              \* faults so far

vars == <<candidates, run_specs, jobs, verify_jobs, preparations, checkpoints,
          formal_runs, merge_validations, workers, faults>>

Ledger == <<preparations, checkpoints, formal_runs, merge_validations>>

-----------------------------------------------------------------------------
(* Rows and worker memory *)

\* Fault: the last batch is not cut at the end of the market input.
NextCursorPastEnd(n) == n + BatchSize

\* step_engine_checkpoint: the cursor after one batch, cut at the last bar.
NextCursor(n) == IF n + BatchSize < TotalBars THEN n + BatchSize ELSE TotalBars

NoJob == [status |-> None, version |-> 0, epoch |-> 0, token |-> 0, lease |-> None,
          seq |-> 0, next |-> 0, context |-> None,
          spec |-> None, validation |-> None, retry_of |-> None, created |-> 0]

NoResult == [context |-> None, bars |-> 0]
NoRun == [status |-> None, version |-> 0, result |-> NoResult, retry_of |-> None]
NoVerify == [status |-> None, created |-> 0]

IdleWorker == [pc |-> "idle", job |-> None, version |-> 0, epoch |-> 0, token |-> 0,
               context |-> None, adopted |-> FALSE, seq |-> 0, next |-> 0,
               outcome |-> None, fenced |-> FALSE]

Candidate(r) == run_specs[jobs[r].spec].candidate
Policy(r)    == run_specs[jobs[r].spec].policy

Init ==
    /\ candidates = [c \in CandidateIds |-> "absent"]
    /\ run_specs = [s \in RunSpecIds |-> None]
    /\ jobs = [r \in RunIds |-> NoJob]
    /\ verify_jobs = [v \in VerifyIds |-> NoVerify]
    /\ preparations = [r \in RunIds |-> None]
    /\ checkpoints = [r \in RunIds |-> <<>>]
    /\ formal_runs = [r \in RunIds |-> NoRun]
    /\ merge_validations = [v \in ValidationIds |-> None]
    /\ workers = [w \in Workers |-> IdleWorker]
    /\ faults = 0

-----------------------------------------------------------------------------
(* Commands of clients *)

\* The revision graph creates a merge candidate against the current heads ...
CreateCandidate(c) ==
    /\ candidates[c] = "absent"
    /\ candidates' = [candidates EXCEPT ![c] = "current"]
    /\ UNCHANGED <<run_specs, jobs, verify_jobs, Ledger, workers, faults>>

\* ... and moves a head, so that the candidates built on it are out of date.
MoveHeads(outdated) ==
    /\ outdated # {}
    /\ \A c \in outdated : candidates[c] = "current"
    /\ candidates' = [c \in CandidateIds |-> IF c \in outdated THEN "stale" ELSE candidates[c]]
    /\ UNCHANGED <<run_specs, jobs, verify_jobs, Ledger, workers, faults>>

\* Unique indexes over jobs(run_id) and jobs(validation_id).
Unused(r, v) ==
    /\ jobs[r].status = None
    /\ \A q \in RunIds : jobs[q].validation # v

\* Unique index formal_run_job_active_candidate_idx.
CandidateIdle(c) ==
    \A q \in RunIds : jobs[q].status \in Active => Candidate(q) # c

QueuedJob(s, v, source, stamp) ==
    [NoJob EXCEPT !.status = "pending", !.spec = s, !.validation = v,
                  !.retry_of = source, !.created = stamp]

\* formal.run_request: register the RunSpec (or find the same one under that
\* id) and queue a job.  created_at is read before the write lock is taken.
Request(r, v, s, c, p) ==
    LET body == [candidate |-> c, policy |-> p] IN
    /\ candidates[c] = "current"
    /\ CandidateIdle(c)
    /\ Unused(r, v)
    /\ run_specs[s] \in {None, body}
    /\ run_specs' = [run_specs EXCEPT ![s] = body]
    /\ \E stamp \in Stamps :
          jobs' = [jobs EXCEPT ![r] = QueuedJob(s, v, None, stamp)]
    /\ UNCHANGED <<candidates, verify_jobs, Ledger, workers, faults>>

\* formal.run_cancel: the client names the status and the execution version it
\* saw; they still match, so the run ends with no gate run.
Cancel(r, status, version) ==
    LET job == jobs[r] IN
    /\ status \in Active
    /\ job.status = status
    /\ job.version = version
    /\ Policy(r) = "m5"     \* the event contract has no lifecycle for m3-v1
    /\ jobs' = [jobs EXCEPT ![r] = [@ EXCEPT !.status = "cancelled", !.version = version + 1,
                                             !.token = 0, !.lease = None]]
    /\ formal_runs' = [formal_runs EXCEPT ![r] =
           [status |-> "cancelled", version |-> version + 1,
            result |-> NoResult, retry_of |-> job.retry_of]]
    /\ merge_validations' = [merge_validations EXCEPT ![job.validation] =
           [run |-> r, outcome |-> "not_run"]]
    /\ UNCHANGED <<candidates, run_specs, verify_jobs, preparations, checkpoints,
                   workers, faults>>

\* formal.run_retry: a failed or cancelled run is queued again under a new run
\* and validation id and the same RunSpec.  The heads are not looked at.
Retry(source, r, v) ==
    /\ formal_runs[source].status \in {"failed", "cancelled"}
    /\ Policy(source) = "m5"
    /\ CandidateIdle(Candidate(source))
    /\ Unused(r, v)
    /\ \E stamp \in Stamps :
          jobs' = [jobs EXCEPT ![r] = QueuedJob(jobs[source].spec, v, source, stamp)]
    /\ UNCHANGED <<candidates, run_specs, verify_jobs, Ledger, workers, faults>>

\* context.capture queues the verification of the captured artifact.
Capture(v) ==
    /\ verify_jobs[v].status = None
    /\ \E stamp \in Stamps :
          verify_jobs' = [verify_jobs EXCEPT ![v] = [status |-> "pending", created |-> stamp]]
    /\ UNCHANGED <<candidates, run_specs, jobs, Ledger, workers, faults>>

-----------------------------------------------------------------------------
(* run_next_job: claim the oldest job that may run *)

\* Fault: jobs left running by a dead worker are not picked up.
UnleasedNever(r) == FALSE

Unleased(r) == jobs[r].status = "running" /\ jobs[r].lease = "expired"

\* Fault: the claim query forgets that another formal run may be running.
NoFormalRunningUnchecked == TRUE

NoFormalRunning == \A r \in RunIds : jobs[r].status # "running"

ClaimableRuns ==
    {r \in RunIds : \/ jobs[r].status = "pending" /\ NoFormalRunning
                    \/ Unleased(r)}

ClaimableVerifications == {v \in VerifyIds : verify_jobs[v].status = "pending"}

Oldest(stamp) ==
    /\ \A r \in ClaimableRuns : stamp <= jobs[r].created
    /\ \A v \in ClaimableVerifications : stamp <= verify_jobs[v].created

\* Every claim draws a new token; a claim's epoch stands for its UUID.
ClaimRun(w, r) ==
    LET job == jobs[r]
        claimed == [job EXCEPT !.status = "running", !.version = job.version + 1,
                               !.epoch = job.epoch + 1, !.token = job.epoch + 1,
                               !.lease = "live"]
    IN
    /\ workers[w].pc = "idle"
    /\ r \in ClaimableRuns
    /\ Oldest(job.created)
    /\ job.epoch < MaxClaims
    /\ jobs' = [jobs EXCEPT ![r] = claimed]
    /\ workers' = [workers EXCEPT ![w] =
           [IdleWorker EXCEPT !.pc = IF Policy(r) = "m5" THEN "prepare" ELSE "execute",
                              !.job = r, !.version = claimed.version,
                              !.epoch = claimed.epoch, !.token = claimed.token]]
    /\ UNCHANGED <<candidates, run_specs, verify_jobs, Ledger, faults>>

ClaimVerification(w, v) ==
    /\ workers[w].pc = "idle"
    /\ v \in ClaimableVerifications
    /\ Oldest(verify_jobs[v].created)
    /\ verify_jobs' = [verify_jobs EXCEPT ![v].status = "running"]
    /\ workers' = [workers EXCEPT ![w] = [IdleWorker EXCEPT !.pc = "verify", !.job = v]]
    /\ UNCHANGED <<candidates, run_specs, jobs, Ledger, faults>>

\* Fault: a missing blob ends the handler without ending the job.
FinishVerificationUnlessMissing(w) ==
    /\ workers[w].pc = "verify"
    /\ \E status \in {"succeeded", "running"} :
          verify_jobs' = [verify_jobs EXCEPT ![workers[w].job].status = status]
    /\ workers' = [workers EXCEPT ![w] = IdleWorker]
    /\ UNCHANGED <<candidates, run_specs, jobs, Ledger, faults>>

\* The blob is present and has the registered hash and size, or it is not.
FinishVerification(w) ==
    /\ workers[w].pc = "verify"
    /\ \E status \in {"succeeded", "failed"} :
          verify_jobs' = [verify_jobs EXCEPT ![workers[w].job].status = status]
    /\ workers' = [workers EXCEPT ![w] = IdleWorker]
    /\ UNCHANGED <<candidates, run_specs, jobs, Ledger, faults>>

-----------------------------------------------------------------------------
(* A worker on a formal run *)

\* Fault: the fence asks whether the run is being executed, not by whom.
LiveClaimOfAnyone(w) ==
    jobs[workers[w].job].status = "running" /\ jobs[workers[w].job].lease = "live"

\* Fault: the fence compares the claim epoch only, which a cancellation keeps.
LiveClaimDespiteCancel(w) == jobs[workers[w].job].epoch = workers[w].epoch

\* _m5_live_claim: this worker's claim is the run's current one and its lease
\* has not run out.
LiveClaim(w) ==
    LET job == jobs[workers[w].job] IN
    /\ job.status = "running"
    /\ job.token = workers[w].token
    /\ job.version = workers[w].version
    /\ job.epoch = workers[w].epoch
    /\ job.lease = "live"

\* An exception that run_worker does not catch, such as the JobTransitionConflict of a
\* failed fence: the transaction is rolled back, the process exits, and the job stays
\* as the claim left it.
ExitOnError(w) ==
    /\ workers' = [workers EXCEPT ![w] = [IdleWorker EXCEPT !.pc = "exited"]]
    /\ UNCHANGED <<candidates, run_specs, jobs, verify_jobs, Ledger, faults>>

\* Go and publish a failure, with or without the cursor in the final fence.
GiveUp(w, fenced) ==
    /\ workers' = [workers EXCEPT ![w].pc = "finish", ![w].outcome = "failed",
                                  ![w].fenced = fenced]
    /\ UNCHANGED <<candidates, run_specs, jobs, verify_jobs, Ledger, faults>>

\* The registry of artifacts (_register_generated_artifact) knows a content under one
\* identity.  Runs of one policy give a tape or a result the same identity, runs of the
\* other policy another one, and their bytes are the same: whoever comes first has it.
Published(tape, policy) ==
    \E q \in RunIds : /\ formal_runs[q].status = "succeeded"
                      /\ Policy(q) = policy
                      /\ formal_runs[q].result.context[2] = tape

Frozen(tape) == \E q \in RunIds : preparations[q] # None /\ preparations[q][2] = tape

\* A preparation takes a registered tape as it is, so the tape of an m3 run stays its own.
OtherTape(tape, policy) ==
    \/ tape \in Refused
    \/ policy = "m5" /\ Published(tape, "m3")
    \/ policy = "m3" /\ Frozen(tape) /\ ~Published(tape, "m3")

OtherResult(context, policy) ==
    \/ context \in Refused
    \/ \E other \in Policies \ {policy} : Published(context[2], other)

\* _m5_preparation, up to its transaction: adopt the published preparation, or
\* run the strategy host, which may emit another tape each time it is run.  Its
\* input is built first, and a field that is not there is a KeyError.
Prepare(w) ==
    LET prepared == preparations[workers[w].job] IN
    /\ workers[w].pc = "prepare"
    /\ \/ /\ prepared # None
          /\ workers' = [workers EXCEPT ![w].pc = "load", ![w].context = prepared]
          /\ UNCHANGED <<candidates, run_specs, jobs, verify_jobs, Ledger, faults>>
       \/ /\ prepared = None
          /\ jobs[workers[w].job].spec \notin Malformed
          /\ \E tape \in Tapes :
                workers' = [workers EXCEPT ![w].pc = "publish",
                                           ![w].context = Context(workers[w].job, tape)]
          /\ UNCHANGED <<candidates, run_specs, jobs, verify_jobs, Ledger, faults>>
       \/ prepared = None /\ jobs[workers[w].job].spec \in Malformed /\ ExitOnError(w)
       \/ GiveUp(w, FALSE)    \* a blob is gone or damaged, a gate or a registration failed

\* _m5_preparation, its transaction.  A tape registered by others is taken as it is; the
\* worker keeps a description of it that does not agree with the registry.
PublishPreparation(w) ==
    /\ workers[w].pc = "publish"
    /\ \/ /\ LiveClaim(w)
          /\ preparations' = [preparations EXCEPT ![workers[w].job] = workers[w].context]
          /\ workers' = [workers EXCEPT ![w].pc = "load",
                                        ![w].adopted = OtherTape(workers[w].context[2], "m5")]
          /\ UNCHANGED <<candidates, run_specs, jobs, verify_jobs, checkpoints,
                         formal_runs, merge_validations, faults>>
       \/ ~LiveClaim(w) /\ ExitOnError(w)

\* Fault: the first checkpoint is taken for the latest.
LatestSeqAscending(rows) == IF rows = <<>> THEN 0 ELSE 1

\* ORDER BY checkpoint_seq DESC LIMIT 1.
LatestSeq(rows) == Len(rows)

\* _run_m5_formal_job reads the latest checkpoint, or starts a new one.
LoadCheckpoint(w) ==
    LET rows == checkpoints[workers[w].job]
        latest == rows[LatestSeq(rows)]
    IN
    /\ workers[w].pc = "load"
    /\ \/ /\ rows = <<>>
          /\ workers' = [workers EXCEPT ![w].pc = "step"]
          /\ UNCHANGED <<candidates, run_specs, jobs, verify_jobs, Ledger, faults>>
       \/ rows = <<>> /\ GiveUp(w, FALSE)     \* start_checkpoint rejects the input
       \/ /\ rows # <<>>
          /\ latest.context = workers[w].context
          /\ workers' = [workers EXCEPT ![w].pc = "step", ![w].seq = LatestSeq(rows),
                                        ![w].next = latest.next]
          /\ UNCHANGED <<candidates, run_specs, jobs, verify_jobs, Ledger, faults>>
       \/ /\ rows # <<>>
          /\ latest.context # workers[w].context
          /\ GiveUp(w, FALSE)
       \/ /\ rows # <<>>                      \* the checkpoint blob is gone or damaged
          /\ workers' = [workers EXCEPT ![w].pc = "finish", ![w].outcome = "failed",
                                        ![w].fenced = TRUE, ![w].seq = LatestSeq(rows),
                                        ![w].next = latest.next, ![w].context = latest.context]
          /\ UNCHANGED <<candidates, run_specs, jobs, verify_jobs, Ledger, faults>>

\* The job row still stands where this worker's last checkpoint left it.
PredecessorFence(w) ==
    LET job == jobs[workers[w].job] IN
    /\ job.seq = workers[w].seq
    /\ job.next = workers[w].next
    /\ job.context \in {None, workers[w].context}

\* One batch of the engine and _persist_m5_checkpoint: register the checkpoint, move
\* the job's cursor, renew the lease and append the checkpoint row.
PersistCheckpoint(w) ==
    LET me == workers[w]
        next == NextCursor(me.next)
        row == [next |-> next, version |-> me.version, epoch |-> me.epoch,
                context |-> me.context]
    IN
    /\ me.pc = "step"
    /\ me.next < TotalBars
    /\ \/ /\ LiveClaim(w) /\ PredecessorFence(w)
          /\ <<me.context, me.seq + 1>> \notin Refused
          /\ jobs' = [jobs EXCEPT ![me.job] = [@ EXCEPT !.seq = me.seq + 1, !.next = next,
                                                        !.context = me.context]]
          /\ checkpoints' = [checkpoints EXCEPT ![me.job] = Append(@, row)]
          /\ workers' = [workers EXCEPT ![w].seq = me.seq + 1, ![w].next = next]
          /\ UNCHANGED <<candidates, run_specs, verify_jobs, preparations, formal_runs,
                         merge_validations, faults>>
       \/ ~(LiveClaim(w) /\ PredecessorFence(w)) /\ ExitOnError(w)
       \/ <<me.context, me.seq + 1>> \in Refused /\ ExitOnError(w)
       \/ GiveUp(w, me.seq > 0)               \* the engine rejects its checkpoint

\* finalize_checkpoint on a complete checkpoint yields a result or an error.
Finalize(w) ==
    /\ workers[w].pc = "step"
    /\ workers[w].next >= TotalBars
    /\ \E outcome \in {"succeeded", "failed"} :
          workers' = [workers EXCEPT ![w].pc = "finish", ![w].outcome = outcome,
                                     ![w].fenced = TRUE]
    /\ UNCHANGED <<candidates, run_specs, jobs, verify_jobs, Ledger, faults>>

\* _run_formal_job for m3-v1: strategy and engine in one go, no checkpoint.
Execute(w) ==
    /\ workers[w].pc = "execute"
    /\ \/ \E tape \in Tapes :
             /\ workers' = [workers EXCEPT ![w].pc = "finish", ![w].outcome = "succeeded",
                                           ![w].context = Context(workers[w].job, tape),
                                           ![w].next = TotalBars]
             /\ UNCHANGED <<candidates, run_specs, jobs, verify_jobs, Ledger, faults>>
       \/ GiveUp(w, FALSE)

\* The final fence compares the cursor only when the caller passes one.
CursorFence(w) ==
    LET job == jobs[workers[w].job] IN
    workers[w].fenced => /\ job.seq = workers[w].seq
                         /\ job.next = workers[w].next
                         /\ job.context = workers[w].context

\* The registration of a result, before the fence, raises ArtifactIntegrityMismatch.  An
\* m5 run that found its tape prepared describes it as the registry does.
Unregistrable(w) ==
    LET me == workers[w] IN
    /\ me.outcome = "succeeded"
    /\ \/ me.adopted
       \/ Policy(me.job) = "m3" /\ OtherTape(me.context[2], "m3")
       \/ OtherResult(me.context, Policy(me.job))

\* _finish_formal_job: register what a successful run has generated, end the job and
\* record the run and its validation.
FinishRun(w) ==
    LET me == workers[w]
        job == jobs[me.job]
        passed == me.outcome = "succeeded"
    IN
    /\ me.pc = "finish"
    /\ \/ /\ LiveClaim(w) /\ CursorFence(w) /\ ~Unregistrable(w)
          /\ jobs' = [jobs EXCEPT ![me.job] = [@ EXCEPT !.status = me.outcome, !.token = 0,
                                                        !.lease = None]]
          /\ formal_runs' = [formal_runs EXCEPT ![me.job] =
                [status |-> me.outcome, version |-> me.version,
                 result |-> IF passed THEN [context |-> me.context, bars |-> me.next] ELSE NoResult,
                 retry_of |-> job.retry_of]]
          /\ merge_validations' = [merge_validations EXCEPT ![job.validation] =
                [run |-> me.job, outcome |-> IF passed THEN "passed" ELSE "failed"]]
          /\ workers' = [workers EXCEPT ![w] = IdleWorker]
          /\ UNCHANGED <<candidates, run_specs, verify_jobs, preparations, checkpoints, faults>>
       \/ ~(LiveClaim(w) /\ CursorFence(w)) /\ ExitOnError(w)
       \/ Unregistrable(w) /\ ExitOnError(w)

-----------------------------------------------------------------------------
(* Processes and time *)

\* A worker process dies anywhere between two transactions.
Crash(w) ==
    /\ workers[w].pc # "exited"
    /\ faults < MaxFaults
    /\ faults' = faults + 1
    /\ workers' = [workers EXCEPT ![w] = [IdleWorker EXCEPT !.pc = "exited"]]
    /\ UNCHANGED <<candidates, run_specs, jobs, verify_jobs, Ledger>>

\* Somebody starts a worker process again: main() of worker.py.
Restart(w) ==
    /\ workers[w].pc = "exited"
    /\ workers' = [workers EXCEPT ![w] = IdleWorker]
    /\ UNCHANGED <<candidates, run_specs, jobs, verify_jobs, Ledger, faults>>

\* A worker whose claim on r is the current one, lease aside.
Owns(w, r) ==
    /\ workers[w].job = r
    /\ workers[w].token = jobs[r].token
    /\ workers[w].token # 0

ExpireLease(r) ==
    /\ jobs[r].status = "running"
    /\ jobs[r].lease = "live"
    /\ jobs' = [jobs EXCEPT ![r].lease = "expired"]
    /\ UNCHANGED <<candidates, run_specs, verify_jobs, Ledger, workers>>

\* 30 seconds pass with nobody left to renew the lease.
AbandonedLeaseExpires(r) ==
    /\ ~\E w \in Workers : Owns(w, r)
    /\ ExpireLease(r)
    /\ UNCHANGED faults

\* 30 seconds pass before a live worker reaches its next transaction.
HeldLeaseExpires(r) ==
    /\ \E w \in Workers : Owns(w, r)
    /\ faults < MaxFaults
    /\ faults' = faults + 1
    /\ ExpireLease(r)

-----------------------------------------------------------------------------
RunStep(w) ==
    \/ Prepare(w)
    \/ PublishPreparation(w)
    \/ LoadCheckpoint(w)
    \/ PersistCheckpoint(w)
    \/ Finalize(w)
    \/ Execute(w)
    \/ FinishRun(w)

WorkerStep(w) ==
    \/ \E r \in RunIds : ClaimRun(w, r)
    \/ \E v \in VerifyIds : ClaimVerification(w, v)
    \/ FinishVerification(w)
    \/ RunStep(w)

ClientStep ==
    \/ \E r \in RunIds, v \in ValidationIds :
          \/ \E s \in RunSpecIds, c \in CandidateIds, p \in Policies : Request(r, v, s, c, p)
          \/ \E source \in RunIds : Retry(source, r, v)
    \/ \E r \in RunIds : Cancel(r, jobs[r].status, jobs[r].version)
    \/ \E v \in VerifyIds : Capture(v)

GraphStep ==
    \/ \E c \in CandidateIds : CreateCandidate(c)
    \/ \E outdated \in SUBSET CandidateIds : MoveHeads(outdated)

Time == \E r \in RunIds : AbandonedLeaseExpires(r) \/ HeldLeaseExpires(r)

Next ==
    \/ GraphStep
    \/ ClientStep
    \/ \E w \in Workers : WorkerStep(w) \/ Crash(w) \/ Restart(w)
    \/ Time

Spec == Init /\ [][Next]_vars

\* A worker process keeps polling and its transactions commit; an abandoned lease
\* runs out; and an exited worker is started again, which is an assumption about the
\* operator.  Crashes, client commands and leases outrun by a live worker get no
\* fairness, and MaxFaults makes the faults finitely many.
Fairness ==
    /\ \A w \in Workers : WF_vars(WorkerStep(w)) /\ WF_vars(Restart(w))
    /\ \A r \in RunIds : WF_vars(AbandonedLeaseExpires(r))

FairSpec == Spec /\ Fairness

-----------------------------------------------------------------------------
(* Type invariant *)

Maybe(S) == S \cup {None}

JobRows ==
    [status : Maybe(Active \cup Terminal), version : Nat, epoch : Nat, token : Nat,
     lease : Maybe({"live", "expired"}), seq : Nat, next : 0..TotalBars,
     context : Maybe(Contexts), spec : Maybe(RunSpecIds), validation : Maybe(ValidationIds),
     retry_of : Maybe(RunIds), created : Nat]

CheckpointRows ==
    [next : 1..TotalBars, version : Nat, epoch : Nat, context : Contexts]

Results == [context : Maybe(Contexts), bars : 0..TotalBars]

RunRows ==
    [status : Maybe(Terminal), version : Nat, result : Results, retry_of : Maybe(RunIds)]

Phases == {"idle", "exited", "prepare", "publish", "load", "step", "execute", "finish", "verify"}

WorkerMemory ==
    [pc : Phases, job : Maybe(RunIds \cup VerifyIds), version : Nat, epoch : Nat, token : Nat,
     context : Maybe(Contexts), adopted : BOOLEAN, seq : Nat, next : 0..TotalBars,
     outcome : Maybe({"succeeded", "failed"}), fenced : BOOLEAN]

\* The rows and the memory of the workers have the shapes the schema gives them;
\* in particular no cursor passes the last bar (_persist_m5_checkpoint).
TypeOK ==
    /\ candidates \in [CandidateIds -> {"absent", "current", "stale"}]
    /\ run_specs \in [RunSpecIds -> Maybe(SpecBodies)]
    /\ jobs \in [RunIds -> JobRows]
    /\ verify_jobs \in [VerifyIds -> [status : Maybe({"pending", "running", "succeeded", "failed"}),
                                     created : Nat]]
    /\ preparations \in [RunIds -> Maybe(Contexts)]
    /\ checkpoints \in [RunIds -> Seq(CheckpointRows)]
    /\ formal_runs \in [RunIds -> RunRows]
    /\ merge_validations \in
          [ValidationIds -> Maybe([run : RunIds, outcome : {"passed", "failed", "not_run"}])]
    /\ workers \in [Workers -> WorkerMemory]
    /\ faults \in 0..MaxFaults

-----------------------------------------------------------------------------
(* Safety *)

RunPhases == {"prepare", "publish", "load", "step", "execute", "finish"}

CanWrite(w) == workers[w].pc \in RunPhases /\ LiveClaim(w)

\* However many workers still compute, at most one of them in the whole service
\* can get a write past the claim fence: runs are executed one at a time, and a
\* worker that lost its lease has lost the run (run_next_job, _m5_live_claim).
SingleWriter ==
    \A w, x \in Workers : CanWrite(w) /\ CanWrite(x) => w = x

\* Whatever crashes and reclaims happen in between, the preparation, every
\* checkpoint, the job's cursor and the published result of a checkpointed run
\* come from one strategy tape (_m5_preparation, _persist_m5_checkpoint).
OneFrozenTape ==
    \A r \in RunIds :
        /\ \A i \in DOMAIN checkpoints[r] : checkpoints[r][i].context = preparations[r]
        /\ jobs[r].context \in {None, preparations[r]}
        /\ formal_runs[r].status = "succeeded" /\ Policy(r) = "m5" =>
              formal_runs[r].result = [context |-> preparations[r], bars |-> TotalBars]

\* The checkpoint rows of a run are one unbroken calculation: each takes up where
\* the row before it stopped, written by the same claim or a later one, and the
\* job row stands at the last of them.  So a worker that may still write is never
\* turned away by the predecessor fence of its next checkpoint or by the cursor fence
\* of its completion.
CheckpointChain ==
    /\ \A r \in RunIds :
          LET rows == checkpoints[r]
              before(i) == IF i = 1 THEN 0 ELSE rows[i - 1].next
          IN
          /\ \A i \in DOMAIN rows : rows[i].next = NextCursor(before(i))
          /\ \A i, k \in DOMAIN rows : i <= k => rows[i].epoch <= rows[k].epoch
          /\ \A i \in DOMAIN rows : rows[i].epoch <= jobs[r].epoch
          /\ jobs[r].seq = Len(rows)
          /\ jobs[r].next = before(Len(rows) + 1)
    /\ \A w \in Workers : CanWrite(w) =>
          /\ workers[w].pc = "step" => PredecessorFence(w)
          /\ workers[w].pc = "finish" => CursorFence(w)

Verdict(status) ==
    CASE status = "succeeded" -> "passed"
      [] status = "failed" -> "failed"
      [] status = "cancelled" -> "not_run"

\* A run has a terminal record if and only if its job has ended, with the job's
\* final status, execution version and retry link, and then its validation says
\* what the run did: cancellation and completion race for one place.
SettledTogether ==
    \A r \in RunIds :
        LET job == jobs[r]
            run == formal_runs[r]
        IN
        /\ (run.status # None) <=> (job.status \in Terminal)
        /\ run.status # None =>
              /\ run.status = job.status
              /\ run.version = job.version
              /\ run.retry_of = job.retry_of
              /\ merge_validations[job.validation] = [run |-> r, outcome |-> Verdict(run.status)]

\* A run that has ended is history: no later claim, checkpoint, preparation or
\* completion, and no worker that finds out late, changes anything recorded of it.
SettledForever ==
    [][\A r \in RunIds : formal_runs[r].status # None =>
          /\ jobs'[r] = jobs[r]
          /\ formal_runs'[r] = formal_runs[r]
          /\ preparations'[r] = preparations[r]
          /\ checkpoints'[r] = checkpoints[r]
          /\ merge_validations'[jobs[r].validation] = merge_validations[jobs[r].validation]
      ]_vars

-----------------------------------------------------------------------------
(* The promise to the rest of the system *)

Contract == INSTANCE RunContract WITH
    phase <- [r \in RunIds |-> IF jobs[r].status = None THEN None
                               ELSE IF jobs[r].status \in Active THEN "open" ELSE "settled"],
    frozen <- preparations,
    progress <- [r \in RunIds |-> jobs[r].next],
    verdict <- [r \in RunIds |-> [outcome |-> formal_runs[r].status,
                                  context |-> formal_runs[r].result.context,
                                  bars |-> formal_runs[r].result.bars]]

\* Workers, leases, crashes and cancellations together do no more than open,
\* freeze, advance and settle runs.
KeepsContract == Contract!Spec

-----------------------------------------------------------------------------
(* Liveness *)

\* Whoever works on the run meets an exception that nobody catches: it is there at every
\* claim, because the input, the registry or the frozen tape are.
Poisoned(r) ==
    LET prepared == preparations[r] IN
    /\ jobs[r].status = "running"
    /\ \/ /\ Policy(r) = "m3"
          /\ \E tape \in Tapes : \/ OtherTape(tape, "m3")
                                 \/ OtherResult(Context(r, tape), "m3")
       \/ /\ Policy(r) = "m5" /\ prepared = None
          /\ jobs[r].spec \in Malformed
       \/ /\ Policy(r) = "m5" /\ prepared # None
          /\ \/ <<prepared, jobs[r].seq + 1>> \in Refused
             \/ OtherResult(prepared, "m5")

\* From some time on there is a poisoned run; it stays running and no other may start.
Blocked == <>[](\E r \in RunIds : Poisoned(r))

\* With finitely many crashes and outrun leases, every queued run ends: nothing stands
\* in its way for ever but a run, itself or another, that kills each worker claiming it
\* (run_next_job, the uncaught exceptions of _run_m5_formal_job and _finish_formal_job).
RunsSettle ==
    \/ Blocked
    \/ \A r \in RunIds : jobs[r].status \in Active ~> jobs[r].status \in Terminal

\* A verification that is being done by nobody after a fault: its worker died and the
\* claim query never looks at a running verification again.
Orphaned(v) ==
    /\ faults > 0
    /\ verify_jobs[v].status = "running"
    /\ \A w \in Workers : workers[w].pc = "verify" => workers[w].job # v

\* Every queued verification is claimed, and answered unless a worker dies on it,
\* however many formal runs are queued, cancelled, retried or left behind around it
\* (run_next_job takes the oldest job of both kinds).  Only a poisoned run that is not
\* younger may take every worker away from it.
VerificationsDone ==
    \A v \in VerifyIds :
        \/ <>[](\E r \in RunIds : Poisoned(r) /\ jobs[r].created <= verify_jobs[v].created)
        \/ verify_jobs[v].status = "pending" ~>
               verify_jobs[v].status \in {"succeeded", "failed"} \/ Orphaned(v)

\* docs/04_COMMAND_EVENT_CONTRACTS.md:82: the Job Runner claims a pending
\* verification, "then verifies registered artifact bytes and emits either
\* artifact.verification_succeeded ... or artifact.verification_failed".
VerificationAnswered ==
    \A v \in VerifyIds :
        verify_jobs[v].status = "running" ~> verify_jobs[v].status \in {"succeeded", "failed"}
=============================================================================
