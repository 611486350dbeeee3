---------------------------- MODULE FormalRun_proofs ----------------------------
(***************************************************************************)
(* Theorems about FormalRun, for any number of workers, runs, candidates,  *)
(* tapes, bars and faults: its typing; the claim fence, by which at most   *)
(* one worker can write for at most one run at a time; the verdicts, in    *)
(* which job, terminal record and validation agree and which no step of    *)
(* anyone changes; and the calculation, one tape and one unbroken chain of *)
(* checkpoints, with which the machinery keeps RunContract.                *)
(***************************************************************************)
EXTENDS FormalRun, SequenceTheorems, TLAPS

-----------------------------------------------------------------------------
(* Type correctness *)

\* What TypeOK does not say and its preservation needs: a worker in the middle of
\* a run works for a run, with a claim it was given, and has a frozen context when
\* it comes to checkpoints; a worker that finishes has decided how.
WorkerShape ==
    \A w \in Workers :
        /\ workers[w].pc \in RunPhases => workers[w].job \in RunIds
        /\ workers[w].pc \in {"publish", "load", "step"} => workers[w].context \in Contexts
        /\ workers[w].pc = "finish" => workers[w].outcome \in {"succeeded", "failed"}
        /\ workers[w].pc = "verify" => workers[w].job \in VerifyIds

TypeInv == TypeOK /\ WorkerShape

LEMMA NextCursorBounds ==
    ASSUME NEW n \in 0..TotalBars, n < TotalBars
    PROVE  NextCursor(n) \in (n + 1)..TotalBars
BY PositiveBars, PositiveBatch DEF NextCursor

LEMMA TypeInit == Init => TypeInv
BY PositiveBars, FaultBound
   DEF Init, TypeInv, TypeOK, WorkerShape, Maybe, JobRows, NoJob, RunRows, NoRun, NoResult, Results,
       NoVerify, WorkerMemory, IdleWorker, Phases, RunPhases

\* An update of one column keeps a row of the jobs table a row, ...
LEMMA JobField ==
    \A job \in JobRows :
        /\ \A x \in Maybe(Active \cup Terminal) : [job EXCEPT !.status = x] \in JobRows
        /\ \A x \in Nat : /\ [job EXCEPT !.version = x] \in JobRows
                          /\ [job EXCEPT !.epoch = x] \in JobRows
                          /\ [job EXCEPT !.token = x] \in JobRows
                          /\ [job EXCEPT !.seq = x] \in JobRows
                          /\ [job EXCEPT !.created = x] \in JobRows
        /\ \A x \in 0..TotalBars : [job EXCEPT !.next = x] \in JobRows
        /\ \A x \in Maybe({"live", "expired"}) : [job EXCEPT !.lease = x] \in JobRows
        /\ \A x \in Maybe(Contexts) : [job EXCEPT !.context = x] \in JobRows
        /\ \A x \in Maybe(RunSpecIds) : [job EXCEPT !.spec = x] \in JobRows
        /\ \A x \in Maybe(ValidationIds) : [job EXCEPT !.validation = x] \in JobRows
        /\ \A x \in Maybe(RunIds) : [job EXCEPT !.retry_of = x] \in JobRows
BY DEF JobRows

\* ... and an update of one variable of a worker keeps its memory in shape.
LEMMA WorkerField ==
    /\ \A me \in WorkerMemory :
        /\ \A x \in Phases : [me EXCEPT !.pc = x] \in WorkerMemory
        /\ \A x \in Maybe(RunIds \cup VerifyIds) : [me EXCEPT !.job = x] \in WorkerMemory
        /\ \A x \in Nat : /\ [me EXCEPT !.version = x] \in WorkerMemory
                          /\ [me EXCEPT !.epoch = x] \in WorkerMemory
                          /\ [me EXCEPT !.token = x] \in WorkerMemory
    /\ \A memory \in [Workers -> WorkerMemory], w \in Workers :
        /\ \A x \in Phases : [memory EXCEPT ![w].pc = x] \in [Workers -> WorkerMemory]
        /\ \A x \in Nat : [memory EXCEPT ![w].seq = x] \in [Workers -> WorkerMemory]
        /\ \A x \in 0..TotalBars : [memory EXCEPT ![w].next = x] \in [Workers -> WorkerMemory]
        /\ \A x \in Maybe(Contexts) : [memory EXCEPT ![w].context = x] \in [Workers -> WorkerMemory]
        /\ \A x \in Maybe({"succeeded", "failed"}) :
              [memory EXCEPT ![w].outcome = x] \in [Workers -> WorkerMemory]
        /\ \A x \in BOOLEAN : /\ [memory EXCEPT ![w].fenced = x] \in [Workers -> WorkerMemory]
                              /\ [memory EXCEPT ![w].adopted = x] \in [Workers -> WorkerMemory]
<1>1. \A me \in WorkerMemory :
        /\ \A x \in Phases : [me EXCEPT !.pc = x] \in WorkerMemory
        /\ \A x \in Maybe(RunIds \cup VerifyIds) : [me EXCEPT !.job = x] \in WorkerMemory
        /\ \A x \in Nat : /\ [me EXCEPT !.version = x] \in WorkerMemory
                          /\ [me EXCEPT !.epoch = x] \in WorkerMemory
                          /\ [me EXCEPT !.token = x] \in WorkerMemory
                          /\ [me EXCEPT !.seq = x] \in WorkerMemory
        /\ \A x \in 0..TotalBars : [me EXCEPT !.next = x] \in WorkerMemory
        /\ \A x \in Maybe(Contexts) : [me EXCEPT !.context = x] \in WorkerMemory
        /\ \A x \in Maybe({"succeeded", "failed"}) : [me EXCEPT !.outcome = x] \in WorkerMemory
        /\ \A x \in BOOLEAN : /\ [me EXCEPT !.fenced = x] \in WorkerMemory
                              /\ [me EXCEPT !.adopted = x] \in WorkerMemory
  BY DEF WorkerMemory
<1>2. QED
  BY <1>1

LEMMA RestingWorker ==
    IdleWorker \in WorkerMemory /\ [IdleWorker EXCEPT !.pc = "exited"] \in WorkerMemory
<1>1. IdleWorker \in WorkerMemory
  BY PositiveBars DEF IdleWorker, WorkerMemory, Maybe, Phases
<1>2. "exited" \in Phases
  BY DEF Phases
<1> QED
  BY <1>1, <1>2, WorkerField

LEMMA QueuedRow ==
    ASSUME NEW s \in Maybe(RunSpecIds), NEW v \in ValidationIds, NEW q \in Maybe(RunIds),
           NEW stamp \in Stamps
    PROVE  QueuedJob(s, v, q, stamp) \in JobRows
<1>1. NoJob \in JobRows
  BY PositiveBars DEF NoJob, JobRows, Maybe
<1>2. /\ "pending" \in Maybe(Active \cup Terminal)
      /\ v \in Maybe(ValidationIds)
      /\ stamp \in Nat
  BY ClockReadings DEF Maybe, Active
<1> QED
  BY <1>1, <1>2, JobField, Zenon DEF QueuedJob

\* Commands keep the types.
LEMMA TypeClient ==
    ASSUME TypeInv, GraphStep \/ ClientStep
    PROVE  TypeInv'
<1> USE DEF TypeInv, TypeOK, WorkerShape
<1>1. ASSUME NEW c \in CandidateIds, CreateCandidate(c)
      PROVE  TypeInv'
  BY <1>1 DEF CreateCandidate, Ledger
<1>2. ASSUME NEW outdated \in SUBSET CandidateIds, MoveHeads(outdated)
      PROVE  TypeInv'
  BY <1>2 DEF MoveHeads, Ledger
<1>3. ASSUME NEW r \in RunIds, NEW v \in ValidationIds, NEW s \in RunSpecIds,
             NEW c \in CandidateIds, NEW p \in Policies, Request(r, v, s, c, p)
      PROVE  TypeInv'
  <2>1. [candidate |-> c, policy |-> p] \in Maybe(SpecBodies)
    BY DEF SpecBodies, Maybe
  <2>2. \A stamp \in Stamps : QueuedJob(s, v, None, stamp) \in JobRows
    BY QueuedRow DEF Maybe
  <2> QED
    BY <1>3, <2>1, <2>2 DEF Request, Ledger
<1>4. ASSUME NEW r \in RunIds, NEW v \in ValidationIds, NEW source \in RunIds,
             Retry(source, r, v)
      PROVE  TypeInv'
  <2>1. jobs[source].spec \in Maybe(RunSpecIds)
    BY DEF JobRows
  <2>2. \A stamp \in Stamps : QueuedJob(jobs[source].spec, v, source, stamp) \in JobRows
    BY <2>1, QueuedRow DEF Maybe
  <2> QED
    BY <1>4, <2>2 DEF Retry, Ledger
<1>5. ASSUME NEW r \in RunIds, Cancel(r, jobs[r].status, jobs[r].version)
      PROVE  TypeInv'
  <2>1. /\ jobs[r] \in JobRows
        /\ jobs[r].version + 1 \in Nat
        /\ 0 \in Nat
        /\ "cancelled" \in Maybe(Active \cup Terminal)
        /\ None \in Maybe({"live", "expired"})
    BY DEF JobRows, Maybe, Terminal
  <2>2. [jobs[r] EXCEPT !.status = "cancelled", !.version = jobs[r].version + 1,
                        !.token = 0, !.lease = None] \in JobRows
    BY <2>1, JobField, Zenon
  <2>3. [status |-> "cancelled", version |-> jobs[r].version + 1,
         result |-> NoResult, retry_of |-> jobs[r].retry_of] \in RunRows
    BY <2>1, PositiveBars DEF RunRows, NoResult, Results, Maybe, Terminal, JobRows
  <2> QED
    BY <1>5, <2>2, <2>3 DEF Cancel, Maybe
<1>6. ASSUME NEW v \in VerifyIds, Capture(v)
      PROVE  TypeInv'
  BY <1>6, ClockReadings DEF Capture, Ledger, Maybe
<1> QED
  BY <1>1, <1>2, <1>3, <1>4, <1>5, <1>6 DEF GraphStep, ClientStep

-----------------------------------------------------------------------------
\* A step that only changes the memory of worker w keeps the types if it leaves
\* that memory in shape.
LEMMA TypeOneWorker ==
    ASSUME TypeInv, NEW w \in Workers,
           workers' \in [Workers -> WorkerMemory],
           \A x \in Workers : x # w => workers'[x] = workers[x],
           workers'[w].pc \in RunPhases => workers'[w].job \in RunIds,
           workers'[w].pc \in {"publish", "load", "step"} => workers'[w].context \in Contexts,
           workers'[w].pc = "finish" => workers'[w].outcome \in {"succeeded", "failed"},
           workers'[w].pc = "verify" => workers'[w].job \in VerifyIds
    PROVE  /\ workers' \in [Workers -> WorkerMemory]
           /\ WorkerShape'
BY DEF TypeInv, WorkerShape

LEMMA TypeRest ==
    ASSUME TypeInv, NEW w \in Workers,
           NEW rest \in {IdleWorker, [IdleWorker EXCEPT !.pc = "exited"]},
           workers' = [workers EXCEPT ![w] = rest]
    PROVE  workers' \in [Workers -> WorkerMemory] /\ WorkerShape'
<1>1. IdleWorker.pc = "idle" /\ [IdleWorker EXCEPT !.pc = "exited"].pc = "exited"
  BY DEF IdleWorker
<1>2. rest \in WorkerMemory /\ rest.pc \in {"idle", "exited"}
  BY <1>1, RestingWorker
<1>3. /\ workers' \in [Workers -> WorkerMemory]
      /\ \A x \in Workers : x # w => workers'[x] = workers[x]
      /\ workers'[w].pc \in {"idle", "exited"}
  BY <1>2 DEF TypeInv, TypeOK
<1> QED
  BY <1>3, TypeOneWorker DEF RunPhases

LEMMA TypeExitOnError ==
    ASSUME TypeInv, NEW w \in Workers, ExitOnError(w)
    PROVE  TypeInv'
<1>1. workers' \in [Workers -> WorkerMemory] /\ WorkerShape'
  BY TypeRest DEF ExitOnError
<1> QED
  BY <1>1 DEF TypeInv, TypeOK, ExitOnError, Ledger

LEMMA TypeGiveUp ==
    ASSUME TypeInv, NEW w \in Workers, workers[w].pc \in RunPhases,
           NEW fenced \in BOOLEAN, GiveUp(w, fenced)
    PROVE  TypeInv'
<1>1. workers' \in [Workers -> WorkerMemory]
  <2>1. /\ workers \in [Workers -> WorkerMemory]
        /\ "finish" \in Phases
        /\ "failed" \in Maybe({"succeeded", "failed"})
    BY DEF TypeInv, TypeOK, Phases, Maybe
  <2> QED
    BY <2>1, WorkerField, Zenon DEF GiveUp
<1>2. /\ \A x \in Workers : x # w => workers'[x] = workers[x]
      /\ workers'[w].pc = "finish"
      /\ workers'[w].outcome = "failed"
      /\ workers'[w].job = workers[w].job
  BY DEF TypeInv, TypeOK, GiveUp, WorkerMemory
<1>3. WorkerShape'
  BY <1>1, <1>2, TypeOneWorker DEF TypeInv, WorkerShape
<1> QED
  BY <1>1, <1>3 DEF TypeInv, TypeOK, GiveUp, Ledger

\* Claims, verifications, crashes, restarts and the clock keep the types.
LEMMA TypeClaimRun ==
    ASSUME TypeInv, NEW w \in Workers, NEW r \in RunIds, ClaimRun(w, r)
    PROVE  TypeInv'
<1> DEFINE job == jobs[r]
           claimed == [job EXCEPT !.status = "running", !.version = job.version + 1,
                                  !.epoch = job.epoch + 1, !.token = job.epoch + 1,
                                  !.lease = "live"]
           pc == IF Policy(r) = "m5" THEN "prepare" ELSE "execute"
           me == [IdleWorker EXCEPT !.pc = pc,
                              !.job = r, !.version = claimed.version,
                              !.epoch = claimed.epoch, !.token = claimed.token]
<1>1. /\ job \in JobRows
      /\ job.version + 1 \in Nat
      /\ job.epoch + 1 \in Nat
      /\ "running" \in Maybe(Active \cup Terminal)
      /\ "live" \in Maybe({"live", "expired"})
  BY DEF TypeInv, TypeOK, JobRows, Maybe, Active
<1>2. claimed \in JobRows
  BY <1>1, JobField, Zenon
<1>3. claimed.version \in Nat /\ claimed.epoch \in Nat /\ claimed.token \in Nat
  BY <1>2 DEF JobRows
<1>4. jobs' = [jobs EXCEPT ![r] = claimed] /\ workers' = [workers EXCEPT ![w] = me]
  BY DEF ClaimRun
<1> HIDE DEF claimed
<1>5. pc \in Phases /\ r \in Maybe(RunIds \cup VerifyIds)
  BY DEF Phases, Maybe
<1>6. me \in WorkerMemory
  <2> HIDE DEF pc
  <2> QED
    BY <1>3, <1>5, RestingWorker, WorkerField, Zenon
<1>7. me.pc \in {"prepare", "execute"} /\ me.job = r
  BY DEF IdleWorker
<1> HIDE DEF me
<1>8. workers' \in [Workers -> WorkerMemory]
  BY <1>4, <1>6 DEF TypeInv, TypeOK
<1>9. WorkerShape'
  BY <1>4, <1>7, <1>8, TypeOneWorker DEF TypeInv, TypeOK
<1> QED
  BY <1>2, <1>4, <1>8, <1>9 DEF TypeInv, TypeOK, ClaimRun, Ledger

LEMMA TypeVerification ==
    ASSUME TypeInv, NEW w \in Workers,
           (\E v \in VerifyIds : ClaimVerification(w, v)) \/ FinishVerification(w)
    PROVE  TypeInv'
<1>1. ASSUME NEW v \in VerifyIds, ClaimVerification(w, v)
      PROVE  TypeInv'
  <2> DEFINE me == [IdleWorker EXCEPT !.pc = "verify", !.job = v]
  <2>1. "verify" \in Phases /\ v \in Maybe(RunIds \cup VerifyIds)
    BY DEF Phases, Maybe
  <2>2. me \in WorkerMemory
    BY <2>1, RestingWorker, WorkerField, Zenon
  <2>3. workers' = [workers EXCEPT ![w] = me] /\ me.pc = "verify" /\ me.job = v
    BY <1>1 DEF ClaimVerification, IdleWorker
  <2> HIDE DEF me
  <2>4. workers' \in [Workers -> WorkerMemory] /\ WorkerShape'
    BY <2>2, <2>3, TypeOneWorker DEF TypeInv, TypeOK, RunPhases
  <2> QED
    BY <1>1, <2>4 DEF TypeInv, TypeOK, ClaimVerification, Ledger, Maybe
<1>2. CASE FinishVerification(w)
  <2>1. workers' \in [Workers -> WorkerMemory] /\ WorkerShape'
    BY <1>2, TypeRest DEF FinishVerification
  <2>2. verify_jobs' \in [VerifyIds -> [status : Maybe({"pending", "running", "succeeded", "failed"}),
                                       created : Nat]]
    <3>1. /\ workers[w].job \in VerifyIds
          /\ verify_jobs \in
                [VerifyIds -> [status : {"pending", "running", "succeeded", "failed", None},
                               created : Nat]]
      BY <1>2 DEF TypeInv, TypeOK, WorkerShape, FinishVerification, Maybe
    <3>2. PICK status \in {"succeeded", "failed"} :
             verify_jobs' = [verify_jobs EXCEPT ![workers[w].job].status = status]
      BY <1>2 DEF FinishVerification
    <3> QED
      BY <3>1, <3>2 DEF Maybe
  <2> QED
    BY <1>2, <2>1, <2>2 DEF TypeInv, TypeOK, FinishVerification, Ledger
<1> QED
  BY <1>1, <1>2

LEMMA TypeProcessesAndTime ==
    ASSUME TypeInv, (\E w \in Workers : Crash(w) \/ Restart(w)) \/ Time
    PROVE  TypeInv'
<1>1. ASSUME NEW w \in Workers, Crash(w)
      PROVE  TypeInv'
  <2>1. workers' \in [Workers -> WorkerMemory] /\ WorkerShape'
    BY <1>1, TypeRest DEF Crash
  <2>2. faults' \in 0..MaxFaults
    BY <1>1, FaultBound DEF Crash, TypeInv, TypeOK
  <2> QED
    BY <1>1, <2>1, <2>2 DEF TypeInv, TypeOK, Crash, Ledger
<1>2. ASSUME NEW w \in Workers, Restart(w)
      PROVE  TypeInv'
  <2>1. workers' \in [Workers -> WorkerMemory] /\ WorkerShape'
    BY <1>2, TypeRest DEF Restart
  <2> QED
    BY <1>2, <2>1 DEF TypeInv, TypeOK, Restart, Ledger
<1>3. ASSUME NEW r \in RunIds, AbandonedLeaseExpires(r) \/ HeldLeaseExpires(r)
      PROVE  TypeInv'
  <2>1. jobs' = [jobs EXCEPT ![r].lease = "expired"] /\ faults' \in 0..MaxFaults
    BY <1>3, FaultBound
       DEF AbandonedLeaseExpires, HeldLeaseExpires, ExpireLease, TypeInv, TypeOK
  <2>2. jobs' \in [RunIds -> JobRows]
    BY <2>1, JobField DEF TypeInv, TypeOK, Maybe
  <2> QED
    BY <1>3, <2>1, <2>2
       DEF AbandonedLeaseExpires, HeldLeaseExpires, ExpireLease, TypeInv, TypeOK, WorkerShape, Ledger
<1> QED
  BY <1>1, <1>2, <1>3 DEF Time

\* The steps of a worker on a run keep the types.
LEMMA TypePrepare ==
    ASSUME TypeInv, NEW w \in Workers, Prepare(w)
    PROVE  TypeInv'
<1> DEFINE prepared == preparations[workers[w].job]
<1>1. /\ workers[w].pc \in RunPhases
      /\ workers[w].job \in RunIds
      /\ prepared \in Maybe(Contexts)
      /\ workers \in [Workers -> WorkerMemory]
  BY DEF Prepare, RunPhases, TypeInv, TypeOK, WorkerShape
<1>2. ASSUME NEW pc \in {"load", "publish"}, NEW context \in Contexts,
             workers' = [workers EXCEPT ![w].pc = pc, ![w].context = context],
             UNCHANGED <<candidates, run_specs, jobs, verify_jobs, Ledger, faults>>
      PROVE  TypeInv'
  <2>1. pc \in Phases /\ context \in Maybe(Contexts)
    BY DEF Phases, Maybe
  <2>2. workers' \in [Workers -> WorkerMemory]
    BY <1>1, <1>2, <2>1, WorkerField, Zenon
  <2>3. /\ \A x \in Workers : x # w => workers'[x] = workers[x]
        /\ workers'[w].pc = pc
        /\ workers'[w].context = context
        /\ workers'[w].job = workers[w].job
    BY <1>1, <1>2 DEF WorkerMemory
  <2>4. WorkerShape'
    BY <1>1, <2>2, <2>3, TypeOneWorker
  <2> QED
    BY <1>2, <2>2, <2>4 DEF TypeInv, TypeOK, Ledger
<1>3. CASE prepared # None /\ ~GiveUp(w, FALSE)
  BY <1>1, <1>2, <1>3 DEF Prepare, Maybe
<1>4. CASE prepared = None /\ ~GiveUp(w, FALSE) /\ ~ExitOnError(w)
  <2>1. PICK tape \in Tapes :
           workers' = [workers EXCEPT ![w].pc = "publish",
                                      ![w].context = Context(workers[w].job, tape)]
    BY <1>4 DEF Prepare
  <2>2. Context(workers[w].job, tape) \in Contexts
    BY <1>1 DEF Context, Contexts
  <2> QED
    BY <1>2, <1>4, <2>1, <2>2 DEF Prepare
<1>5. CASE GiveUp(w, FALSE)
  BY <1>1, <1>5, TypeGiveUp
<1>6. CASE ExitOnError(w)
  BY <1>6, TypeExitOnError
<1> QED
  BY <1>3, <1>4, <1>5, <1>6

\* A worker that has published its preparation remembers whether the tape was another's.
LEMMA LoadsNext ==
    ASSUME NEW w \in Workers, PublishPreparation(w), ~ExitOnError(w)
    PROVE  \E adopted \in BOOLEAN :
              workers' = [workers EXCEPT ![w].pc = "load", ![w].adopted = adopted]
<1>1. OtherTape(workers[w].context[2], "m5") \in BOOLEAN
  BY Zenon DEF OtherTape
<1>2. workers' = [workers EXCEPT ![w].pc = "load",
                                 ![w].adopted = OtherTape(workers[w].context[2], "m5")]
  BY Zenon DEF PublishPreparation
<1> QED
  BY <1>1, <1>2, Zenon

LEMMA TypePublish ==
    ASSUME TypeInv, NEW w \in Workers, PublishPreparation(w)
    PROVE  TypeInv'
<1>1. /\ workers[w].pc \in RunPhases
      /\ workers[w].job \in RunIds
      /\ workers[w].context \in Contexts
      /\ workers \in [Workers -> WorkerMemory]
  BY DEF PublishPreparation, RunPhases, TypeInv, TypeOK, WorkerShape
<1>2. CASE ~ExitOnError(w)
  <2>1. PICK adopted \in BOOLEAN :
           workers' = [workers EXCEPT ![w].pc = "load", ![w].adopted = adopted]
    BY <1>2, LoadsNext
  <2>2. workers' \in [Workers -> WorkerMemory]
    <3>1. "load" \in Phases
      BY DEF Phases
    <3> QED
      BY <1>1, <2>1, <3>1, WorkerField, Zenon
  <2>3. /\ \A x \in Workers : x # w => workers'[x] = workers[x]
        /\ workers'[w].pc = "load"
        /\ workers'[w].context = workers[w].context
        /\ workers'[w].job = workers[w].job
    BY <1>1, <2>1 DEF WorkerMemory
  <2>4. WorkerShape'
    BY <1>1, <2>2, <2>3, TypeOneWorker
  <2>5. preparations' \in [RunIds -> Maybe(Contexts)]
    BY <1>1, <1>2 DEF PublishPreparation, TypeInv, TypeOK, Maybe
  <2> QED
    BY <1>2, <2>2, <2>4, <2>5 DEF PublishPreparation, TypeInv, TypeOK
<1> QED
  BY <1>2, TypeExitOnError

LEMMA TypeLoad ==
    ASSUME TypeInv, NEW w \in Workers, LoadCheckpoint(w)
    PROVE  TypeInv'
<1> DEFINE rows == checkpoints[workers[w].job]
           latest == rows[LatestSeq(rows)]
<1>1. /\ workers[w].pc = "load"
      /\ workers[w].job \in RunIds
      /\ workers[w].context \in Contexts
      /\ workers \in [Workers -> WorkerMemory]
      /\ rows \in Seq(CheckpointRows)
  BY DEF LoadCheckpoint, RunPhases, TypeInv, TypeOK, WorkerShape
<1>2. /\ LatestSeq(rows) \in Nat
      /\ rows # <<>> => latest \in CheckpointRows
  <2>1. Len(rows) \in Nat /\ (rows # <<>> => Len(rows) \in 1..Len(rows))
    BY <1>1, EmptySeq, LenProperties
  <2> QED
    BY <1>1, <2>1, ElementOfSeq DEF LatestSeq
<1>3. ASSUME workers' \in [Workers -> WorkerMemory],
             \A x \in Workers : x # w => workers'[x] = workers[x],
             workers'[w].job = workers[w].job,
             workers'[w].pc \in {"step", "finish"},
             workers'[w].pc = "step" => workers'[w].context = workers[w].context,
             workers'[w].pc = "finish" => workers'[w].outcome = "failed",
             UNCHANGED <<candidates, run_specs, jobs, verify_jobs, Ledger, faults>>
      PROVE  TypeInv'
  <2>1. WorkerShape'
    BY <1>1, <1>3, TypeOneWorker
  <2> QED
    BY <1>3, <2>1 DEF TypeInv, TypeOK, Ledger
<1>4. CASE GiveUp(w, FALSE)
  BY <1>1, <1>4, TypeGiveUp DEF RunPhases
<1>5. ASSUME rows = <<>>, workers' = [workers EXCEPT ![w].pc = "step"],
             UNCHANGED <<candidates, run_specs, jobs, verify_jobs, Ledger, faults>>
      PROVE  TypeInv'
  <2>1. workers' \in [Workers -> WorkerMemory]
    BY <1>1, <1>5, WorkerField DEF Phases
  <2>2. /\ \A x \in Workers : x # w => workers'[x] = workers[x]
        /\ workers'[w].job = workers[w].job
        /\ workers'[w].pc = "step"
        /\ workers'[w].context = workers[w].context
    BY <1>1, <1>5 DEF WorkerMemory
  <2> QED
    BY <1>3, <1>5, <2>1, <2>2
<1>6. ASSUME rows # <<>>,
             workers' = [workers EXCEPT ![w].pc = "step", ![w].seq = LatestSeq(rows),
                                        ![w].next = latest.next],
             UNCHANGED <<candidates, run_specs, jobs, verify_jobs, Ledger, faults>>
      PROVE  TypeInv'
  <2>1. "step" \in Phases /\ latest.next \in 0..TotalBars
    BY <1>2, <1>6, PositiveBars DEF Phases, CheckpointRows
  <2>2. workers' \in [Workers -> WorkerMemory]
    <3> HIDE DEF rows, latest
    <3> QED
      BY <1>1, <1>2, <1>6, <2>1, WorkerField, Zenon
  <2>3. /\ \A x \in Workers : x # w => workers'[x] = workers[x]
        /\ workers'[w].job = workers[w].job
        /\ workers'[w].pc = "step"
        /\ workers'[w].context = workers[w].context
    BY <1>1, <1>6 DEF WorkerMemory
  <2> QED
    BY <1>3, <1>6, <2>2, <2>3
<1>7. ASSUME rows # <<>>,
             workers' = [workers EXCEPT ![w].pc = "finish", ![w].outcome = "failed",
                            ![w].fenced = TRUE, ![w].seq = LatestSeq(rows),
                            ![w].next = latest.next, ![w].context = latest.context],
             UNCHANGED <<candidates, run_specs, jobs, verify_jobs, Ledger, faults>>
      PROVE  TypeInv'
  <2>1. /\ "finish" \in Phases
        /\ "failed" \in Maybe({"succeeded", "failed"})
        /\ TRUE \in BOOLEAN
        /\ latest.next \in 0..TotalBars
        /\ latest.context \in Maybe(Contexts)
    BY <1>2, <1>7, PositiveBars DEF Phases, Maybe, CheckpointRows
  <2>2. workers' \in [Workers -> WorkerMemory]
    <3> HIDE DEF rows, latest
    <3> QED
      BY <1>1, <1>2, <1>7, <2>1, WorkerField, Zenon
  <2>3. /\ \A x \in Workers : x # w => workers'[x] = workers[x]
        /\ workers'[w].job = workers[w].job
        /\ workers'[w].pc = "finish"
        /\ workers'[w].outcome = "failed"
    BY <1>1, <1>7 DEF WorkerMemory
  <2> QED
    BY <1>3, <1>7, <2>2, <2>3
<1> QED
  BY <1>4, <1>5, <1>6, <1>7 DEF LoadCheckpoint

LEMMA TypePersist ==
    ASSUME TypeInv, NEW w \in Workers, PersistCheckpoint(w)
    PROVE  TypeInv'
<1> DEFINE me == workers[w]
           next == NextCursor(me.next)
           row == [next |-> next, version |-> me.version, epoch |-> me.epoch,
                   context |-> me.context]
<1>1. /\ me.pc = "step" /\ me.next < TotalBars
      /\ me.job \in RunIds
      /\ me.context \in Contexts
      /\ me \in WorkerMemory
      /\ workers \in [Workers -> WorkerMemory]
  BY DEF PersistCheckpoint, RunPhases, TypeInv, TypeOK, WorkerShape
<1>2. /\ next \in 1..TotalBars /\ next \in 0..TotalBars
      /\ me.seq + 1 \in Nat
      /\ row \in CheckpointRows
  <2>1. me.next \in 0..TotalBars /\ me.version \in Nat /\ me.epoch \in Nat /\ me.seq \in Nat
    BY <1>1 DEF WorkerMemory
  <2>2. next \in 1..TotalBars
    BY <1>1, <2>1, NextCursorBounds, PositiveBars
  <2> HIDE DEF next
  <2> QED
    BY <1>1, <2>1, <2>2, PositiveBars DEF CheckpointRows
<1>3. CASE ~ExitOnError(w) /\ ~GiveUp(w, me.seq > 0)
  <2>1. /\ jobs' = [jobs EXCEPT ![me.job] = [@ EXCEPT !.seq = me.seq + 1, !.next = next,
                                                      !.context = me.context]]
        /\ checkpoints' = [checkpoints EXCEPT ![me.job] = Append(@, row)]
        /\ workers' = [workers EXCEPT ![w].seq = me.seq + 1, ![w].next = next]
        /\ UNCHANGED <<candidates, run_specs, verify_jobs, preparations, formal_runs,
                       merge_validations, faults>>
    BY <1>3 DEF PersistCheckpoint
  <2> HIDE DEF next, row
  <2>2. jobs' \in [RunIds -> JobRows]
    <3>1. jobs[me.job] \in JobRows /\ me.context \in Maybe(Contexts)
      BY <1>1 DEF TypeInv, TypeOK, Maybe
    <3>2. [jobs[me.job] EXCEPT !.seq = me.seq + 1, !.next = next, !.context = me.context]
             \in JobRows
      BY <1>2, <3>1, JobField, Zenon
    <3> QED
      BY <1>1, <2>1, <3>2 DEF TypeInv, TypeOK
  <2>3. checkpoints' \in [RunIds -> Seq(CheckpointRows)]
    BY <1>1, <1>2, <2>1 DEF TypeInv, TypeOK
  <2>4. workers' \in [Workers -> WorkerMemory]
    BY <1>1, <1>2, <2>1, WorkerField, Zenon
  <2>5. /\ \A x \in Workers : x # w => workers'[x] = workers[x]
        /\ workers'[w].job = me.job
        /\ workers'[w].pc = me.pc
        /\ workers'[w].context = me.context
    BY <1>1, <2>1 DEF WorkerMemory
  <2>6. WorkerShape'
    BY <1>1, <2>4, <2>5, TypeOneWorker
  <2> QED
    BY <2>1, <2>2, <2>3, <2>4, <2>6 DEF TypeInv, TypeOK
<1>4. CASE ExitOnError(w)
  BY <1>4, TypeExitOnError
<1>5. CASE GiveUp(w, me.seq > 0)
  <2>1. (me.seq > 0) \in BOOLEAN
    BY <1>1 DEF WorkerMemory
  <2>2. me.pc \in RunPhases
    BY <1>1 DEF RunPhases
  <2> QED
    BY <1>5, <2>1, <2>2, TypeGiveUp, Zenon
<1> QED
  BY <1>3, <1>4, <1>5

LEMMA TypeFinalize ==
    ASSUME TypeInv, NEW w \in Workers, Finalize(w)
    PROVE  TypeInv'
<1>1. PICK outcome \in {"succeeded", "failed"} :
         workers' = [workers EXCEPT ![w].pc = "finish", ![w].outcome = outcome,
                                    ![w].fenced = TRUE]
  BY DEF Finalize
<1>2. /\ "finish" \in Phases
      /\ outcome \in Maybe({"succeeded", "failed"})
      /\ TRUE \in BOOLEAN
      /\ workers \in [Workers -> WorkerMemory]
      /\ workers[w].job \in RunIds
  BY DEF Phases, Maybe, Finalize, TypeInv, TypeOK, WorkerShape, RunPhases
<1>3. workers' \in [Workers -> WorkerMemory]
  BY <1>1, <1>2, WorkerField, Zenon
<1>4. /\ \A x \in Workers : x # w => workers'[x] = workers[x]
      /\ workers'[w].job = workers[w].job
      /\ workers'[w].pc = "finish"
      /\ workers'[w].outcome = outcome
  BY <1>1, <1>2 DEF WorkerMemory
<1>5. WorkerShape'
  BY <1>2, <1>3, <1>4, TypeOneWorker
<1> QED
  BY <1>3, <1>5 DEF Finalize, TypeInv, TypeOK, Ledger

LEMMA TypeExecute ==
    ASSUME TypeInv, NEW w \in Workers, Execute(w)
    PROVE  TypeInv'
<1>1. workers[w].pc \in RunPhases /\ workers[w].job \in RunIds
  BY DEF Execute, RunPhases, TypeInv, WorkerShape
<1>2. ASSUME NEW tape \in Tapes,
             workers' = [workers EXCEPT ![w].pc = "finish", ![w].outcome = "succeeded",
                                        ![w].context = Context(workers[w].job, tape),
                                        ![w].next = TotalBars],
             UNCHANGED <<candidates, run_specs, jobs, verify_jobs, Ledger, faults>>
      PROVE  TypeInv'
  <2>1. /\ "finish" \in Phases
        /\ "succeeded" \in Maybe({"succeeded", "failed"})
        /\ Context(workers[w].job, tape) \in Maybe(Contexts)
        /\ TotalBars \in 0..TotalBars
        /\ workers \in [Workers -> WorkerMemory]
    BY <1>1, PositiveBars DEF Phases, Maybe, Context, Contexts, TypeInv, TypeOK
  <2>2. workers' \in [Workers -> WorkerMemory]
    BY <1>2, <2>1, WorkerField, Zenon
  <2>3. /\ \A x \in Workers : x # w => workers'[x] = workers[x]
        /\ workers'[w].job = workers[w].job
        /\ workers'[w].pc = "finish"
        /\ workers'[w].outcome = "succeeded"
    BY <1>2, <2>1 DEF WorkerMemory
  <2>4. WorkerShape'
    BY <1>1, <2>2, <2>3, TypeOneWorker
  <2> QED
    BY <1>2, <2>2, <2>4 DEF TypeInv, TypeOK, Ledger
<1> QED
  BY <1>1, <1>2, TypeGiveUp DEF Execute

LEMMA TypeFinishRun ==
    ASSUME TypeInv, NEW w \in Workers, FinishRun(w)
    PROVE  TypeInv'
<1> DEFINE me == workers[w]
           job == jobs[me.job]
           passed == me.outcome = "succeeded"
           run == [status |-> me.outcome, version |-> me.version,
                   result |-> IF passed THEN [context |-> me.context, bars |-> me.next]
                                        ELSE NoResult,
                   retry_of |-> job.retry_of]
           verdict == [run |-> me.job, outcome |-> IF passed THEN "passed" ELSE "failed"]
<1>1. CASE ~ExitOnError(w)
  <2>1. /\ me.job \in RunIds /\ me \in WorkerMemory
        /\ me.outcome \in {"succeeded", "failed"}
        /\ job \in JobRows
    BY DEF FinishRun, RunPhases, TypeInv, TypeOK, WorkerShape
  <2>2. /\ jobs' = [jobs EXCEPT ![me.job] = [@ EXCEPT !.status = me.outcome, !.token = 0,
                                                      !.lease = None]]
        /\ formal_runs' = [formal_runs EXCEPT ![me.job] = run]
        /\ merge_validations' = [merge_validations EXCEPT ![job.validation] = verdict]
        /\ workers' = [workers EXCEPT ![w] = IdleWorker]
        /\ UNCHANGED <<candidates, run_specs, verify_jobs, preparations, checkpoints, faults>>
    BY <1>1 DEF FinishRun
  <2>3. jobs' \in [RunIds -> JobRows]
    <3>1. /\ me.outcome \in Maybe(Active \cup Terminal)
          /\ 0 \in Nat
          /\ None \in Maybe({"live", "expired"})
      BY <2>1 DEF Maybe, Terminal
    <3>2. [job EXCEPT !.status = me.outcome, !.token = 0, !.lease = None] \in JobRows
      BY <2>1, <3>1, JobField, Zenon
    <3> QED
      BY <2>1, <2>2, <3>2 DEF TypeInv, TypeOK
  <2>4. run \in RunRows
    <3>1. [context |-> me.context, bars |-> me.next] \in Results
      BY <2>1 DEF Results, WorkerMemory
    <3>2. NoResult \in Results
      BY PositiveBars DEF Results, NoResult, Maybe
    <3>3. me.outcome \in Maybe(Terminal) /\ me.version \in Nat /\ job.retry_of \in Maybe(RunIds)
      BY <2>1 DEF WorkerMemory, JobRows, Maybe, Terminal
    <3> QED
      BY <3>1, <3>2, <3>3 DEF RunRows
  <2>5. verdict \in Maybe([run : RunIds, outcome : {"passed", "failed", "not_run"}])
    BY <2>1 DEF Maybe
  <2>6. workers' \in [Workers -> WorkerMemory] /\ WorkerShape'
    BY <2>2, TypeRest
  <2> HIDE DEF run, verdict, job, me
  <2> QED
    BY <2>2, <2>3, <2>4, <2>5, <2>6 DEF TypeInv, TypeOK
<1> QED
  BY <1>1, TypeExitOnError

LEMMA TypeStep == TypeInv /\ [Next]_vars => TypeInv'
<1> SUFFICES ASSUME TypeInv, [Next]_vars
             PROVE  TypeInv'
  OBVIOUS
<1>1. CASE GraphStep \/ ClientStep
  BY <1>1, TypeClient
<1>2. ASSUME NEW w \in Workers, WorkerStep(w)
      PROVE  TypeInv'
  BY <1>2, TypeClaimRun, TypeVerification, TypePrepare, TypePublish, TypeLoad, TypePersist,
     TypeFinalize, TypeExecute, TypeFinishRun
     DEF WorkerStep, RunStep
<1>3. CASE (\E w \in Workers : Crash(w) \/ Restart(w)) \/ Time
  BY <1>3, TypeProcessesAndTime
<1>4. CASE UNCHANGED vars
  BY <1>4 DEF vars, Ledger, TypeInv, TypeOK, WorkerShape
<1> QED
  BY <1>1, <1>2, <1>3, <1>4 DEF Next

\* However many workers, runs, tapes and bars there are, the rows and the memory
\* of the workers keep their shapes, and no cursor ever passes the last bar.
THEOREM TypeCorrect == Spec => []TypeOK
<1>1. Init => TypeInv
  BY TypeInit
<1>2. TypeInv /\ [Next]_vars => TypeInv'
  BY TypeStep
<1>3. TypeInv => TypeOK
  BY DEF TypeInv
<1> QED
  BY <1>1, <1>2, <1>3, PTL DEF Spec

-----------------------------------------------------------------------------
(* The inductive invariant behind the claim fence *)

\* A row nobody has requested is blank; one run is executed at a time; a worker on a
\* run holds a token that was drawn for that run; no two of them hold the same one.
ClaimInv ==
    /\ \A r \in RunIds : jobs[r].status = None => jobs[r] = NoJob
    /\ \A r, q \in RunIds : jobs[r].status = "running" /\ jobs[q].status = "running" => r = q
    /\ \A w \in Workers : workers[w].pc \in RunPhases =>
          workers[w].token \in 1..jobs[workers[w].job].epoch
    /\ \A w, x \in Workers :
          /\ workers[w].pc \in RunPhases
          /\ workers[x].pc \in RunPhases
          /\ workers[w].job = workers[x].job
          /\ workers[w].token = workers[x].token
          => w = x

\* What every step other than a claim does to the columns of the claim: no run
\* starts to run, no worker gets on a run, no epoch goes back, no lease comes back.
NoNewClaim ==
    /\ \A r \in RunIds :
          /\ jobs'[r].status = None => jobs'[r] = jobs[r]
          /\ jobs[r].status # None => jobs'[r].epoch = jobs[r].epoch
          /\ jobs'[r].status = "running" =>
                /\ jobs[r].status = "running"
                /\ jobs'[r].token = jobs[r].token
                /\ jobs'[r].version = jobs[r].version
                /\ jobs'[r].lease = "live" => jobs[r].lease = "live"
    /\ \A w \in Workers : workers'[w].pc \in RunPhases =>
          /\ workers[w].pc \in RunPhases
          /\ workers'[w].job = workers[w].job
          /\ workers'[w].version = workers[w].version
          /\ workers'[w].epoch = workers[w].epoch
          /\ workers'[w].token = workers[w].token

LEMMA ClaimInit == Init => ClaimInv
BY NoneIsNothing DEF Init, ClaimInv, IdleWorker, NoJob, RunPhases, Active

LEMMA NoNewClaimKeepsClaims ==
    ASSUME TypeInv, ClaimInv, NoNewClaim
    PROVE  ClaimInv'
<1>1. \A r \in RunIds : jobs'[r].status = None => jobs'[r] = NoJob
  BY DEF ClaimInv, NoNewClaim
<1>2. \A r, q \in RunIds : jobs'[r].status = "running" /\ jobs'[q].status = "running" => r = q
  BY DEF ClaimInv, NoNewClaim
<1>3. ASSUME NEW w \in Workers, workers'[w].pc \in RunPhases
      PROVE  workers'[w].token \in 1..jobs'[workers'[w].job].epoch
  <2>1. /\ workers'[w].job = workers[w].job
        /\ workers'[w].token = workers[w].token
        /\ workers[w].job \in RunIds
        /\ workers[w].token \in 1..jobs[workers[w].job].epoch
    BY <1>3 DEF ClaimInv, NoNewClaim, TypeInv, WorkerShape
  <2>2. jobs[workers[w].job].status # None
    BY <2>1 DEF ClaimInv, NoJob
  <2> QED
    BY <2>1, <2>2 DEF NoNewClaim
<1>4. \A w, x \in Workers :
          /\ workers'[w].pc \in RunPhases
          /\ workers'[x].pc \in RunPhases
          /\ workers'[w].job = workers'[x].job
          /\ workers'[w].token = workers'[x].token
          => w = x
  BY DEF ClaimInv, NoNewClaim
<1> QED
  BY <1>1, <1>2, <1>3, <1>4 DEF ClaimInv

\* A claim takes a run that nobody runs, or that was running already, and draws a
\* token above every token of that run.
LEMMA ClaimRunKeepsClaims ==
    ASSUME TypeInv, ClaimInv, NEW w \in Workers, NEW r \in RunIds, ClaimRun(w, r)
    PROVE  ClaimInv'
<1>1. /\ jobs'[r].status = "running"
      /\ jobs'[r].epoch = jobs[r].epoch + 1
      /\ jobs[r].epoch \in Nat
      /\ \A q \in RunIds : q # r => jobs'[q] = jobs[q]
  BY DEF TypeInv, TypeOK, JobRows, ClaimRun
<1>2. /\ workers'[w].job = r
      /\ workers'[w].token = jobs[r].epoch + 1
      /\ \A x \in Workers : x # w => workers'[x] = workers[x]
  BY DEF TypeInv, TypeOK, ClaimRun, IdleWorker
<1>3. \A q \in RunIds : jobs[q].status = "running" => q = r
  BY DEF ClaimInv, ClaimRun, ClaimableRuns, NoFormalRunning, Unleased
<1>4. \A q \in RunIds : jobs'[q].status = None => jobs'[q] = NoJob
  BY <1>1, NoneIsNothing DEF ClaimInv, Active
<1>5. \A q, s \in RunIds : jobs'[q].status = "running" /\ jobs'[s].status = "running" => q = s
  BY <1>1, <1>3
<1>6. \A x \in Workers : workers[x].pc \in RunPhases =>
          /\ workers[x].job \in RunIds
          /\ workers[x].token \in 1..jobs[workers[x].job].epoch
  BY DEF ClaimInv, TypeInv, WorkerShape
<1>7. \A x \in Workers : workers'[x].pc \in RunPhases =>
          workers'[x].token \in 1..jobs'[workers'[x].job].epoch
  <2> TAKE x \in Workers
  <2>1. CASE x = w
    BY <1>1, <1>2, <2>1
  <2>2. CASE x # w
    BY <1>1, <1>2, <1>6, <2>2
  <2> QED
    BY <2>1, <2>2
<1>8. \A x, y \in Workers :
          /\ workers'[x].pc \in RunPhases
          /\ workers'[y].pc \in RunPhases
          /\ workers'[x].job = workers'[y].job
          /\ workers'[x].token = workers'[y].token
          => x = y
  <2>1. \A x \in Workers : x # w /\ workers'[x].pc \in RunPhases /\ workers'[x].job = r =>
             workers'[x].token # workers'[w].token
    BY <1>1, <1>2, <1>6
  <2> QED
    BY <1>2, <2>1 DEF ClaimInv
<1> QED
  BY <1>4, <1>5, <1>7, <1>8 DEF ClaimInv

\* The steps that leave the workers alone.
LEMMA ClientsMakeNoClaim ==
    ASSUME TypeInv, ClaimInv, GraphStep \/ ClientStep \/ Time
    PROVE  NoNewClaim
<1>1. UNCHANGED workers
  BY DEF GraphStep, ClientStep, Time, CreateCandidate, MoveHeads, Request, Retry, Cancel, Capture,
         AbandonedLeaseExpires, HeldLeaseExpires, ExpireLease
<1>2. SUFFICES \A r \in RunIds :
                 /\ jobs'[r].status = None => jobs'[r] = jobs[r]
                 /\ jobs[r].status # None => jobs'[r].epoch = jobs[r].epoch
                 /\ jobs'[r].status = "running" =>
                       /\ jobs[r].status = "running"
                       /\ jobs'[r].token = jobs[r].token
                       /\ jobs'[r].version = jobs[r].version
                       /\ jobs'[r].lease = "live" => jobs[r].lease = "live"
  BY <1>1 DEF NoNewClaim
<1>3. ASSUME NEW r \in RunIds, jobs[r].status = None, jobs'[r].status = "pending",
             \A q \in RunIds : q # r => jobs'[q] = jobs[q]
      PROVE  <1>2!1
  BY <1>3, NoneIsNothing DEF Active
<1>4. CASE UNCHANGED jobs
  BY <1>4
<1>5. ASSUME NEW r \in RunIds, Cancel(r, jobs[r].status, jobs[r].version)
      PROVE  <1>2!1
  <2>1. /\ jobs'[r].status = "cancelled"
        /\ jobs'[r].epoch = jobs[r].epoch
        /\ \A q \in RunIds : q # r => jobs'[q] = jobs[q]
    BY <1>5 DEF Cancel, TypeInv, TypeOK, JobRows
  <2> QED
    BY <2>1, NoneIsNothing DEF Terminal
<1>6. ASSUME NEW r \in RunIds, ExpireLease(r)
      PROVE  <1>2!1
  <2>1. /\ jobs[r].status = "running"
        /\ jobs'[r].status = "running" /\ jobs'[r].lease = "expired"
        /\ jobs'[r].epoch = jobs[r].epoch
        /\ jobs'[r].token = jobs[r].token
        /\ jobs'[r].version = jobs[r].version
        /\ \A q \in RunIds : q # r => jobs'[q] = jobs[q]
    BY <1>6 DEF ExpireLease, TypeInv, TypeOK, JobRows
  <2> QED
    BY <2>1, NoneIsNothing DEF Active
<1>7. ASSUME NEW r \in RunIds, NEW v \in ValidationIds, NEW s \in RunSpecIds,
             NEW c \in CandidateIds, NEW p \in Policies, Request(r, v, s, c, p)
      PROVE  <1>2!1
  <2>1. PICK stamp \in Stamps : jobs' = [jobs EXCEPT ![r] = QueuedJob(s, v, None, stamp)]
    BY <1>7 DEF Request
  <2>2. jobs'[r].status = "pending" /\ \A q \in RunIds : q # r => jobs'[q] = jobs[q]
    BY <2>1 DEF QueuedJob, NoJob, TypeInv, TypeOK
  <2> QED
    BY <1>3, <1>7, <2>2 DEF Request, Unused
<1>8. ASSUME NEW r \in RunIds, NEW v \in ValidationIds, NEW source \in RunIds,
             Retry(source, r, v)
      PROVE  <1>2!1
  <2>1. PICK stamp \in Stamps :
           jobs' = [jobs EXCEPT ![r] = QueuedJob(jobs[source].spec, v, source, stamp)]
    BY <1>8 DEF Retry
  <2>2. jobs'[r].status = "pending" /\ \A q \in RunIds : q # r => jobs'[q] = jobs[q]
    BY <2>1 DEF QueuedJob, NoJob, TypeInv, TypeOK
  <2> QED
    BY <1>3, <1>8, <2>2 DEF Retry, Unused
<1> QED
  BY <1>4, <1>5, <1>6, <1>7, <1>8
     DEF GraphStep, ClientStep, Time, CreateCandidate, MoveHeads, Capture,
         AbandonedLeaseExpires, HeldLeaseExpires

\* The steps of a worker that leave the jobs alone, and those that move its own job.
LEMMA WorkersMakeNoClaim ==
    ASSUME TypeInv, ClaimInv, NEW w \in Workers,
           \/ RunStep(w) \/ FinishVerification(w) \/ Crash(w) \/ Restart(w)
           \/ \E v \in VerifyIds : ClaimVerification(w, v)
    PROVE  NoNewClaim
<1> DEFINE JobsKept(r) ==
               /\ jobs'[r].status = None => jobs'[r] = jobs[r]
               /\ jobs[r].status # None => jobs'[r].epoch = jobs[r].epoch
               /\ jobs'[r].status = "running" =>
                     /\ jobs[r].status = "running"
                     /\ jobs'[r].token = jobs[r].token
                     /\ jobs'[r].version = jobs[r].version
                     /\ jobs'[r].lease = "live" => jobs[r].lease = "live"
           WorkerKept(x) ==
               workers'[x].pc \in RunPhases =>
                  /\ workers[x].pc \in RunPhases
                  /\ workers'[x].job = workers[x].job
                  /\ workers'[x].version = workers[x].version
                  /\ workers'[x].epoch = workers[x].epoch
                  /\ workers'[x].token = workers[x].token
<1>1. workers \in [Workers -> WorkerMemory] /\ jobs \in [RunIds -> JobRows]
  BY DEF TypeInv, TypeOK
<1>2. \A x \in Workers : x # w => workers'[x] = workers[x]
  BY <1>1 DEF RunStep, Prepare, PublishPreparation, LoadCheckpoint, PersistCheckpoint, Finalize,
              Execute, FinishRun, GiveUp, ExitOnError, FinishVerification, Crash, Restart,
              ClaimVerification
<1>3. ASSUME workers'[w].pc \notin RunPhases \/ WorkerKept(w), \A r \in RunIds : JobsKept(r)
      PROVE  NoNewClaim
  BY <1>2, <1>3 DEF NoNewClaim
<1>4. \/ ExitOnError(w) \/ FinishVerification(w) \/ Crash(w) \/ Restart(w)
      \/ \E v \in VerifyIds : ClaimVerification(w, v)
      => NoNewClaim
  <2>1. \/ ExitOnError(w) \/ FinishVerification(w) \/ Crash(w) \/ Restart(w)
        \/ \E v \in VerifyIds : ClaimVerification(w, v)
        => workers'[w].pc \in {"idle", "exited", "verify"} /\ UNCHANGED jobs
    <3>1. ExitOnError(w) \/ Crash(w) => workers'[w].pc = "exited" /\ UNCHANGED jobs
      BY <1>1 DEF ExitOnError, Crash, IdleWorker
    <3>2. FinishVerification(w) \/ Restart(w) => workers'[w].pc = "idle" /\ UNCHANGED jobs
      BY <1>1 DEF FinishVerification, Restart, IdleWorker
    <3>3. ASSUME NEW v \in VerifyIds, ClaimVerification(w, v)
          PROVE  workers'[w].pc = "verify" /\ UNCHANGED jobs
      BY <1>1, <3>3 DEF ClaimVerification, IdleWorker
    <3> QED
      BY <3>1, <3>2, <3>3
  <2> QED
    BY <1>3, <2>1 DEF RunPhases
<1>5. (\E fenced \in BOOLEAN : GiveUp(w, fenced)) /\ workers[w].pc \in RunPhases => NoNewClaim
  <2>1. (\E fenced \in BOOLEAN : GiveUp(w, fenced)) => UNCHANGED jobs
    BY DEF GiveUp
  <2>2. (\E fenced \in BOOLEAN : GiveUp(w, fenced)) /\ workers[w].pc \in RunPhases => WorkerKept(w)
    BY <1>1 DEF GiveUp, WorkerMemory, RunPhases
  <2> QED
    BY <1>3, <2>1, <2>2
<1>6. ASSUME Prepare(w) \/ PublishPreparation(w) \/ LoadCheckpoint(w) \/ Finalize(w) \/ Execute(w)
      PROVE  NoNewClaim
  <2>1. UNCHANGED jobs
    BY <1>6 DEF Prepare, PublishPreparation, LoadCheckpoint, Finalize, Execute, GiveUp, ExitOnError
  <2>2. CASE Prepare(w) /\ ~ExitOnError(w)
    <3>1. WorkerKept(w)
      BY <1>1, <2>2 DEF Prepare, GiveUp, WorkerMemory, RunPhases
    <3> QED
      BY <1>3, <2>1, <3>1
  <2>3. CASE PublishPreparation(w) /\ ~ExitOnError(w)
    <3>1. PICK adopted \in BOOLEAN :
             workers' = [workers EXCEPT ![w].pc = "load", ![w].adopted = adopted]
      BY <2>3, LoadsNext
    <3>2. WorkerKept(w)
      BY <1>1, <2>3, <3>1 DEF PublishPreparation, WorkerMemory, RunPhases
    <3> QED
      BY <1>3, <2>1, <3>2
  <2>4. CASE LoadCheckpoint(w)
    <3>1. WorkerKept(w)
      BY <1>1, <2>4 DEF LoadCheckpoint, GiveUp, WorkerMemory, RunPhases
    <3> QED
      BY <1>3, <2>1, <3>1
  <2>5. CASE Finalize(w)
    <3>1. WorkerKept(w)
      BY <1>1, <2>5 DEF Finalize, WorkerMemory, RunPhases
    <3> QED
      BY <1>3, <2>1, <3>1
  <2>6. CASE Execute(w)
    <3>1. CASE GiveUp(w, FALSE)
      BY <1>5, <2>6, <3>1 DEF Execute, RunPhases
    <3>2. CASE ~GiveUp(w, FALSE)
      <4>1. PICK tape \in Tapes :
               workers' = [workers EXCEPT ![w].pc = "finish", ![w].outcome = "succeeded",
                                          ![w].context = Context(workers[w].job, tape),
                                          ![w].next = TotalBars]
        BY <2>6, <3>2 DEF Execute
      <4>2. WorkerKept(w)
        BY <1>1, <2>6, <4>1 DEF Execute, WorkerMemory, RunPhases
      <4> QED
        BY <1>3, <2>1, <4>2
    <3> QED
      BY <3>1, <3>2
  <2> QED
    BY <1>4, <1>6, <2>2, <2>3, <2>4, <2>5, <2>6
<1>7. ASSUME PersistCheckpoint(w), ~ExitOnError(w), ~GiveUp(w, workers[w].seq > 0)
      PROVE  NoNewClaim
  <2>1. /\ workers[w].pc = "step"
        /\ workers[w].job \in RunIds
        /\ LiveClaim(w)
        /\ jobs' = [jobs EXCEPT ![workers[w].job] =
              [@ EXCEPT !.seq = workers[w].seq + 1, !.next = NextCursor(workers[w].next),
                        !.context = workers[w].context]]
        /\ workers' = [workers EXCEPT ![w].seq = workers[w].seq + 1,
                                      ![w].next = NextCursor(workers[w].next)]
    BY <1>7 DEF PersistCheckpoint, TypeInv, WorkerShape, RunPhases
  <2>2. WorkerKept(w)
    BY <1>1, <2>1 DEF WorkerMemory, RunPhases
  <2>3. /\ jobs[workers[w].job].status = "running"
        /\ jobs'[workers[w].job].status = "running"
        /\ jobs'[workers[w].job].token = jobs[workers[w].job].token
        /\ jobs'[workers[w].job].version = jobs[workers[w].job].version
        /\ jobs'[workers[w].job].epoch = jobs[workers[w].job].epoch
        /\ jobs'[workers[w].job].lease = jobs[workers[w].job].lease
        /\ \A q \in RunIds : q # workers[w].job => jobs'[q] = jobs[q]
    BY <1>1, <2>1 DEF JobRows, LiveClaim
  <2>4. \A r \in RunIds : JobsKept(r)
    BY <2>3, NoneIsNothing DEF Active
  <2> QED
    BY <1>3, <2>2, <2>4
<1>8. ASSUME FinishRun(w), ~ExitOnError(w)
      PROVE  NoNewClaim
  <2>1. /\ workers[w].job \in RunIds
        /\ workers[w].outcome \in {"succeeded", "failed"}
        /\ jobs' = [jobs EXCEPT ![workers[w].job] =
              [@ EXCEPT !.status = workers[w].outcome, !.token = 0, !.lease = None]]
        /\ workers' = [workers EXCEPT ![w] = IdleWorker]
    BY <1>8 DEF FinishRun, TypeInv, WorkerShape, RunPhases
  <2>2. workers'[w].pc = "idle"
    BY <1>1, <2>1 DEF IdleWorker
  <2>3. /\ jobs'[workers[w].job].status = workers[w].outcome
        /\ jobs'[workers[w].job].epoch = jobs[workers[w].job].epoch
        /\ \A q \in RunIds : q # workers[w].job => jobs'[q] = jobs[q]
    BY <1>1, <2>1 DEF JobRows
  <2>4. \A r \in RunIds : JobsKept(r)
    BY <2>1, <2>3, NoneIsNothing DEF Terminal
  <2> QED
    BY <1>3, <2>2, <2>4 DEF RunPhases
<1>9. ASSUME PersistCheckpoint(w), GiveUp(w, workers[w].seq > 0)
      PROVE  NoNewClaim
  <2>1. (workers[w].seq > 0) \in BOOLEAN /\ workers[w].pc \in RunPhases
    BY <1>1, <1>9 DEF WorkerMemory, PersistCheckpoint, RunPhases
  <2> QED
    BY <1>5, <1>9, <2>1, Zenon
<1> QED
  BY <1>4, <1>6, <1>7, <1>8, <1>9 DEF RunStep

LEMMA ClaimStep == TypeInv /\ ClaimInv /\ [Next]_vars => ClaimInv'
<1> SUFFICES ASSUME TypeInv, ClaimInv, [Next]_vars
             PROVE  ClaimInv'
  OBVIOUS
<1>1. CASE GraphStep \/ ClientStep \/ Time
  BY <1>1, ClientsMakeNoClaim, NoNewClaimKeepsClaims
<1>2. ASSUME NEW w \in Workers, WorkerStep(w) \/ Crash(w) \/ Restart(w)
      PROVE  ClaimInv'
  BY <1>2, ClaimRunKeepsClaims, WorkersMakeNoClaim, NoNewClaimKeepsClaims DEF WorkerStep
<1>3. CASE UNCHANGED vars
  BY <1>3 DEF vars, ClaimInv
<1> QED
  BY <1>1, <1>2, <1>3 DEF Next

LEMMA ClaimsHold == Spec => [](TypeInv /\ ClaimInv)
<1>1. Init => TypeInv /\ ClaimInv
  BY TypeInit, ClaimInit
<1>2. TypeInv /\ ClaimInv /\ [Next]_vars => TypeInv' /\ ClaimInv'
  BY TypeStep, ClaimStep
<1> QED
  BY <1>1, <1>2, PTL DEF Spec

LEMMA OneWriter == TypeInv /\ ClaimInv => SingleWriter
<1> SUFFICES ASSUME TypeInv, ClaimInv, NEW w \in Workers, NEW x \in Workers,
                    CanWrite(w), CanWrite(x)
             PROVE  w = x
  BY DEF SingleWriter
<1>1. workers[w].job \in RunIds /\ workers[x].job \in RunIds
  BY DEF CanWrite, TypeInv, WorkerShape
<1>2. workers[w].job = workers[x].job
  BY <1>1 DEF CanWrite, LiveClaim, ClaimInv
<1> QED
  BY <1>2 DEF CanWrite, LiveClaim, ClaimInv

\* However many workers there are and however often leases run out under them, at
\* most one worker of the service can get a write past the claim fence.
THEOREM OneWriterAtATime == Spec => []SingleWriter
BY ClaimsHold, OneWriter, PTL

-----------------------------------------------------------------------------
(* The inductive invariant behind the verdicts, and the shape of every step *)

\* Every requested run has a validation of its own to answer to, and the runs that
\* have ended are recorded as ended.
VerdictInv ==
    /\ \A r \in RunIds : jobs[r].status # None => jobs[r].validation \in ValidationIds
    /\ \A r, q \in RunIds :
          jobs[r].status # None /\ jobs[r].validation = jobs[q].validation => r = q
    /\ SettledTogether

\* A step writes rows of run r only, and of the validation r answers to.
TouchesOnly(r) ==
    /\ \A q \in RunIds : q # r =>
          /\ jobs'[q] = jobs[q]
          /\ formal_runs'[q] = formal_runs[q]
          /\ preparations'[q] = preparations[q]
          /\ checkpoints'[q] = checkpoints[q]
    /\ \A v \in ValidationIds : v # jobs[r].validation => merge_validations'[v] = merge_validations[v]

\* It queues r for a validation nobody uses, or moves r along without ending it ...
StaysOpen(r) ==
    /\ jobs'[r].status \in Active
    /\ formal_runs'[r] = formal_runs[r]
    /\ merge_validations' = merge_validations
    /\ jobs[r].status # None => jobs'[r].validation = jobs[r].validation
    /\ jobs[r].status = None =>
          /\ jobs'[r].validation \in ValidationIds
          /\ \A q \in RunIds : jobs[q].validation # jobs'[r].validation

\* ... or ends r and records how.
Ends(r) ==
    /\ jobs[r].status \in Active
    /\ jobs'[r].status \in Terminal
    /\ jobs'[r].validation = jobs[r].validation
    /\ formal_runs'[r].status = jobs'[r].status
    /\ formal_runs'[r].version = jobs'[r].version
    /\ formal_runs'[r].retry_of = jobs'[r].retry_of
    /\ merge_validations'[jobs[r].validation] = [run |-> r, outcome |-> Verdict(jobs'[r].status)]

MovesOneRun ==
    \E r \in RunIds :
        /\ jobs[r].status \notin Terminal
        /\ TouchesOnly(r)
        /\ StaysOpen(r) \/ Ends(r)

MovesNoRun == UNCHANGED <<jobs, formal_runs, preparations, checkpoints, merge_validations>>

-----------------------------------------------------------------------------
LEMMA VerdictInit == Init => VerdictInv
BY NoneIsNothing DEF Init, VerdictInv, SettledTogether, NoJob, NoRun

LEMMA ClientsMoveOneRun ==
    ASSUME TypeInv, ClaimInv, VerdictInv, GraphStep \/ ClientStep \/ Time
    PROVE  MovesNoRun \/ MovesOneRun
<1>0. jobs \in [RunIds -> JobRows]
  BY DEF TypeInv, TypeOK
<1>1. CASE GraphStep \/ (\E v \in VerifyIds : Capture(v))
  BY <1>1 DEF GraphStep, CreateCandidate, MoveHeads, Capture, Ledger, MovesNoRun
<1>2. ASSUME NEW r \in RunIds, NEW v \in ValidationIds, Unused(r, v),
             jobs'[r].status = "pending", jobs'[r].validation = v,
             \A q \in RunIds : q # r => jobs'[q] = jobs[q],
             UNCHANGED Ledger
      PROVE  MovesOneRun
  BY <1>2, NoneIsNothing
     DEF MovesOneRun, TouchesOnly, StaysOpen, Unused, Ledger, Active, Terminal
<1>3. ASSUME NEW r \in RunIds, NEW v \in ValidationIds, NEW s \in RunSpecIds,
             NEW c \in CandidateIds, NEW p \in Policies, Request(r, v, s, c, p)
      PROVE  MovesOneRun
  <2>1. PICK stamp \in Stamps : jobs' = [jobs EXCEPT ![r] = QueuedJob(s, v, None, stamp)]
    BY <1>3 DEF Request
  <2>2. /\ jobs'[r].status = "pending" /\ jobs'[r].validation = v
        /\ \A q \in RunIds : q # r => jobs'[q] = jobs[q]
    BY <1>0, <2>1 DEF QueuedJob, NoJob
  <2> QED
    BY <1>2, <1>3, <2>2 DEF Request
<1>4. ASSUME NEW r \in RunIds, NEW v \in ValidationIds, NEW source \in RunIds,
             Retry(source, r, v)
      PROVE  MovesOneRun
  <2>1. PICK stamp \in Stamps :
           jobs' = [jobs EXCEPT ![r] = QueuedJob(jobs[source].spec, v, source, stamp)]
    BY <1>4 DEF Retry
  <2>2. /\ jobs'[r].status = "pending" /\ jobs'[r].validation = v
        /\ \A q \in RunIds : q # r => jobs'[q] = jobs[q]
    BY <1>0, <2>1 DEF QueuedJob, NoJob
  <2> QED
    BY <1>2, <1>4, <2>2 DEF Retry
<1>5. ASSUME NEW r \in RunIds, Cancel(r, jobs[r].status, jobs[r].version)
      PROVE  MovesOneRun
  <2>1. jobs[r].status \in Active /\ jobs[r].validation \in ValidationIds
    BY <1>5, NoneIsNothing DEF Cancel, VerdictInv
  <2>2. /\ jobs'[r].status = "cancelled"
        /\ jobs'[r].validation = jobs[r].validation
        /\ jobs'[r].version = jobs[r].version + 1
        /\ jobs'[r].retry_of = jobs[r].retry_of
        /\ \A q \in RunIds : q # r => jobs'[q] = jobs[q]
    BY <1>0, <1>5 DEF Cancel, JobRows
  <2>3. /\ formal_runs'[r] = [status |-> "cancelled", version |-> jobs[r].version + 1,
                              result |-> NoResult, retry_of |-> jobs[r].retry_of]
        /\ \A q \in RunIds : q # r => formal_runs'[q] = formal_runs[q]
    BY <1>5 DEF Cancel, TypeInv, TypeOK
  <2>4. /\ merge_validations'[jobs[r].validation] = [run |-> r, outcome |-> "not_run"]
        /\ \A v \in ValidationIds :
              v # jobs[r].validation => merge_validations'[v] = merge_validations[v]
    BY <1>5, <2>1 DEF Cancel, TypeInv, TypeOK
  <2>5. Verdict("cancelled") = "not_run"
    BY DEF Verdict
  <2>6. Ends(r)
    BY <2>1, <2>2, <2>3, <2>4, <2>5 DEF Ends, Terminal
  <2>7. TouchesOnly(r)
    BY <1>5, <2>2, <2>3, <2>4 DEF TouchesOnly, Cancel
  <2> QED
    BY <2>1, <2>6, <2>7 DEF MovesOneRun, Active, Terminal
<1>6. ASSUME NEW r \in RunIds, ExpireLease(r)
      PROVE  MovesOneRun
  <2>1. /\ jobs[r].status = "running" /\ jobs'[r].status = "running"
        /\ jobs'[r].validation = jobs[r].validation
        /\ \A q \in RunIds : q # r => jobs'[q] = jobs[q]
    BY <1>0, <1>6 DEF ExpireLease, JobRows
  <2> QED
    BY <1>6, <2>1, NoneIsNothing
       DEF ExpireLease, Ledger, MovesOneRun, TouchesOnly, StaysOpen, Active, Terminal
<1> QED
  BY <1>1, <1>3, <1>4, <1>5, <1>6
     DEF GraphStep, ClientStep, Time, AbandonedLeaseExpires, HeldLeaseExpires

LEMMA WorkersMoveOneRun ==
    ASSUME TypeInv, ClaimInv, VerdictInv, NEW w \in Workers,
           WorkerStep(w) \/ Crash(w) \/ Restart(w)
    PROVE  MovesNoRun \/ MovesOneRun
<1> DEFINE me == workers[w]
           job == jobs[me.job]
<1>0. jobs \in [RunIds -> JobRows]
  BY DEF TypeInv, TypeOK
<1>1. CASE \/ Crash(w) \/ Restart(w) \/ FinishVerification(w) \/ ExitOnError(w)
           \/ \E v \in VerifyIds : ClaimVerification(w, v)
           \/ Prepare(w) \/ LoadCheckpoint(w) \/ Finalize(w) \/ Execute(w)
           \/ \E fenced \in BOOLEAN : GiveUp(w, fenced)
  BY <1>1 DEF Crash, Restart, FinishVerification, ExitOnError, ClaimVerification, Prepare,
              LoadCheckpoint, Finalize, Execute, GiveUp, Ledger, MovesNoRun
<1>2. ASSUME NEW r \in RunIds, ClaimRun(w, r)
      PROVE  MovesOneRun
  <2>1. jobs[r].status \in Active
    BY <1>2 DEF ClaimRun, ClaimableRuns, Unleased, Active
  <2>2. /\ jobs'[r].status = "running"
        /\ jobs'[r].validation = jobs[r].validation
        /\ \A q \in RunIds : q # r => jobs'[q] = jobs[q]
    BY <1>0, <1>2 DEF ClaimRun, JobRows
  <2> QED
    BY <1>2, <2>1, <2>2, NoneIsNothing
       DEF ClaimRun, Ledger, MovesOneRun, TouchesOnly, StaysOpen, Active, Terminal
<1>3. ASSUME PublishPreparation(w), ~ExitOnError(w)
      PROVE  MovesOneRun
  <2>1. /\ me.job \in RunIds /\ job.status = "running"
        /\ \A q \in RunIds : q # me.job => preparations'[q] = preparations[q]
    BY <1>3 DEF PublishPreparation, LiveClaim, RunPhases, TypeInv, TypeOK, WorkerShape
  <2> QED
    BY <1>3, <2>1, NoneIsNothing
       DEF PublishPreparation, MovesOneRun, TouchesOnly, StaysOpen, Active, Terminal
<1>4. ASSUME PersistCheckpoint(w), ~ExitOnError(w), ~GiveUp(w, me.seq > 0)
      PROVE  MovesOneRun
  <2>1. /\ me.job \in RunIds /\ job.status = "running"
        /\ jobs' = [jobs EXCEPT ![me.job] =
              [@ EXCEPT !.seq = me.seq + 1, !.next = NextCursor(me.next), !.context = me.context]]
    BY <1>4 DEF PersistCheckpoint, LiveClaim, RunPhases, TypeInv, WorkerShape
  <2>2. /\ jobs'[me.job].status = "running"
        /\ jobs'[me.job].validation = job.validation
        /\ \A q \in RunIds : q # me.job => jobs'[q] = jobs[q]
    BY <1>0, <2>1 DEF JobRows
  <2>3. \A q \in RunIds : q # me.job => checkpoints'[q] = checkpoints[q]
    BY <1>4, <2>1 DEF PersistCheckpoint, TypeInv, TypeOK
  <2> QED
    BY <1>4, <2>1, <2>2, <2>3, NoneIsNothing
       DEF PersistCheckpoint, MovesOneRun, TouchesOnly, StaysOpen, Active, Terminal
<1>5. ASSUME FinishRun(w), ~ExitOnError(w)
      PROVE  MovesOneRun
  <2>1. /\ me.job \in RunIds
        /\ me.outcome \in {"succeeded", "failed"}
        /\ job.status = "running"
        /\ job.version = me.version
        /\ job.validation \in ValidationIds
    BY <1>5, NoneIsNothing
       DEF FinishRun, LiveClaim, RunPhases, TypeInv, WorkerShape, VerdictInv, Active
  <2>2. jobs' = [jobs EXCEPT ![me.job] = [@ EXCEPT !.status = me.outcome, !.token = 0,
                                                   !.lease = None]]
    BY <1>5 DEF FinishRun
  <2>3. /\ jobs'[me.job].status = me.outcome
        /\ jobs'[me.job].validation = job.validation
        /\ jobs'[me.job].version = job.version
        /\ jobs'[me.job].retry_of = job.retry_of
        /\ \A q \in RunIds : q # me.job => jobs'[q] = jobs[q]
    BY <1>0, <2>1, <2>2 DEF JobRows
  <2>4. /\ formal_runs'[me.job].status = me.outcome
        /\ formal_runs'[me.job].version = me.version
        /\ formal_runs'[me.job].retry_of = job.retry_of
        /\ \A q \in RunIds : q # me.job => formal_runs'[q] = formal_runs[q]
    BY <1>5, <2>1 DEF FinishRun, TypeInv, TypeOK
  <2>5. /\ merge_validations'[job.validation] =
              [run |-> me.job, outcome |-> IF me.outcome = "succeeded" THEN "passed" ELSE "failed"]
        /\ \A v \in ValidationIds :
              v # job.validation => merge_validations'[v] = merge_validations[v]
    BY <1>5, <2>1 DEF FinishRun, TypeInv, TypeOK
  <2>6. Verdict(me.outcome) = IF me.outcome = "succeeded" THEN "passed" ELSE "failed"
    BY <2>1 DEF Verdict
  <2>7. Ends(me.job)
    BY <2>1, <2>3, <2>4, <2>5, <2>6 DEF Ends, Active, Terminal
  <2>8. TouchesOnly(me.job)
    BY <1>5, <2>3, <2>4, <2>5 DEF TouchesOnly, FinishRun
  <2> QED
    BY <2>1, <2>7, <2>8 DEF MovesOneRun, Terminal
<1>6. (me.seq > 0) \in BOOLEAN
  BY DEF TypeInv, TypeOK, WorkerMemory
<1> QED
  BY <1>1, <1>2, <1>3, <1>4, <1>5, <1>6 DEF WorkerStep, RunStep

LEMMA EveryStepMovesOneRun ==
    ASSUME TypeInv, ClaimInv, VerdictInv, [Next]_vars
    PROVE  MovesNoRun \/ MovesOneRun
<1>1. CASE UNCHANGED vars
  BY <1>1 DEF vars, Ledger, MovesNoRun
<1> QED
  BY <1>1, ClientsMoveOneRun, WorkersMoveOneRun DEF Next

-----------------------------------------------------------------------------
LEMMA VerdictStep == TypeInv /\ ClaimInv /\ VerdictInv /\ [Next]_vars => VerdictInv'
<1> SUFFICES ASSUME TypeInv, ClaimInv, VerdictInv, [Next]_vars
             PROVE  VerdictInv'
  OBVIOUS
<1>1. CASE MovesNoRun
  BY <1>1 DEF MovesNoRun, VerdictInv, SettledTogether
<1>2. ASSUME NEW r \in RunIds, jobs[r].status \notin Terminal, TouchesOnly(r),
             StaysOpen(r) \/ Ends(r)
      PROVE  VerdictInv'
  <2>1. /\ jobs'[r].status # None
        /\ jobs'[r].validation \in ValidationIds
        /\ jobs'[r].validation = jobs[r].validation
           \/ \A q \in RunIds : jobs[q].validation # jobs'[r].validation
    BY <1>2, NoneIsNothing DEF StaysOpen, Ends, VerdictInv
  <2>2. \A q \in RunIds : q # r => jobs'[q] = jobs[q]
    BY <1>2 DEF TouchesOnly
  <2>3. \A q, p \in RunIds :
           jobs'[q].status # None /\ jobs'[q].validation = jobs'[p].validation => q = p
    <3> SUFFICES ASSUME NEW q \in RunIds, NEW p \in RunIds, q # p,
                        jobs'[q].status # None, jobs'[q].validation = jobs'[p].validation
                 PROVE  FALSE
      OBVIOUS
    <3>1. CASE q # r /\ p # r
      BY <2>2, <3>1 DEF VerdictInv
    <3>2. CASE q = r
      <4>1. jobs'[p] = jobs[p] /\ jobs'[r].validation = jobs[p].validation
        BY <2>2, <3>2
      <4>2. jobs'[r].validation = jobs[r].validation
        BY <2>1, <4>1
      <4>3. jobs[r].status # None
        BY <2>1, <4>2, NoneIsNothing DEF ClaimInv, NoJob
      <4> QED
        BY <3>2, <4>1, <4>2, <4>3 DEF VerdictInv
    <3>3. CASE p = r
      BY <2>1, <2>2, <3>3 DEF VerdictInv
    <3> QED
      BY <3>1, <3>2, <3>3
  <2>4. SettledTogether'
    <3> SUFFICES ASSUME NEW q \in RunIds
                 PROVE  /\ (formal_runs'[q].status # None) <=> (jobs'[q].status \in Terminal)
                        /\ formal_runs'[q].status # None =>
                              /\ formal_runs'[q].status = jobs'[q].status
                              /\ formal_runs'[q].version = jobs'[q].version
                              /\ formal_runs'[q].retry_of = jobs'[q].retry_of
                              /\ merge_validations'[jobs'[q].validation] =
                                    [run |-> q, outcome |-> Verdict(formal_runs'[q].status)]
      BY DEF SettledTogether
    <3>1. CASE q # r
      <4>1. /\ jobs'[q] = jobs[q]
            /\ formal_runs'[q] = formal_runs[q]
        BY <1>2, <3>1 DEF TouchesOnly
      <4>2. formal_runs[q].status # None => jobs[q].status \in Terminal
        BY DEF VerdictInv, SettledTogether
      <4>3. jobs[q].status \in Terminal =>
               /\ jobs[q].validation \in ValidationIds
               /\ jobs[q].validation # jobs[r].validation
        BY <3>1, NoneIsNothing DEF VerdictInv
      <4>4. jobs[q].status \in Terminal =>
               merge_validations'[jobs[q].validation] = merge_validations[jobs[q].validation]
        BY <1>2, <4>3 DEF TouchesOnly
      <4> QED
        BY <4>1, <4>2, <4>4 DEF VerdictInv, SettledTogether
    <3>2. CASE q = r /\ StaysOpen(r)
      <4>1. formal_runs[r].status = None /\ jobs'[r].status \in Active
        BY <1>2, <3>2 DEF VerdictInv, SettledTogether, StaysOpen
      <4> QED
        BY <3>2, <4>1 DEF StaysOpen, Active, Terminal
    <3>3. CASE q = r /\ Ends(r)
      BY <3>3, NoneIsNothing DEF Ends
    <3> QED
      BY <1>2, <3>1, <3>2, <3>3
  <2>5. \A q \in RunIds : jobs'[q].status # None => jobs'[q].validation \in ValidationIds
    BY <2>1, <2>2 DEF VerdictInv
  <2> QED
    BY <2>3, <2>4, <2>5 DEF VerdictInv
<1> QED
  BY <1>1, <1>2, EveryStepMovesOneRun DEF MovesOneRun

LEMMA VerdictsHold == Spec => [](TypeInv /\ ClaimInv /\ VerdictInv)
<1>1. Init => TypeInv /\ ClaimInv /\ VerdictInv
  BY TypeInit, ClaimInit, VerdictInit
<1>2. TypeInv /\ ClaimInv /\ VerdictInv /\ [Next]_vars => TypeInv' /\ ClaimInv' /\ VerdictInv'
  BY TypeStep, ClaimStep, VerdictStep
<1> QED
  BY <1>1, <1>2, PTL DEF Spec

\* A run's job, its terminal record and the validation it answers to always tell the
\* same story, however cancellation, completion and retry race.
THEOREM RunsSettleTogether == Spec => []SettledTogether
<1>1. TypeInv /\ ClaimInv /\ VerdictInv => SettledTogether
  BY DEF VerdictInv
<1> QED
  BY <1>1, VerdictsHold, PTL

\* The step formula of SettledForever.
NothingOfTheEndedChanges ==
    \A r \in RunIds : formal_runs[r].status # None =>
        /\ jobs'[r] = jobs[r]
        /\ formal_runs'[r] = formal_runs[r]
        /\ preparations'[r] = preparations[r]
        /\ checkpoints'[r] = checkpoints[r]
        /\ merge_validations'[jobs[r].validation] = merge_validations[jobs[r].validation]

LEMMA EndedStaysEnded ==
    ASSUME TypeInv, ClaimInv, VerdictInv, [Next]_vars
    PROVE  NothingOfTheEndedChanges
<1>1. CASE MovesNoRun
  BY <1>1 DEF MovesNoRun, NothingOfTheEndedChanges
<1>2. ASSUME NEW r \in RunIds, jobs[r].status \notin Terminal, TouchesOnly(r)
      PROVE  NothingOfTheEndedChanges
  <2> SUFFICES ASSUME NEW q \in RunIds, formal_runs[q].status # None
               PROVE  /\ jobs'[q] = jobs[q]
                      /\ formal_runs'[q] = formal_runs[q]
                      /\ preparations'[q] = preparations[q]
                      /\ checkpoints'[q] = checkpoints[q]
                      /\ merge_validations'[jobs[q].validation] =
                            merge_validations[jobs[q].validation]
    BY DEF NothingOfTheEndedChanges
  <2>1. jobs[q].status \in Terminal
    BY DEF VerdictInv, SettledTogether
  <2>2. q # r
    BY <1>2, <2>1
  <2>3. jobs[q].validation \in ValidationIds /\ jobs[q].validation # jobs[r].validation
    BY <2>1, <2>2, NoneIsNothing DEF VerdictInv
  <2> QED
    BY <1>2, <2>2, <2>3 DEF TouchesOnly
<1> QED
  BY <1>1, <1>2, EveryStepMovesOneRun DEF MovesOneRun

\* No later claim, cancellation, checkpoint or completion, by any worker however late,
\* rewrites the record of a run that has ended.
THEOREM EndedRunsAreHistory == Spec => SettledForever
<1>1. TypeInv /\ ClaimInv /\ VerdictInv /\ [Next]_vars => [NothingOfTheEndedChanges]_vars
  BY EndedStaysEnded
<1>2. Spec => [][NothingOfTheEndedChanges]_vars
  BY <1>1, VerdictsHold, PTL DEF Spec
<1> QED
  BY <1>2 DEF SettledForever, NothingOfTheEndedChanges

-----------------------------------------------------------------------------
(* The calculation of a run: the inductive invariant *)

\* The cursor before the i-th checkpoint.
Before(rows, i) == IF i = 1 THEN 0 ELSE rows[i - 1].next

\* A run that was requested has a registered RunSpec, so that it has a gate policy.
SpecOK(r) ==
    jobs[r].status # None =>
        jobs[r].spec \in RunSpecIds /\ run_specs[jobs[r].spec] \in SpecBodies

\* The checkpoints of a run are one chain, and its job stands at the end of it.
ChainOK(r) ==
    LET rows == checkpoints[r] IN
    /\ \A i \in DOMAIN rows : rows[i].next = NextCursor(Before(rows, i))
    /\ \A i, k \in DOMAIN rows : i <= k => rows[i].epoch <= rows[k].epoch
    /\ \A i \in DOMAIN rows : rows[i].epoch <= jobs[r].epoch
    /\ jobs[r].seq = Len(rows)
    /\ jobs[r].next = Before(rows, Len(rows) + 1)

\* All of it was computed from the preparation, which only a run of m5 has.
TapeOK(r) ==
    LET rows == checkpoints[r] IN
    /\ \A i \in DOMAIN rows : rows[i].context = preparations[r]
    /\ jobs[r].context = IF rows = <<>> THEN None ELSE preparations[r]
    /\ preparations[r] # None => jobs[r].status # None /\ Policy(r) = "m5"
    /\ formal_runs[r].status = "succeeded" =>
          /\ formal_runs[r].result.bars = TotalBars
          /\ Policy(r) = "m5" =>
                formal_runs[r].result = [context |-> preparations[r], bars |-> TotalBars]

\* A worker that has come to the checkpoints, or that finishes a run of m5 with a
\* result, holds the published preparation of its run, be its claim lost or not ...
HoldsTape(w) ==
    LET me == workers[w] IN
    /\ me.pc \in {"prepare", "publish", "load", "step"} => Policy(me.job) = "m5"
    /\ me.pc = "execute" => Policy(me.job) = "m3" /\ ~me.fenced
    /\ me.pc \in {"prepare", "publish", "load", "execute"} => me.seq = 0 /\ me.next = 0
    /\ me.pc \in {"load", "step"} => me.context = preparations[me.job]
    /\ me.pc = "finish" /\ me.outcome = "succeeded" =>
          /\ me.context \in Contexts
          /\ me.next = TotalBars
          /\ Policy(me.job) = "m5" => me.context = preparations[me.job] /\ me.fenced

\* ... and one whose claim is live has the run to itself: nobody has published for it,
\* and the job stands where the worker stands.
StandsWithJob(w) ==
    LET me == workers[w]
        job == jobs[me.job]
    IN
    LiveClaim(w) =>
        /\ me.pc = "publish" => preparations[me.job] = None
        /\ me.pc = "step" => job.seq = me.seq /\ job.next = me.next
        /\ me.pc = "finish" /\ me.fenced =>
              job.seq = me.seq /\ job.next = me.next /\ job.context = me.context

RowsOK(r) == SpecOK(r) /\ ChainOK(r) /\ TapeOK(r)

WorkerOK(w) == workers[w].pc \in RunPhases => HoldsTape(w) /\ StandsWithJob(w)

TapeInv ==
    /\ \A r \in RunIds : RowsOK(r)
    /\ \A w \in Workers : WorkerOK(w)

LEMMA TapeInit == Init => TapeInv
<1> SUFFICES ASSUME Init PROVE TapeInv
  OBVIOUS
<1>1. ASSUME NEW r \in RunIds PROVE RowsOK(r)
  <2>1. jobs[r] = NoJob /\ checkpoints[r] = <<>> /\ preparations[r] = None
        /\ formal_runs[r].status = None
    BY DEF Init, NoRun
  <2> QED
    BY <2>1, NoneIsNothing
       DEF RowsOK, SpecOK, ChainOK, TapeOK, NoJob, Before, Terminal
<1>2. ASSUME NEW w \in Workers PROVE WorkerOK(w)
  BY DEF Init, WorkerOK, IdleWorker, RunPhases
<1> QED
  BY <1>1, <1>2 DEF TapeInv

LEMMA NonEmptyRows ==
    ASSUME NEW S, NEW rows \in Seq(S), rows # <<>>
    PROVE  /\ Len(rows) \in Nat \ {0} /\ DOMAIN rows = 1..Len(rows)
           /\ 1 \in DOMAIN rows /\ rows[1] \in S
           /\ Len(rows) \in DOMAIN rows /\ rows[Len(rows)] \in S
<1>1. Len(rows) \in Nat \ {0} /\ DOMAIN rows = 1..Len(rows)
  BY EmptySeq, LenProperties
<1> QED
  BY <1>1, ElementOfSeq

-----------------------------------------------------------------------------
(* What most steps leave alone *)

\* A step keeps the RunSpec of a run and its cursor; its epoch may grow.
JobStands(r) ==
    /\ jobs'[r].status = None <=> jobs[r].status = None
    /\ jobs'[r].spec = jobs[r].spec
    /\ jobs[r].status # None => run_specs'[jobs[r].spec] = run_specs[jobs[r].spec]
    /\ jobs'[r].seq = jobs[r].seq
    /\ jobs'[r].next = jobs[r].next
    /\ jobs'[r].context = jobs[r].context
    /\ jobs'[r].epoch \in Nat /\ jobs'[r].epoch >= jobs[r].epoch

\* It writes no preparation, no checkpoint and no result of the run.
LedgerStands(r) ==
    /\ checkpoints'[r] = checkpoints[r]
    /\ preparations'[r] = preparations[r]
    /\ formal_runs'[r].status = "succeeded" => formal_runs'[r] = formal_runs[r]

Stands(r) == JobStands(r) /\ LedgerStands(r)

LEMMA StandingRows ==
    ASSUME TypeInv, VerdictInv, NEW r \in RunIds, RowsOK(r), Stands(r)
    PROVE  RowsOK(r)'
<1>1. SpecOK(r)'
  BY DEF RowsOK, SpecOK, Stands, JobStands
<1>2. ChainOK(r)'
  <2>1. \A i \in DOMAIN checkpoints[r] : checkpoints[r][i].epoch \in Nat
    <3>1. checkpoints[r] \in Seq(CheckpointRows)
      BY DEF TypeInv, TypeOK
    <3>2. \A i \in DOMAIN checkpoints[r] : checkpoints[r][i] \in CheckpointRows
      BY <3>1, ElementOfSeq
    <3> QED
      BY <3>2 DEF CheckpointRows
  <2>2. jobs[r].epoch \in Nat
    BY DEF TypeInv, TypeOK, JobRows
  <2>3. \A i \in DOMAIN checkpoints[r] : checkpoints[r][i].epoch <= jobs'[r].epoch
    BY <2>1, <2>2 DEF RowsOK, ChainOK, Stands, JobStands
  <2> QED
    BY <2>3 DEF RowsOK, ChainOK, Stands, JobStands, LedgerStands
<1>3. TapeOK(r)'
  <2>1. jobs[r].status # None => run_specs'[jobs'[r].spec].policy = run_specs[jobs[r].spec].policy
    BY DEF Stands, JobStands
  <2>2. formal_runs[r].status = "succeeded" => jobs[r].status # None
    BY NoneIsNothing DEF VerdictInv, SettledTogether, Terminal
  <2> QED
    BY <2>1, <2>2 DEF RowsOK, TapeOK, Stands, JobStands, LedgerStands, Policy
<1> QED
  BY <1>1, <1>2, <1>3 DEF RowsOK

\* A worker on a run works for a run that was requested.
LEMMA RunOfWorker ==
    ASSUME TypeInv, ClaimInv, NEW w \in Workers, workers[w].pc \in RunPhases
    PROVE  /\ workers[w].job \in RunIds /\ jobs[workers[w].job].status # None
           /\ workers[w] \in WorkerMemory
<1>1. workers[w].job \in RunIds /\ workers[w].token \in 1..jobs[workers[w].job].epoch
      /\ workers[w] \in WorkerMemory
  BY DEF TypeInv, TypeOK, WorkerShape, ClaimInv
<1> QED
  BY <1>1 DEF ClaimInv, NoJob

\* A worker that a step leaves alone, on a run that the step leaves standing.
LEMMA StandingWorker ==
    ASSUME TypeInv, ClaimInv, NEW w \in Workers, WorkerOK(w), workers'[w] = workers[w],
           workers[w].pc \in RunPhases => Stands(workers[w].job),
           workers[w].pc \in RunPhases => (LiveClaim(w)' => LiveClaim(w))
    PROVE  WorkerOK(w)'
<1> SUFFICES ASSUME workers[w].pc \in RunPhases
             PROVE  HoldsTape(w)' /\ StandsWithJob(w)'
  BY DEF WorkerOK
<1> DEFINE r == workers[w].job
<1>1. run_specs'[jobs'[r].spec].policy = run_specs[jobs[r].spec].policy
  BY RunOfWorker DEF Stands, JobStands
<1>2. HoldsTape(w)'
  BY <1>1 DEF WorkerOK, HoldsTape, Policy, Stands, LedgerStands
<1>3. StandsWithJob(w)'
  <2>1. LiveClaim(w)' => StandsWithJob(w) /\ LiveClaim(w)
    BY DEF WorkerOK
  <2> QED
    BY <2>1 DEF StandsWithJob, Stands, JobStands, LedgerStands
<1> QED
  BY <1>2, <1>3

\* A claim that is live after a step other than a claim was live before.
LEMMA LiveStays ==
    ASSUME TypeInv, ClaimInv, NoNewClaim, NEW w \in Workers, workers'[w].pc \in RunPhases,
           LiveClaim(w)'
    PROVE  LiveClaim(w)
<1>1. /\ workers[w].pc \in RunPhases /\ workers'[w].job = workers[w].job
      /\ workers'[w].version = workers[w].version
      /\ workers'[w].epoch = workers[w].epoch
      /\ workers'[w].token = workers[w].token
  BY DEF NoNewClaim
<1>2. workers[w].job \in RunIds /\ jobs[workers[w].job].status # None
  BY <1>1, RunOfWorker
<1> QED
  BY <1>1, <1>2 DEF NoNewClaim, LiveClaim

\* A worker that is on no run after the step says nothing about runs.
LEMMA RestingWorkerOK ==
    ASSUME NEW w \in Workers, workers'[w].pc \notin RunPhases
    PROVE  WorkerOK(w)'
BY DEF WorkerOK

\* All runs stand and one worker moves.
LEMMA OneWorkerMoves ==
    ASSUME TypeInv, ClaimInv, VerdictInv, TapeInv, NoNewClaim,
           \A r \in RunIds : Stands(r),
           NEW w \in Workers, \A x \in Workers : x # w => workers'[x] = workers[x],
           WorkerOK(w)'
    PROVE  TapeInv'
<1>1. \A r \in RunIds : RowsOK(r)'
  BY StandingRows DEF TapeInv
<1>2. ASSUME NEW x \in Workers, x # w PROVE WorkerOK(x)'
  <2>1. workers'[x] = workers[x] /\ WorkerOK(x)
    BY <1>2 DEF TapeInv
  <2>2. workers[x].pc \in RunPhases => Stands(workers[x].job) /\ (LiveClaim(x)' => LiveClaim(x))
    BY <2>1, RunOfWorker, LiveStays
  <2> QED
    BY <2>1, <2>2, StandingWorker
<1> QED
  BY <1>1, <1>2 DEF TapeInv

\* All runs stand and no worker moves.
LEMMA NobodyMoves ==
    ASSUME TypeInv, ClaimInv, VerdictInv, TapeInv, NoNewClaim,
           \A r \in RunIds : Stands(r), UNCHANGED workers
    PROVE  TapeInv'
<1>1. \A r \in RunIds : RowsOK(r)'
  BY StandingRows DEF TapeInv
<1>2. ASSUME NEW x \in Workers PROVE WorkerOK(x)'
  <2>1. workers'[x] = workers[x] /\ WorkerOK(x)
    BY <1>2 DEF TapeInv
  <2>2. workers[x].pc \in RunPhases => Stands(workers[x].job) /\ (LiveClaim(x)' => LiveClaim(x))
    BY <2>1, RunOfWorker, LiveStays
  <2> QED
    BY <2>1, <2>2, StandingWorker
<1> QED
  BY <1>1, <1>2 DEF TapeInv

LEMMA JobsUnchanged ==
    ASSUME TypeInv, UNCHANGED <<jobs, run_specs>>
    PROVE  \A r \in RunIds : JobStands(r)
<1>1. \A r \in RunIds : jobs[r].epoch \in Nat
  BY DEF TypeInv, TypeOK, JobRows
<1> QED
  BY <1>1 DEF JobStands

-----------------------------------------------------------------------------
(* Clients, the graph, time, claims and ends of processes *)

\* A run that nobody requested has nothing recorded of it.
LEMMA BlankRun ==
    ASSUME TypeInv, ClaimInv, VerdictInv, NEW r \in RunIds, RowsOK(r), jobs[r].status = None
    PROVE  /\ jobs[r] = NoJob /\ checkpoints[r] = <<>> /\ preparations[r] = None
           /\ formal_runs[r].status = None
<1>1. jobs[r] = NoJob
  BY DEF ClaimInv
<1>2. Len(checkpoints[r]) = 0 /\ preparations[r] = None
  BY <1>1 DEF RowsOK, ChainOK, TapeOK, NoJob
<1>3. checkpoints[r] = <<>>
  BY <1>2, EmptySeq DEF TypeInv, TypeOK
<1>4. formal_runs[r].status = None
  BY NoneIsNothing DEF VerdictInv, SettledTogether, Terminal
<1> QED
  BY <1>1, <1>2, <1>3, <1>4

\* A queued run starts with nothing recorded of it.
LEMMA QueueKeepsTape ==
    ASSUME TypeInv, ClaimInv, VerdictInv, TapeInv, NoNewClaim,
           NEW r \in RunIds, jobs[r].status = None,
           NEW s \in RunSpecIds, NEW v, NEW source, NEW stamp,
           jobs' = [jobs EXCEPT ![r] = QueuedJob(s, v, source, stamp)],
           run_specs'[s] \in SpecBodies,
           \A t \in RunSpecIds : run_specs[t] # None => run_specs'[t] = run_specs[t],
           UNCHANGED <<Ledger, workers>>
    PROVE  TapeInv'
<1>1. /\ jobs'[r].status = "pending" /\ jobs'[r].spec = s
      /\ jobs'[r].seq = 0 /\ jobs'[r].next = 0 /\ jobs'[r].context = None
      /\ \A q \in RunIds : q # r => jobs'[q] = jobs[q]
  BY DEF QueuedJob, NoJob, TypeInv, TypeOK
<1>2. RowsOK(r)'
  <2>1. /\ checkpoints'[r] = <<>> /\ preparations'[r] = None /\ formal_runs'[r].status = None
    BY BlankRun DEF Ledger, TapeInv
  <2> QED
    BY <1>1, <2>1, NoneIsNothing DEF RowsOK, SpecOK, ChainOK, TapeOK, Before, Terminal
<1>3. ASSUME NEW q \in RunIds, q # r PROVE Stands(q)
  <2>1. jobs[q].status # None => run_specs'[jobs[q].spec] = run_specs[jobs[q].spec]
    BY NoneIsNothing DEF TapeInv, RowsOK, SpecOK
  <2>2. jobs[q].epoch \in Nat /\ jobs'[q] = jobs[q]
    BY <1>1, <1>3 DEF TypeInv, TypeOK, JobRows
  <2> QED
    BY <2>1, <2>2 DEF Stands, JobStands, LedgerStands, Ledger
<1>4. ASSUME NEW x \in Workers PROVE WorkerOK(x)'
  <2>1. workers'[x] = workers[x] /\ WorkerOK(x)
    BY DEF TapeInv
  <2>2. workers[x].pc \in RunPhases => workers[x].job \in RunIds /\ workers[x].job # r
    BY RunOfWorker
  <2>3. workers[x].pc \in RunPhases => Stands(workers[x].job) /\ (LiveClaim(x)' => LiveClaim(x))
    BY <1>3, <2>1, <2>2, LiveStays
  <2> QED
    BY <2>1, <2>3, StandingWorker
<1>5. \A q \in RunIds : q # r => RowsOK(q)'
  BY <1>3, StandingRows DEF TapeInv
<1> QED
  BY <1>2, <1>4, <1>5 DEF TapeInv

LEMMA ClientsKeepTape ==
    ASSUME TypeInv, ClaimInv, VerdictInv, TapeInv, GraphStep \/ ClientStep \/ Time
    PROVE  TapeInv'
<1>0. NoNewClaim
  BY ClientsMakeNoClaim
<1>1. CASE GraphStep \/ (\E v \in VerifyIds : Capture(v))
  <2>1. UNCHANGED <<jobs, run_specs, Ledger, workers>>
    BY <1>1 DEF GraphStep, CreateCandidate, MoveHeads, Capture
  <2>2. \A r \in RunIds : Stands(r)
    BY <2>1, JobsUnchanged DEF Stands, LedgerStands, Ledger
  <2> QED
    BY <1>0, <2>1, <2>2, NobodyMoves
<1>2. ASSUME NEW r \in RunIds, NEW v \in ValidationIds, NEW s \in RunSpecIds,
             NEW c \in CandidateIds, NEW p \in Policies, Request(r, v, s, c, p)
      PROVE  TapeInv'
  <2>1. PICK stamp \in Stamps : jobs' = [jobs EXCEPT ![r] = QueuedJob(s, v, None, stamp)]
    BY <1>2 DEF Request
  <2>2. [candidate |-> c, policy |-> p] \in SpecBodies
    BY DEF SpecBodies
  <2>3. /\ run_specs'[s] \in SpecBodies
        /\ \A t \in RunSpecIds : run_specs[t] # None => run_specs'[t] = run_specs[t]
    BY <1>2, <2>2 DEF Request, TypeInv, TypeOK
  <2>4. jobs[r].status = None /\ UNCHANGED <<Ledger, workers>>
    BY <1>2 DEF Request, Unused
  <2> QED
    BY <1>0, <2>1, <2>3, <2>4, QueueKeepsTape
<1>3. ASSUME NEW r \in RunIds, NEW v \in ValidationIds, NEW source \in RunIds,
             Retry(source, r, v)
      PROVE  TapeInv'
  <2>1. PICK stamp \in Stamps :
           jobs' = [jobs EXCEPT ![r] = QueuedJob(jobs[source].spec, v, source, stamp)]
    BY <1>3 DEF Retry
  <2>2. PICK s : s = jobs[source].spec
    OBVIOUS
  <2>3. jobs[source].status # None
    BY <1>3, NoneIsNothing DEF Retry, VerdictInv, SettledTogether, Terminal
  <2>4. s \in RunSpecIds /\ run_specs[s] \in SpecBodies
    BY <2>2, <2>3 DEF TapeInv, RowsOK, SpecOK
  <2>5. jobs[r].status = None /\ UNCHANGED <<run_specs, Ledger, workers>>
    BY <1>3 DEF Retry, Unused
  <2> QED
    BY <1>0, <2>1, <2>2, <2>4, <2>5, QueueKeepsTape
<1>4. ASSUME NEW r \in RunIds, Cancel(r, jobs[r].status, jobs[r].version)
      PROVE  TapeInv'
  <2>1. /\ jobs[r].status # None /\ jobs'[r].status # None
        /\ jobs'[r].spec = jobs[r].spec /\ jobs'[r].seq = jobs[r].seq
        /\ jobs'[r].next = jobs[r].next /\ jobs'[r].context = jobs[r].context
        /\ jobs'[r].epoch = jobs[r].epoch
        /\ \A q \in RunIds : q # r => jobs'[q] = jobs[q]
    BY <1>4, NoneIsNothing DEF Cancel, TypeInv, TypeOK, JobRows, Active, Terminal
  <2>2. \A q \in RunIds : jobs[q].epoch \in Nat
    BY DEF TypeInv, TypeOK, JobRows
  <2>3. /\ formal_runs'[r].status = "cancelled"
        /\ \A q \in RunIds : q # r => formal_runs'[q] = formal_runs[q]
        /\ UNCHANGED <<run_specs, preparations, checkpoints, workers>>
    BY <1>4 DEF Cancel, TypeInv, TypeOK
  <2>4. ASSUME NEW q \in RunIds PROVE Stands(q)
    <3>1. CASE q = r
      BY <2>1, <2>2, <2>3, <3>1 DEF Stands, JobStands, LedgerStands
    <3>2. CASE q # r
      BY <2>1, <2>2, <2>3, <3>2 DEF Stands, JobStands, LedgerStands
    <3> QED
      BY <3>1, <3>2
  <2> QED
    BY <1>0, <2>3, <2>4, NobodyMoves
<1>5. ASSUME NEW r \in RunIds, ExpireLease(r)
      PROVE  TapeInv'
  <2>1. /\ jobs[r].status # None /\ jobs'[r].status # None
        /\ jobs'[r].spec = jobs[r].spec /\ jobs'[r].seq = jobs[r].seq
        /\ jobs'[r].next = jobs[r].next /\ jobs'[r].context = jobs[r].context
        /\ jobs'[r].epoch = jobs[r].epoch
        /\ \A q \in RunIds : q # r => jobs'[q] = jobs[q]
    BY <1>5, NoneIsNothing DEF ExpireLease, TypeInv, TypeOK, JobRows, Active
  <2>2. \A q \in RunIds : jobs[q].epoch \in Nat
    BY DEF TypeInv, TypeOK, JobRows
  <2>3. UNCHANGED <<run_specs, Ledger, workers>>
    BY <1>5 DEF ExpireLease
  <2>4. ASSUME NEW q \in RunIds PROVE Stands(q)
    <3>1. CASE q = r
      BY <2>1, <2>2, <2>3, <3>1 DEF Stands, JobStands, LedgerStands, Ledger
    <3>2. CASE q # r
      BY <2>1, <2>2, <2>3, <3>2 DEF Stands, JobStands, LedgerStands, Ledger
    <3> QED
      BY <3>1, <3>2
  <2> QED
    BY <1>0, <2>3, <2>4, NobodyMoves
<1> QED
  BY <1>1, <1>2, <1>3, <1>4, <1>5
     DEF GraphStep, ClientStep, Time, AbandonedLeaseExpires, HeldLeaseExpires

\* A claim keeps the cursor of its run, and whoever worked on the run has lost it.
LEMMA ClaimRunKeepsTape ==
    ASSUME TypeInv, ClaimInv, VerdictInv, TapeInv,
           NEW w \in Workers, NEW r \in RunIds, ClaimRun(w, r)
    PROVE  TapeInv'
<1>1. /\ jobs[r].status # None /\ jobs'[r].status = "running"
      /\ jobs'[r].spec = jobs[r].spec /\ jobs'[r].seq = jobs[r].seq
      /\ jobs'[r].next = jobs[r].next /\ jobs'[r].context = jobs[r].context
      /\ jobs'[r].epoch = jobs[r].epoch + 1 /\ jobs'[r].token = jobs[r].epoch + 1
      /\ \A q \in RunIds : q # r => jobs'[q] = jobs[q]
  BY NoneIsNothing
     DEF ClaimRun, ClaimableRuns, Unleased, TypeInv, TypeOK, JobRows, Active
<1>2. \A q \in RunIds : jobs[q].epoch \in Nat
  BY DEF TypeInv, TypeOK, JobRows
<1>3. /\ \A x \in Workers : x # w => workers'[x] = workers[x]
      /\ workers'[w].pc = IF Policy(r) = "m5" THEN "prepare" ELSE "execute"
      /\ workers'[w].job = r /\ workers'[w].seq = 0 /\ workers'[w].next = 0
      /\ workers'[w].fenced = FALSE
      /\ UNCHANGED <<run_specs, Ledger>>
  BY DEF ClaimRun, TypeInv, TypeOK, IdleWorker
<1>4. ASSUME NEW q \in RunIds PROVE Stands(q)
  <2>1. CASE q = r
    BY <1>1, <1>2, <1>3, <2>1, NoneIsNothing DEF Stands, JobStands, LedgerStands, Ledger, Active
  <2>2. CASE q # r
    BY <1>1, <1>2, <1>3, <2>2 DEF Stands, JobStands, LedgerStands, Ledger
  <2> QED
    BY <2>1, <2>2
<1>5. \A q \in RunIds : RowsOK(q)'
  BY <1>4, StandingRows DEF TapeInv
<1>6. ASSUME NEW x \in Workers, x # w PROVE WorkerOK(x)'
  <2>1. workers'[x] = workers[x] /\ WorkerOK(x)
    BY <1>3, <1>6 DEF TapeInv
  <2>2. ASSUME workers[x].pc \in RunPhases PROVE LiveClaim(x)' => LiveClaim(x)
    <3>1. workers[x].job \in RunIds /\ workers[x].token \in 1..jobs[workers[x].job].epoch
      BY <2>2 DEF TypeInv, WorkerShape, ClaimInv
    <3>2. CASE workers[x].job = r
      BY <1>1, <1>2, <2>1, <3>1, <3>2 DEF LiveClaim
    <3>3. CASE workers[x].job # r
      BY <1>1, <2>1, <3>1, <3>3 DEF LiveClaim
    <3> QED
      BY <3>2, <3>3
  <2>3. workers[x].pc \in RunPhases => Stands(workers[x].job)
    BY <1>4, RunOfWorker
  <2> QED
    BY <2>1, <2>2, <2>3, StandingWorker
<1>7. WorkerOK(w)'
  <2>1. run_specs[jobs[r].spec] \in SpecBodies
    BY <1>1 DEF TapeInv, RowsOK, SpecOK
  <2>2. run_specs'[jobs'[r].spec].policy = run_specs[jobs[r].spec].policy
        /\ run_specs[jobs[r].spec].policy \in {"m3", "m5"}
    BY <1>1, <1>3, <2>1 DEF SpecBodies, Policies
  <2>3. HoldsTape(w)'
    BY <1>3, <2>2 DEF HoldsTape, Policy
  <2>4. StandsWithJob(w)'
    BY <1>3 DEF StandsWithJob
  <2> QED
    BY <2>3, <2>4 DEF WorkerOK
<1> QED
  BY <1>5, <1>6, <1>7 DEF TapeInv

\* A worker that leaves its run, or has none, changes nothing of the runs.
LEMMA RestKeepsTape ==
    ASSUME TypeInv, ClaimInv, VerdictInv, TapeInv, NEW w \in Workers,
           \/ ExitOnError(w) \/ FinishVerification(w) \/ Crash(w) \/ Restart(w)
           \/ \E v \in VerifyIds : ClaimVerification(w, v)
    PROVE  TapeInv'
<1>1. UNCHANGED <<jobs, run_specs, Ledger>>
  BY DEF ExitOnError, FinishVerification, Crash, Restart, ClaimVerification
<1>2. /\ \A x \in Workers : x # w => workers'[x] = workers[x]
      /\ workers'[w].pc \in {"idle", "exited", "verify"}
  <2>1. workers \in [Workers -> WorkerMemory]
    BY DEF TypeInv, TypeOK
  <2>2. \A x \in Workers : x # w => workers'[x] = workers[x]
    BY <2>1 DEF ExitOnError, FinishVerification, Crash, Restart, ClaimVerification
  <2>3. ExitOnError(w) \/ Crash(w) => workers'[w].pc = "exited"
    BY <2>1 DEF ExitOnError, Crash, IdleWorker
  <2>4. FinishVerification(w) \/ Restart(w) => workers'[w].pc = "idle"
    BY <2>1 DEF FinishVerification, Restart, IdleWorker
  <2>5. (\E v \in VerifyIds : ClaimVerification(w, v)) => workers'[w].pc = "verify"
    BY <2>1 DEF ClaimVerification, IdleWorker
  <2> QED
    BY <2>2, <2>3, <2>4, <2>5
<1>3. NoNewClaim
  <2>1. workers'[w].pc \notin RunPhases
    BY <1>2 DEF RunPhases
  <2> QED
    BY <1>1, <1>2, <2>1 DEF NoNewClaim
<1>4. \A r \in RunIds : Stands(r)
  BY <1>1, JobsUnchanged DEF Stands, LedgerStands, Ledger
<1>5. WorkerOK(w)'
  BY <1>2, RestingWorkerOK DEF RunPhases
<1> QED
  BY <1>2, <1>3, <1>4, <1>5, OneWorkerMoves

-----------------------------------------------------------------------------
(* The steps of a worker on its run *)

\* A worker that moves while its run stands; what it has in memory is its own affair.
LEMMA WorkerMoves ==
    ASSUME TypeInv, ClaimInv, VerdictInv, TapeInv, NEW w \in Workers, RunStep(w),
           UNCHANGED <<jobs, run_specs, Ledger>>,
           \A x \in Workers : x # w => workers'[x] = workers[x],
           WorkerOK(w)'
    PROVE  TapeInv'
<1>1. NoNewClaim
  BY WorkersMakeNoClaim
<1>2. \A r \in RunIds : Stands(r)
  BY JobsUnchanged DEF Stands, LedgerStands, Ledger
<1> QED
  BY <1>1, <1>2, OneWorkerMoves

\* The claim of a worker that stays on a standing run.
LEMMA SameClaim ==
    ASSUME NEW w \in Workers, UNCHANGED jobs, workers'[w].job = workers[w].job,
           workers'[w].token = workers[w].token, workers'[w].version = workers[w].version,
           workers'[w].epoch = workers[w].epoch, LiveClaim(w)'
    PROVE  LiveClaim(w)
BY DEF LiveClaim

LEMMA GiveUpKeepsTape ==
    ASSUME TypeInv, ClaimInv, VerdictInv, TapeInv, NEW w \in Workers, RunStep(w),
           workers[w].pc \in RunPhases, NEW fenced \in BOOLEAN, GiveUp(w, fenced),
           fenced => workers[w].pc = "step" /\ workers[w].seq > 0
    PROVE  TapeInv'
<1> DEFINE me == workers[w]
           r == me.job
<1>1. /\ \A x \in Workers : x # w => workers'[x] = workers[x]
      /\ workers'[w].pc = "finish" /\ workers'[w].outcome = "failed"
      /\ workers'[w].fenced = fenced
      /\ workers'[w].job = r /\ workers'[w].token = me.token
      /\ workers'[w].version = me.version /\ workers'[w].epoch = me.epoch
      /\ workers'[w].seq = me.seq /\ workers'[w].next = me.next
      /\ workers'[w].context = me.context
      /\ UNCHANGED <<jobs, run_specs, Ledger>>
  BY DEF GiveUp, TypeInv, TypeOK, WorkerMemory
<1>2. HoldsTape(w)'
  BY <1>1 DEF HoldsTape
<1>3. StandsWithJob(w)'
  <2>1. ASSUME fenced, LiveClaim(w)'
        PROVE  jobs[r].seq = me.seq /\ jobs[r].next = me.next /\ jobs[r].context = me.context
    <3>1. LiveClaim(w)
      BY <1>1, <2>1, SameClaim
    <3>2. me.pc = "step" /\ me.seq > 0
      BY <2>1
    <3>3. /\ jobs[r].seq = me.seq /\ jobs[r].next = me.next
          /\ me.context = preparations[r]
      BY <3>1, <3>2 DEF TapeInv, WorkerOK, HoldsTape, StandsWithJob
    <3>4. checkpoints[r] # <<>>
      <4>1. r \in RunIds
        BY RunOfWorker
      <4>2. Len(checkpoints[r]) > 0
        BY <3>2, <3>3, <4>1 DEF TapeInv, RowsOK, ChainOK
      <4> QED
        BY <4>2
    <3>5. jobs[r].context = preparations[r]
      BY <3>4, RunOfWorker DEF TapeInv, RowsOK, TapeOK
    <3> QED
      BY <3>3, <3>5
  <2> QED
    BY <1>1, <2>1 DEF StandsWithJob
<1>4. WorkerOK(w)'
  BY <1>2, <1>3 DEF WorkerOK
<1> QED
  BY <1>1, <1>4, WorkerMoves

LEMMA PrepareKeepsTape ==
    ASSUME TypeInv, ClaimInv, VerdictInv, TapeInv, NEW w \in Workers, Prepare(w)
    PROVE  TapeInv'
<1> DEFINE me == workers[w]
           r == me.job
<1>1. RunStep(w) /\ me.pc \in RunPhases
  BY DEF RunStep, Prepare, RunPhases
<1>2. CASE GiveUp(w, FALSE)
  BY <1>1, <1>2, GiveUpKeepsTape
<1>3. ASSUME NEW pc \in {"load", "publish"}, NEW context,
             workers' = [workers EXCEPT ![w].pc = pc, ![w].context = context],
             pc = "load" => context = preparations[r],
             pc = "publish" => preparations[r] = None,
             UNCHANGED <<jobs, run_specs, Ledger>>
      PROVE  TapeInv'
  <2>1. /\ \A x \in Workers : x # w => workers'[x] = workers[x]
        /\ workers'[w].pc = pc /\ workers'[w].context = context
        /\ workers'[w].job = r /\ workers'[w].seq = me.seq /\ workers'[w].next = me.next
    BY <1>3 DEF TypeInv, TypeOK, WorkerMemory
  <2>2. Policy(r) = "m5" /\ me.seq = 0 /\ me.next = 0
    BY <1>1 DEF Prepare, TapeInv, WorkerOK, HoldsTape
  <2>3. HoldsTape(w)'
    BY <1>3, <2>1, <2>2 DEF HoldsTape, Policy, Ledger
  <2>4. StandsWithJob(w)'
    BY <1>3, <2>1 DEF StandsWithJob, Ledger
  <2>5. WorkerOK(w)'
    BY <2>3, <2>4 DEF WorkerOK
  <2> QED
    BY <1>1, <1>3, <2>1, <2>5, WorkerMoves
<1>4. CASE preparations[r] # None /\ ~GiveUp(w, FALSE)
  <2>1. PICK context : context = preparations[r]
    OBVIOUS
  <2>2. workers' = [workers EXCEPT ![w].pc = "load", ![w].context = context]
        /\ UNCHANGED <<jobs, run_specs, Ledger>>
    BY <1>4, <2>1 DEF Prepare
  <2> QED
    BY <1>3, <2>1, <2>2
<1>5. CASE preparations[r] = None /\ ~GiveUp(w, FALSE) /\ ~ExitOnError(w)
  <2>1. PICK tape \in Tapes :
           workers' = [workers EXCEPT ![w].pc = "publish", ![w].context = Context(r, tape)]
    BY <1>5 DEF Prepare
  <2>2. PICK context : context = Context(r, tape)
    OBVIOUS
  <2>3. workers' = [workers EXCEPT ![w].pc = "publish", ![w].context = context]
        /\ UNCHANGED <<jobs, run_specs, Ledger>>
    BY <1>5, <2>1, <2>2 DEF Prepare
  <2> QED
    BY <1>3, <1>5, <2>3
<1>6. CASE ExitOnError(w)
  BY <1>6, RestKeepsTape
<1> QED
  BY <1>2, <1>4, <1>5, <1>6

\* The latest checkpoint is where the job stands.
LEMMA LatestIsCursor ==
    ASSUME TypeInv, NEW r \in RunIds, RowsOK(r), checkpoints[r] # <<>>
    PROVE  LET rows == checkpoints[r]
               latest == rows[LatestSeq(rows)]
           IN  /\ jobs[r].seq = LatestSeq(rows) /\ jobs[r].next = latest.next
               /\ jobs[r].context = latest.context /\ latest.context = preparations[r]
<1> DEFINE rows == checkpoints[r]
<1>1. Len(rows) \in Nat \ {0} /\ DOMAIN rows = 1..Len(rows)
  <2>1. rows \in Seq(CheckpointRows)
    BY DEF TypeInv, TypeOK
  <2> QED
    BY <2>1, EmptySeq, LenProperties
<1>2. Len(rows) \in DOMAIN rows /\ Len(rows) + 1 # 1 /\ Len(rows) + 1 - 1 = Len(rows)
  BY <1>1
<1> QED
  BY <1>2 DEF RowsOK, ChainOK, TapeOK, LatestSeq, Before

LEMMA LoadKeepsTape ==
    ASSUME TypeInv, ClaimInv, VerdictInv, TapeInv, NEW w \in Workers, LoadCheckpoint(w)
    PROVE  TapeInv'
<1> DEFINE me == workers[w]
           r == me.job
           rows == checkpoints[r]
           latest == rows[LatestSeq(rows)]
<1>1. RunStep(w) /\ me.pc \in RunPhases /\ r \in RunIds /\ me.pc = "load"
  BY RunOfWorker DEF RunStep, LoadCheckpoint, RunPhases
<1>2. RowsOK(r) /\ Policy(r) = "m5" /\ me.seq = 0 /\ me.next = 0 /\ me.context = preparations[r]
  BY <1>1 DEF TapeInv, WorkerOK, HoldsTape
<1>3. CASE GiveUp(w, FALSE)
  BY <1>1, <1>3, GiveUpKeepsTape
<1>4. ASSUME NEW seq, NEW next, seq = jobs[r].seq, next = jobs[r].next,
             /\ \A x \in Workers : x # w => workers'[x] = workers[x]
             /\ workers'[w].pc = "step" /\ workers'[w].job = r
             /\ workers'[w].context = me.context
             /\ workers'[w].seq = seq /\ workers'[w].next = next,
             UNCHANGED <<jobs, run_specs, Ledger>>
      PROVE  TapeInv'
  <2>1. HoldsTape(w)'
    BY <1>2, <1>4 DEF HoldsTape, Policy, Ledger
  <2>2. StandsWithJob(w)'
    BY <1>4 DEF StandsWithJob
  <2>3. WorkerOK(w)'
    BY <2>1, <2>2 DEF WorkerOK
  <2> QED
    BY <1>1, <1>4, <2>3, WorkerMoves
<1>5. CASE rows = <<>> /\ ~GiveUp(w, FALSE)
  <2>1. workers' = [workers EXCEPT ![w].pc = "step"] /\ UNCHANGED <<jobs, run_specs, Ledger>>
    BY <1>5 DEF LoadCheckpoint
  <2>2. jobs[r].seq = 0 /\ jobs[r].next = 0
    BY <1>2, <1>5 DEF RowsOK, ChainOK, Before
  <2>3. /\ \A x \in Workers : x # w => workers'[x] = workers[x]
        /\ workers'[w].pc = "step" /\ workers'[w].job = r
        /\ workers'[w].context = me.context
        /\ workers'[w].seq = 0 /\ workers'[w].next = 0
    BY <1>2, <2>1 DEF TypeInv, TypeOK, WorkerMemory
  <2> QED
    BY <1>4, <2>1, <2>2, <2>3
<1>6. CASE rows # <<>> /\ ~GiveUp(w, FALSE)
  <2>1. PICK seq, next, context :
           seq = LatestSeq(rows) /\ next = latest.next /\ context = latest.context
    OBVIOUS
  <2>2. /\ jobs[r].seq = seq /\ jobs[r].next = next /\ jobs[r].context = context
        /\ context = preparations[r]
    BY <1>1, <1>2, <1>6, <2>1, LatestIsCursor
  <2>3. CASE workers' = [workers EXCEPT ![w].pc = "step", ![w].seq = seq, ![w].next = next]
    <3>1. UNCHANGED <<jobs, run_specs, Ledger>>
      BY <1>6 DEF LoadCheckpoint
    <3>2. /\ \A x \in Workers : x # w => workers'[x] = workers[x]
          /\ workers'[w].pc = "step" /\ workers'[w].job = r
          /\ workers'[w].context = me.context
          /\ workers'[w].seq = seq /\ workers'[w].next = next
      BY <2>3 DEF TypeInv, TypeOK, WorkerMemory
    <3> QED
      BY <1>4, <2>2, <3>1, <3>2
  <2>4. CASE workers' = [workers EXCEPT ![w].pc = "finish", ![w].outcome = "failed",
                            ![w].fenced = TRUE, ![w].seq = seq,
                            ![w].next = next, ![w].context = context]
    <3>1. UNCHANGED <<jobs, run_specs, Ledger>>
      BY <1>6 DEF LoadCheckpoint
    <3>2. /\ \A x \in Workers : x # w => workers'[x] = workers[x]
          /\ workers'[w].pc = "finish" /\ workers'[w].outcome = "failed"
          /\ workers'[w].job = r /\ workers'[w].context = context
          /\ workers'[w].seq = seq /\ workers'[w].next = next
      BY <2>4 DEF TypeInv, TypeOK, WorkerMemory
    <3>3. HoldsTape(w)'
      BY <3>2 DEF HoldsTape
    <3>4. StandsWithJob(w)'
      BY <2>2, <3>1, <3>2 DEF StandsWithJob
    <3>5. WorkerOK(w)'
      BY <3>3, <3>4 DEF WorkerOK
    <3> QED
      BY <1>1, <3>1, <3>2, <3>5, WorkerMoves
  <2> QED
    BY <1>6, <2>1, <2>3, <2>4 DEF LoadCheckpoint
<1> QED
  BY <1>3, <1>5, <1>6

LEMMA FinalizeKeepsTape ==
    ASSUME TypeInv, ClaimInv, VerdictInv, TapeInv, NEW w \in Workers, Finalize(w)
    PROVE  TapeInv'
<1> DEFINE me == workers[w]
           r == me.job
<1>1. RunStep(w) /\ me.pc \in RunPhases /\ me.pc = "step"
  BY DEF RunStep, Finalize, RunPhases
<1>2. PICK outcome \in {"succeeded", "failed"} :
         workers' = [workers EXCEPT ![w].pc = "finish", ![w].outcome = outcome,
                                    ![w].fenced = TRUE]
  BY DEF Finalize
<1>3. /\ \A x \in Workers : x # w => workers'[x] = workers[x]
      /\ workers'[w].pc = "finish" /\ workers'[w].outcome = outcome
      /\ workers'[w].fenced = TRUE
      /\ workers'[w].job = r /\ workers'[w].token = me.token
      /\ workers'[w].version = me.version /\ workers'[w].epoch = me.epoch
      /\ workers'[w].seq = me.seq /\ workers'[w].next = me.next
      /\ workers'[w].context = me.context
  BY <1>2 DEF TypeInv, TypeOK, WorkerMemory
<1>4. /\ r \in RunIds /\ RowsOK(r) /\ Policy(r) = "m5"
      /\ me.context = preparations[r] /\ me.context \in Contexts /\ me.next = TotalBars
  <2>1. me.next \in 0..TotalBars
    BY DEF TypeInv, TypeOK, WorkerMemory
  <2>2. me.next = TotalBars
    BY <2>1, PositiveBars DEF Finalize
  <2> QED
    BY <1>1, <2>2, RunOfWorker DEF TapeInv, WorkerOK, HoldsTape, TypeInv, WorkerShape
<1>5. UNCHANGED <<jobs, run_specs, Ledger>>
  BY DEF Finalize
<1>6. HoldsTape(w)'
  BY <1>3, <1>4, <1>5 DEF HoldsTape, Policy, Ledger
<1>7. StandsWithJob(w)'
  <2>1. ASSUME LiveClaim(w)'
        PROVE  jobs[r].seq = me.seq /\ jobs[r].next = me.next /\ jobs[r].context = me.context
    <3>1. LiveClaim(w)
      BY <1>3, <1>5, <2>1, SameClaim
    <3>2. jobs[r].seq = me.seq /\ jobs[r].next = me.next
      BY <1>1, <3>1 DEF TapeInv, WorkerOK, StandsWithJob
    <3>3. checkpoints[r] # <<>>
      <4> SUFFICES ASSUME checkpoints[r] = <<>> PROVE FALSE
        OBVIOUS
      <4>1. jobs[r].next = 0
        BY <1>4 DEF RowsOK, ChainOK, Before
      <4> QED
        BY <1>4, <3>2, <4>1, PositiveBars
    <3> QED
      BY <1>4, <3>2, <3>3 DEF RowsOK, TapeOK
  <2> QED
    BY <1>3, <1>5, <2>1 DEF StandsWithJob
<1>8. WorkerOK(w)'
  BY <1>6, <1>7 DEF WorkerOK
<1> QED
  BY <1>1, <1>3, <1>5, <1>8, WorkerMoves

LEMMA ExecuteKeepsTape ==
    ASSUME TypeInv, ClaimInv, VerdictInv, TapeInv, NEW w \in Workers, Execute(w)
    PROVE  TapeInv'
<1> DEFINE me == workers[w]
           r == me.job
<1>1. RunStep(w) /\ me.pc \in RunPhases /\ me.pc = "execute"
  BY DEF RunStep, Execute, RunPhases
<1>2. r \in RunIds /\ Policy(r) = "m3" /\ ~me.fenced
  BY <1>1, RunOfWorker DEF TapeInv, WorkerOK, HoldsTape
<1>3. CASE GiveUp(w, FALSE)
  BY <1>1, <1>3, GiveUpKeepsTape
<1>4. CASE ~GiveUp(w, FALSE)
  <2>1. PICK tape \in Tapes :
           /\ workers' = [workers EXCEPT ![w].pc = "finish", ![w].outcome = "succeeded",
                                         ![w].context = Context(r, tape),
                                         ![w].next = TotalBars]
           /\ UNCHANGED <<jobs, run_specs, Ledger>>
    BY <1>4 DEF Execute
  <2>2. /\ \A x \in Workers : x # w => workers'[x] = workers[x]
        /\ workers'[w].pc = "finish"
        /\ workers'[w].job = r
        /\ workers'[w].context = Context(r, tape) /\ workers'[w].next = TotalBars
        /\ workers'[w].fenced = me.fenced
    BY <2>1 DEF TypeInv, TypeOK, WorkerMemory
  <2>3. Context(r, tape) \in Contexts
    BY <1>2 DEF Context, Contexts
  <2>4. HoldsTape(w)'
    BY <1>2, <2>1, <2>2, <2>3 DEF HoldsTape, Policy
  <2>5. WorkerOK(w)'
    BY <1>2, <2>2, <2>4 DEF WorkerOK, StandsWithJob
  <2> QED
    BY <1>1, <2>1, <2>2, <2>5, WorkerMoves
<1> QED
  BY <1>3, <1>4

-----------------------------------------------------------------------------
(* The steps of a worker that write *)

\* While w can write, nobody else can, and nobody else will be able to.
LEMMA OthersCannotWrite ==
    ASSUME TypeInv, ClaimInv, NoNewClaim, NEW w \in Workers, CanWrite(w),
           NEW x \in Workers, x # w, workers'[x] = workers[x], workers[x].pc \in RunPhases
    PROVE  ~LiveClaim(x) /\ ~LiveClaim(x)'
<1>1. ~LiveClaim(x)
  BY OneWriter DEF SingleWriter, CanWrite
<1> QED
  BY <1>1, LiveStays

\* A run that the step is not about, and a worker that it is not about.
LEMMA WriterMoves ==
    ASSUME TypeInv, ClaimInv, VerdictInv, TapeInv, NoNewClaim,
           NEW w \in Workers, CanWrite(w), NEW r \in RunIds, workers[w].job = r,
           UNCHANGED run_specs, \A q \in RunIds : jobs'[q].spec = jobs[q].spec,
           \A q \in RunIds : q # r =>
               /\ jobs'[q] = jobs[q] /\ formal_runs'[q] = formal_runs[q]
               /\ preparations'[q] = preparations[q] /\ checkpoints'[q] = checkpoints[q],
           preparations[r] # None => preparations'[r] = preparations[r],
           \A x \in Workers : x # w => workers'[x] = workers[x],
           RowsOK(r)', WorkerOK(w)'
    PROVE  TapeInv'
<1>1. ASSUME NEW q \in RunIds, q # r PROVE Stands(q)
  <2>1. jobs[q].epoch \in Nat
    BY DEF TypeInv, TypeOK, JobRows
  <2> QED
    BY <1>1, <2>1 DEF Stands, JobStands, LedgerStands
<1>2. \A q \in RunIds : RowsOK(q)'
  BY <1>1, StandingRows DEF TapeInv
<1>3. ASSUME NEW x \in Workers, x # w PROVE WorkerOK(x)'
  <2> SUFFICES ASSUME workers[x].pc \in RunPhases
               PROVE  HoldsTape(x)' /\ StandsWithJob(x)'
    BY <1>3 DEF WorkerOK
  <2>1. workers'[x] = workers[x] /\ HoldsTape(x) /\ workers[x].job \in RunIds
    BY <1>3, RunOfWorker DEF TapeInv, WorkerOK
  <2>2. StandsWithJob(x)'
    BY <1>3, <2>1, OthersCannotWrite DEF StandsWithJob
  <2>3. /\ workers[x].pc \in {"load", "step"} => workers[x].context # None
        /\ workers[x].pc = "finish" /\ workers[x].outcome = "succeeded" =>
              workers[x].context # None
    BY <2>1, NoneIsNothing DEF HoldsTape, TypeInv, WorkerShape
  <2>4. preparations[workers[x].job] # None =>
            preparations'[workers[x].job] = preparations[workers[x].job]
    BY <2>1
  <2>5. run_specs'[jobs'[workers[x].job].spec] = run_specs[jobs[workers[x].job].spec]
    BY <2>1
  <2>6. HoldsTape(x)'
    BY <2>1, <2>3, <2>4, <2>5 DEF HoldsTape, Policy
  <2> QED
    BY <2>2, <2>6
<1> QED
  BY <1>2, <1>3 DEF TapeInv

LEMMA PublishKeepsTape ==
    ASSUME TypeInv, ClaimInv, VerdictInv, TapeInv, NEW w \in Workers, PublishPreparation(w),
           ~ExitOnError(w)
    PROVE  /\ TapeInv'
           /\ preparations[workers[w].job] = None /\ workers[w].context \in Contexts
           /\ workers[w].job \in RunIds
<1> DEFINE me == workers[w]
           r == me.job
<1>1. /\ RunStep(w) /\ CanWrite(w) /\ me.pc = "publish" /\ r \in RunIds
      /\ jobs[r].status # None /\ me.context \in Contexts
      /\ preparations' = [preparations EXCEPT ![r] = me.context]
      /\ UNCHANGED <<run_specs, jobs, checkpoints, formal_runs>>
  BY RunOfWorker DEF RunStep, PublishPreparation, CanWrite, RunPhases, TypeInv, WorkerShape
<1>2. NoNewClaim
  BY <1>1, WorkersMakeNoClaim
<1>3. preparations[r] = None /\ Policy(r) = "m5" /\ me.seq = 0 /\ me.next = 0
  BY <1>1 DEF TapeInv, WorkerOK, HoldsTape, StandsWithJob, CanWrite
<1>4. /\ \A x \in Workers : x # w => workers'[x] = workers[x]
      /\ workers'[w].pc = "load" /\ workers'[w].job = r
      /\ workers'[w].context = me.context
      /\ workers'[w].seq = me.seq /\ workers'[w].next = me.next
  <2>1. PICK adopted \in BOOLEAN :
           workers' = [workers EXCEPT ![w].pc = "load", ![w].adopted = adopted]
    BY LoadsNext
  <2> QED
    BY <2>1 DEF TypeInv, TypeOK, WorkerMemory
<1>5. /\ preparations'[r] = me.context
      /\ \A q \in RunIds : q # r => preparations'[q] = preparations[q]
  BY <1>1 DEF TypeInv, TypeOK
<1>6. RowsOK(r)'
  <2>1. RowsOK(r) /\ checkpoints[r] \in Seq(CheckpointRows)
    BY <1>1 DEF TapeInv, TypeInv, TypeOK
  <2>2. checkpoints[r] = <<>>
    <3> SUFFICES ASSUME checkpoints[r] # <<>> PROVE FALSE
      OBVIOUS
    <3>1. 1 \in DOMAIN checkpoints[r] /\ checkpoints[r][1] \in CheckpointRows
      BY <2>1, NonEmptyRows
    <3>2. checkpoints[r][1].context = None
      BY <1>3, <2>1, <3>1 DEF RowsOK, TapeOK
    <3> QED
      BY <3>1, <3>2, NoneIsNothing DEF CheckpointRows
  <2>3. formal_runs[r].status # "succeeded"
    BY <1>1, NoneIsNothing DEF CanWrite, LiveClaim, VerdictInv, SettledTogether, Terminal
  <2>4. SpecOK(r)' /\ ChainOK(r)'
    BY <1>1, <1>4, <2>1 DEF RowsOK, SpecOK, ChainOK
  <2>5. TapeOK(r)'
    BY <1>1, <1>3, <1>4, <2>1, <2>2, <2>3 DEF RowsOK, TapeOK, Policy
  <2> QED
    BY <2>4, <2>5 DEF RowsOK
<1>7. WorkerOK(w)'
  <2>1. HoldsTape(w)'
    BY <1>1, <1>3, <1>4, <1>5 DEF HoldsTape, Policy
  <2>2. StandsWithJob(w)'
    BY <1>4 DEF StandsWithJob
  <2> QED
    BY <2>1, <2>2 DEF WorkerOK
<1>8. TapeInv'
  BY <1>1, <1>2, <1>3, <1>4, <1>5, <1>6, <1>7, WriterMoves
<1> QED
  BY <1>1, <1>3, <1>8

\* One more checkpoint is one more link of the chain.
LEMMA PersistKeepsTape ==
    ASSUME TypeInv, ClaimInv, VerdictInv, TapeInv, NEW w \in Workers, PersistCheckpoint(w),
           ~ExitOnError(w), ~GiveUp(w, workers[w].seq > 0)
    PROVE  /\ TapeInv'
           /\ workers[w].job \in RunIds /\ preparations[workers[w].job] # None
           /\ jobs[workers[w].job].next = workers[w].next
<1> DEFINE me == workers[w]
<1>0. PICK r, rows, n : r = me.job /\ rows = checkpoints[r] /\ n = Len(rows)
  OBVIOUS
<1>1. PICK next : next = NextCursor(me.next)
  OBVIOUS
<1>2. PICK row : row = [next |-> next, version |-> me.version, epoch |-> me.epoch,
                        context |-> me.context]
  OBVIOUS
<1>3. /\ RunStep(w) /\ CanWrite(w) /\ me.pc = "step" /\ r \in RunIds
      /\ me.next < TotalBars
      /\ me \in WorkerMemory /\ me.context \in Contexts /\ me.context # None
      /\ jobs' = [jobs EXCEPT ![r] = [@ EXCEPT !.seq = me.seq + 1, !.next = next,
                                               !.context = me.context]]
      /\ checkpoints' = [checkpoints EXCEPT ![r] = Append(@, row)]
      /\ workers' = [workers EXCEPT ![w].seq = me.seq + 1, ![w].next = next]
      /\ UNCHANGED <<run_specs, preparations, formal_runs>>
  BY <1>0, <1>1, <1>2, RunOfWorker, NoneIsNothing
     DEF RunStep, PersistCheckpoint, CanWrite, RunPhases, TypeInv, WorkerShape
<1>4. NoNewClaim
  BY <1>3, WorkersMakeNoClaim
<1>5. /\ RowsOK(r) /\ Policy(r) = "m5" /\ me.context = preparations[r]
      /\ jobs[r].seq = me.seq /\ jobs[r].next = me.next
      /\ jobs[r].epoch = me.epoch /\ jobs[r].status = "running"
  BY <1>0, <1>3 DEF TapeInv, WorkerOK, HoldsTape, StandsWithJob, CanWrite, LiveClaim
<1>6. row \in CheckpointRows
  <2>1. next \in 1..TotalBars
    <3>1. me.next \in 0..TotalBars
      BY <1>3 DEF WorkerMemory
    <3> QED
      BY <1>1, <1>3, <3>1, NextCursorBounds, PositiveBars
  <2>2. me.version \in Nat /\ me.epoch \in Nat
    BY <1>3 DEF WorkerMemory
  <2> QED
    BY <1>2, <1>3, <2>1, <2>2 DEF CheckpointRows
<1>7. /\ rows \in Seq(CheckpointRows) /\ n \in Nat /\ DOMAIN rows = 1..n
      /\ Len(checkpoints'[r]) = n + 1 /\ DOMAIN checkpoints'[r] = 1..(n + 1)
      /\ checkpoints'[r][n + 1] = row
      /\ \A i \in 1..n : checkpoints'[r][i] = rows[i]
  <2>1. rows \in Seq(CheckpointRows) /\ checkpoints'[r] = Append(rows, row)
    BY <1>0, <1>3 DEF TypeInv, TypeOK
  <2> QED
    BY <1>0, <1>6, <2>1, AppendProperties, LenProperties
<1>8. /\ jobs'[r].seq = me.seq + 1 /\ jobs'[r].next = next
      /\ jobs'[r].context = me.context /\ jobs'[r].epoch = jobs[r].epoch
      /\ jobs'[r].spec = jobs[r].spec /\ jobs'[r].status = jobs[r].status
      /\ \A q \in RunIds : q # r => jobs'[q] = jobs[q]
      /\ \A q \in RunIds : q # r => checkpoints'[q] = checkpoints[q]
  BY <1>3 DEF TypeInv, TypeOK, JobRows
<1>9. /\ \A x \in Workers : x # w => workers'[x] = workers[x]
      /\ workers'[w].pc = "step" /\ workers'[w].job = r
      /\ workers'[w].context = me.context
      /\ workers'[w].seq = me.seq + 1 /\ workers'[w].next = next
  BY <1>0, <1>3 DEF TypeInv, TypeOK, WorkerMemory
<1>10. ChainOK(r)'
  <2>1. me.seq = n /\ me.next = Before(rows, n + 1)
    BY <1>0, <1>5 DEF RowsOK, ChainOK
  <2>2. \A i \in 1..(n + 1) : Before(checkpoints'[r], i) = Before(rows, i)
    <3> SUFFICES ASSUME NEW i \in 1..(n + 1), i # 1
                 PROVE  checkpoints'[r][i - 1].next = rows[i - 1].next
      BY DEF Before
    <3>1. i - 1 \in 1..n
      BY <1>7
    <3> QED
      BY <1>7, <3>1
  <2>3. \A i \in 1..(n + 1) :
           checkpoints'[r][i].next = NextCursor(Before(checkpoints'[r], i))
    <3> SUFFICES ASSUME NEW i \in 1..(n + 1)
                 PROVE  checkpoints'[r][i].next = NextCursor(Before(checkpoints'[r], i))
      OBVIOUS
    <3>1. CASE i = n + 1
      BY <1>1, <1>2, <1>7, <2>1, <2>2, <3>1
    <3>2. CASE i # n + 1
      <4>1. i \in 1..n
        BY <1>7, <3>2
      <4>2. rows[i].next = NextCursor(Before(rows, i))
        BY <1>0, <1>5, <1>7, <4>1 DEF RowsOK, ChainOK
      <4> QED
        BY <1>7, <2>2, <4>1, <4>2
    <3> QED
      BY <3>1, <3>2
  <2>4. \A i \in 1..n : rows[i].epoch \in Nat /\ rows[i].epoch <= me.epoch
    <3>1. \A i \in 1..n : rows[i] \in CheckpointRows
      BY <1>7, ElementOfSeq
    <3> QED
      BY <1>0, <1>5, <1>7, <3>1 DEF RowsOK, ChainOK, CheckpointRows
  <2>5. me.epoch \in Nat
    BY <1>3 DEF WorkerMemory
  <2>6. \A i, k \in 1..(n + 1) :
           i <= k => checkpoints'[r][i].epoch <= checkpoints'[r][k].epoch
    <3> SUFFICES ASSUME NEW i \in 1..(n + 1), NEW k \in 1..(n + 1), i <= k
                 PROVE  checkpoints'[r][i].epoch <= checkpoints'[r][k].epoch
      OBVIOUS
    <3>1. CASE k = n + 1 /\ i = n + 1
      BY <1>2, <1>7, <2>5, <3>1
    <3>2. CASE k = n + 1 /\ i # n + 1
      BY <1>2, <1>7, <2>4, <3>2
    <3>3. CASE k # n + 1
      <4>1. i \in 1..n /\ k \in 1..n
        BY <1>7, <3>3
      <4>2. rows[i].epoch <= rows[k].epoch
        BY <1>0, <1>5, <1>7, <4>1 DEF RowsOK, ChainOK
      <4> QED
        BY <1>7, <4>1, <4>2
    <3> QED
      BY <3>1, <3>2, <3>3
  <2>7. \A i \in 1..(n + 1) : checkpoints'[r][i].epoch <= jobs'[r].epoch
    BY <1>2, <1>5, <1>7, <1>8, <2>4, <2>5
  <2>8. jobs'[r].next = Before(checkpoints'[r], n + 2)
    BY <1>2, <1>7, <1>8 DEF Before
  <2> QED
    BY <1>7, <1>8, <2>1, <2>3, <2>6, <2>7, <2>8 DEF ChainOK
<1>11. TapeOK(r)'
  <2>1. checkpoints'[r] # <<>>
    BY <1>7
  <2>2. \A i \in 1..(n + 1) : checkpoints'[r][i].context = preparations[r]
    <3>1. \A i \in 1..n : rows[i].context = preparations[r]
      BY <1>0, <1>5, <1>7 DEF RowsOK, TapeOK
    <3>2. row.context = preparations[r]
      BY <1>2, <1>5
    <3> SUFFICES ASSUME NEW i \in 1..(n + 1)
                 PROVE  checkpoints'[r][i].context = preparations[r]
      OBVIOUS
    <3>3. i = n + 1 \/ i \in 1..n
      BY <1>7
    <3> QED
      BY <1>7, <3>1, <3>2, <3>3
  <2>3. formal_runs[r].status # "succeeded"
    BY <1>3, <1>5, NoneIsNothing DEF VerdictInv, SettledTogether, Terminal
  <2> QED
    BY <1>3, <1>5, <1>7, <1>8, <2>1, <2>2, <2>3, NoneIsNothing
       DEF TapeOK, RowsOK, Policy, Active
<1>12. RowsOK(r)'
  <2>1. SpecOK(r)'
    BY <1>3, <1>5, <1>8 DEF RowsOK, SpecOK
  <2> QED
    BY <1>10, <1>11, <2>1 DEF RowsOK
<1>13. WorkerOK(w)'
  <2>1. HoldsTape(w)'
    BY <1>3, <1>5, <1>8, <1>9 DEF HoldsTape, Policy
  <2>2. StandsWithJob(w)'
    BY <1>8, <1>9 DEF StandsWithJob
  <2> QED
    BY <2>1, <2>2 DEF WorkerOK
<1>14. \A q \in RunIds : jobs'[q].spec = jobs[q].spec
  BY <1>8
<1>15. TapeInv'
  BY <1>0, <1>3, <1>4, <1>8, <1>9, <1>12, <1>13, <1>14, WriterMoves
<1> QED
  BY <1>0, <1>3, <1>5, <1>15

\* The result that ends a run of m5 is that of its preparation, at the last bar.
LEMMA FinishKeepsTape ==
    ASSUME TypeInv, ClaimInv, VerdictInv, TapeInv, NEW w \in Workers, FinishRun(w),
           ~ExitOnError(w)
    PROVE  TapeInv'
<1> DEFINE me == workers[w]
<1>0. PICK r : r = me.job
  OBVIOUS
<1>1. /\ RunStep(w) /\ CanWrite(w) /\ me.pc = "finish" /\ r \in RunIds
      /\ me.outcome \in {"succeeded", "failed"}
      /\ jobs' = [jobs EXCEPT ![r] = [@ EXCEPT !.status = me.outcome, !.token = 0,
                                               !.lease = None]]
      /\ workers' = [workers EXCEPT ![w] = IdleWorker]
      /\ UNCHANGED <<run_specs, preparations, checkpoints>>
  BY <1>0, RunOfWorker
     DEF RunStep, FinishRun, CanWrite, RunPhases, TypeInv, WorkerShape
<1>2. NoNewClaim
  BY <1>1, WorkersMakeNoClaim
<1>3. /\ formal_runs'[r].status = me.outcome
      /\ me.outcome = "succeeded" =>
            formal_runs'[r].result = [context |-> me.context, bars |-> me.next]
      /\ \A q \in RunIds : q # r => formal_runs'[q] = formal_runs[q]
  BY <1>0, <1>1 DEF FinishRun, TypeInv, TypeOK
<1>4. /\ jobs'[r].seq = jobs[r].seq /\ jobs'[r].next = jobs[r].next
      /\ jobs'[r].context = jobs[r].context /\ jobs'[r].epoch = jobs[r].epoch
      /\ jobs'[r].spec = jobs[r].spec /\ jobs'[r].status = me.outcome
      /\ \A q \in RunIds : q # r => jobs'[q] = jobs[q]
  BY <1>1 DEF TypeInv, TypeOK, JobRows
<1>5. /\ \A x \in Workers : x # w => workers'[x] = workers[x]
      /\ workers'[w].pc = "idle"
  BY <1>1 DEF TypeInv, TypeOK, IdleWorker
<1>6. RowsOK(r) /\ jobs[r].status # None /\ HoldsTape(w)
  BY <1>0, <1>1, RunOfWorker DEF TapeInv, WorkerOK, CanWrite
<1>7. RowsOK(r)'
  <2>1. SpecOK(r)' /\ ChainOK(r)'
    BY <1>1, <1>4, <1>6 DEF RowsOK, SpecOK, ChainOK
  <2>2. me.outcome # None
    BY <1>1, NoneIsNothing DEF Terminal
  <2>3. me.outcome = "succeeded" =>
            /\ me.next = TotalBars
            /\ Policy(r) = "m5" => me.context = preparations[r]
    BY <1>0, <1>1, <1>6 DEF HoldsTape
  <2>4. TapeOK(r)'
    BY <1>1, <1>3, <1>4, <1>6, <2>2, <2>3 DEF RowsOK, TapeOK, Policy
  <2> QED
    BY <2>1, <2>4 DEF RowsOK
<1>8. WorkerOK(w)'
  BY <1>5, RestingWorkerOK DEF RunPhases
<1>9. \A q \in RunIds : jobs'[q].spec = jobs[q].spec
  BY <1>4
<1> QED
  BY <1>0, <1>1, <1>2, <1>3, <1>4, <1>5, <1>7, <1>8, <1>9, WriterMoves

-----------------------------------------------------------------------------
(* Every step *)

LEMMA TapeStep ==
    TypeInv /\ ClaimInv /\ VerdictInv /\ TapeInv /\ [Next]_vars => TapeInv'
<1> SUFFICES ASSUME TypeInv, ClaimInv, VerdictInv, TapeInv, [Next]_vars
             PROVE  TapeInv'
  OBVIOUS
<1>1. CASE GraphStep \/ ClientStep \/ Time
  BY <1>1, ClientsKeepTape
<1>2. ASSUME NEW w \in Workers, WorkerStep(w) \/ Crash(w) \/ Restart(w)
      PROVE  TapeInv'
  <2>1. CASE PersistCheckpoint(w)
    <3>1. CASE ExitOnError(w)
      BY <3>1, RestKeepsTape
    <3>2. CASE GiveUp(w, workers[w].seq > 0)
      <4>1. (workers[w].seq > 0) \in BOOLEAN
        BY DEF TypeInv, TypeOK, WorkerMemory
      <4>2. RunStep(w) /\ workers[w].pc = "step" /\ workers[w].pc \in RunPhases
        BY <2>1 DEF RunStep, PersistCheckpoint, RunPhases
      <4>3. workers[w].seq > 0 => workers[w].pc = "step" /\ workers[w].seq > 0
        BY <4>2
      <4> QED
        BY <3>2, <4>1, <4>2, <4>3, GiveUpKeepsTape, Zenon
    <3> QED
      BY <2>1, <3>1, <3>2, PersistKeepsTape
  <2>2. CASE PublishPreparation(w) \/ FinishRun(w)
    BY <2>2, RestKeepsTape, PublishKeepsTape, FinishKeepsTape
  <2>3. CASE Prepare(w) \/ LoadCheckpoint(w) \/ Finalize(w) \/ Execute(w)
    BY <2>3, PrepareKeepsTape, LoadKeepsTape, FinalizeKeepsTape, ExecuteKeepsTape
  <2>4. CASE \/ FinishVerification(w) \/ Crash(w) \/ Restart(w)
             \/ \E v \in VerifyIds : ClaimVerification(w, v)
    BY <2>4, RestKeepsTape
  <2>5. CASE \E r \in RunIds : ClaimRun(w, r)
    BY <2>5, ClaimRunKeepsTape
  <2> QED
    BY <1>2, <2>1, <2>2, <2>3, <2>4, <2>5 DEF WorkerStep, RunStep
<1>3. CASE UNCHANGED vars
  <2>1. UNCHANGED <<jobs, run_specs, Ledger, workers>>
    BY <1>3 DEF vars, Ledger
  <2>2. \A r \in RunIds : Stands(r)
    BY <2>1, JobsUnchanged DEF Stands, LedgerStands, Ledger
  <2>3. NoNewClaim
    BY <2>1 DEF NoNewClaim
  <2> QED
    BY <2>1, <2>2, <2>3, NobodyMoves
<1> QED
  BY <1>1, <1>2, <1>3 DEF Next

LEMMA TapeHolds == Spec => [](TypeInv /\ ClaimInv /\ VerdictInv /\ TapeInv)
<1>1. TypeInv /\ ClaimInv /\ VerdictInv /\ TapeInv /\ [Next]_vars => TapeInv'
  BY TapeStep
<1> QED
  BY VerdictsHold, TapeInit, <1>1, PTL DEF Spec

\* Whatever crashes and reclaims happen in between, what is recorded of a checkpointed
\* run comes from one tape.
THEOREM OneTapePerRun == Spec => []OneFrozenTape
<1>1. TapeInv => OneFrozenTape
  BY DEF TapeInv, RowsOK, TapeOK, OneFrozenTape
<1> QED
  BY <1>1, TapeHolds, PTL

\* The checkpoints of a run are one unbroken calculation, and a worker that may write
\* stands where the job stands: a live worker only ever dies of a lost claim.
THEOREM CheckpointsAreOneChain == Spec => []CheckpointChain
<1>1. TypeInv /\ TapeInv => CheckpointChain
  <2> SUFFICES ASSUME TypeInv, TapeInv PROVE CheckpointChain
    OBVIOUS
  <2>1. \A w \in Workers : CanWrite(w) /\ workers[w].pc = "step" => PredecessorFence(w)
    <3> SUFFICES ASSUME NEW w \in Workers, CanWrite(w), workers[w].pc = "step"
                 PROVE  PredecessorFence(w)
      OBVIOUS
    <3>1. PICK r : r = workers[w].job
      OBVIOUS
    <3>2. /\ r \in RunIds /\ jobs[r].seq = workers[w].seq /\ jobs[r].next = workers[w].next
          /\ workers[w].context = preparations[r]
      BY <3>1 DEF TapeInv, WorkerOK, HoldsTape, StandsWithJob, CanWrite, TypeInv, WorkerShape
    <3>3. jobs[r].context \in {None, preparations[r]}
      BY <3>2 DEF TapeInv, RowsOK, TapeOK
    <3> QED
      BY <3>1, <3>2, <3>3 DEF PredecessorFence
  <2>2. \A w \in Workers : CanWrite(w) /\ workers[w].pc = "finish" => CursorFence(w)
    BY DEF TapeInv, WorkerOK, StandsWithJob, CanWrite, CursorFence
  <2> QED
    BY <2>1, <2>2 DEF TapeInv, RowsOK, ChainOK, Before, CheckpointChain
<1> QED
  BY <1>1, TapeHolds, PTL

-----------------------------------------------------------------------------
(* The promise to the rest of the system *)

\* The refinement mapping of Contract; its frozen is preparations.
phases ==
    [r \in RunIds |-> IF jobs[r].status = None THEN None
                      ELSE IF jobs[r].status \in Active THEN "open" ELSE "settled"]
progress == [r \in RunIds |-> jobs[r].next]
verdicts ==
    [r \in RunIds |-> [outcome |-> formal_runs[r].status,
                       context |-> formal_runs[r].result.context,
                       bars |-> formal_runs[r].result.bars]]

contract == <<phases, preparations, progress, verdicts>>

\* A step that keeps or stays in the phase of every run, and writes nothing of them.
LEMMA ContractStutters ==
    ASSUME \A r \in RunIds : /\ (jobs'[r].status = None) <=> (jobs[r].status = None)
                             /\ (jobs'[r].status \in Active) <=> (jobs[r].status \in Active)
                             /\ jobs'[r].next = jobs[r].next,
           UNCHANGED <<preparations, formal_runs>>
    PROVE  UNCHANGED contract
BY DEF contract, phases, progress, verdicts

LEMMA QueueOpens ==
    ASSUME TypeInv, ClaimInv, NEW r \in RunIds, jobs[r].status = None,
           NEW s, NEW v, NEW source, NEW stamp,
           jobs' = [jobs EXCEPT ![r] = QueuedJob(s, v, source, stamp)],
           UNCHANGED Ledger
    PROVE  Contract!Open(r)
<1>1. /\ jobs'[r].status = "pending" /\ jobs'[r].next = 0
      /\ \A q \in RunIds : q # r => jobs'[q] = jobs[q]
      /\ jobs[r].next = 0
  BY DEF QueuedJob, NoJob, TypeInv, TypeOK, ClaimInv
<1>2. "pending" \in Active /\ "pending" # None
  BY NoneIsNothing DEF Active
<1>3. phases[r] = None /\ phases' = [phases EXCEPT ![r] = "open"]
  BY <1>1, <1>2 DEF phases
<1>4. progress' = progress
  BY <1>1 DEF progress
<1> QED
  BY <1>3, <1>4 DEF Contract!Open, phases, progress, Ledger

\* A run that is running is open.
LEMMA RunningIsOpen ==
    ASSUME NEW r \in RunIds, jobs[r].status \in Active
    PROVE  phases[r] = "open"
BY NoneIsNothing DEF phases, Active

\* A step that ends a run settles it.
LEMMA EndSettles ==
    ASSUME NEW r \in RunIds, jobs[r].status \in Active, jobs'[r].status \in Terminal,
           \A q \in RunIds : q # r => jobs'[q] = jobs[q] /\ formal_runs'[q] = formal_runs[q],
           jobs'[r].next = jobs[r].next,
           UNCHANGED preparations,
           NEW v \in Contract!Verdicts, Contract!Success(r, v) \/ Contract!NoSuccess(v),
           formal_runs'[r].status = v.outcome,
           formal_runs'[r].result.context = v.context,
           formal_runs'[r].result.bars = v.bars
    PROVE  Contract!Settle(r)
<1>1. phases[r] = "open"
  BY RunningIsOpen
<1>2. phases' = [phases EXCEPT ![r] = "settled"]
  <2>1. jobs'[r].status # None /\ jobs'[r].status \notin Active
    BY NoneIsNothing DEF Active, Terminal
  <2> QED
    BY <2>1 DEF phases
<1>3. progress' = progress
  BY DEF progress
<1>4. verdicts' = [verdicts EXCEPT ![r] = v]
  <2>1. v = [outcome |-> v.outcome, context |-> v.context, bars |-> v.bars]
    BY DEF Contract!Verdicts
  <2> QED
    BY <2>1 DEF verdicts
<1> QED
  BY <1>1, <1>2, <1>3, <1>4 DEF Contract!Settle, phases, progress, verdicts

LEMMA CancelSettles ==
    ASSUME TypeInv, NEW r \in RunIds, Cancel(r, jobs[r].status, jobs[r].version)
    PROVE  Contract!Settle(r)
<1>1. /\ jobs[r].status \in Active /\ jobs'[r].status = "cancelled"
      /\ jobs'[r].next = jobs[r].next
      /\ \A q \in RunIds : q # r => jobs'[q] = jobs[q]
  BY DEF Cancel, TypeInv, TypeOK, JobRows
<1>2. /\ formal_runs'[r].status = "cancelled" /\ formal_runs'[r].result = NoResult
      /\ \A q \in RunIds : q # r => formal_runs'[q] = formal_runs[q]
      /\ UNCHANGED preparations
  BY DEF Cancel, TypeInv, TypeOK
<1> DEFINE v == [outcome |-> "cancelled", context |-> None, bars |-> 0]
<1>3. v \in Contract!Verdicts /\ Contract!NoSuccess(v)
  BY PositiveBars DEF Contract!Verdicts, Contract!NoSuccess
<1>4. /\ formal_runs'[r].status = v.outcome
      /\ formal_runs'[r].result.context = v.context
      /\ formal_runs'[r].result.bars = v.bars
  BY <1>2 DEF NoResult
<1>5. jobs'[r].status \in Terminal
  BY <1>1 DEF Terminal
<1> HIDE DEF v
<1> QED
  BY <1>1, <1>2, <1>3, <1>4, <1>5, EndSettles

LEMMA FinishSettles ==
    ASSUME TypeInv, ClaimInv, VerdictInv, TapeInv, NEW w \in Workers, FinishRun(w),
           ~ExitOnError(w), NEW r \in RunIds, workers[w].job = r
    PROVE  Contract!Settle(r)
<1> DEFINE me == workers[w]
<1>1. /\ CanWrite(w) /\ CursorFence(w) /\ me.pc = "finish"
      /\ me.outcome \in {"succeeded", "failed"}
      /\ jobs' = [jobs EXCEPT ![r] = [@ EXCEPT !.status = me.outcome, !.token = 0,
                                               !.lease = None]]
      /\ UNCHANGED preparations
  BY DEF FinishRun, CanWrite, RunPhases, TypeInv, WorkerShape
<1>2. PICK result : result = IF me.outcome = "succeeded"
                             THEN [context |-> me.context, bars |-> me.next] ELSE NoResult
  OBVIOUS
<1>3. /\ formal_runs'[r].status = me.outcome /\ formal_runs'[r].result = result
      /\ \A q \in RunIds : q # r => formal_runs'[q] = formal_runs[q]
  BY <1>1, <1>2 DEF FinishRun, TypeInv, TypeOK
<1>4. /\ jobs'[r].status = me.outcome /\ jobs'[r].next = jobs[r].next
      /\ jobs[r].status \in Active
      /\ \A q \in RunIds : q # r => jobs'[q] = jobs[q]
  BY <1>1 DEF TypeInv, TypeOK, JobRows, CanWrite, LiveClaim, Active
<1>5. PICK v : v = [outcome |-> me.outcome, context |-> result.context, bars |-> result.bars]
  OBVIOUS
<1>6. CASE me.outcome = "succeeded"
  <2>1. me.context \in Contexts /\ me.next = TotalBars
    BY <1>1, <1>6 DEF TapeInv, WorkerOK, CanWrite, HoldsTape
  <2>2. preparations[r] # None => me.context = preparations[r] /\ jobs[r].next = TotalBars
    <3> SUFFICES ASSUME preparations[r] # None
                 PROVE  me.context = preparations[r] /\ jobs[r].next = TotalBars
      OBVIOUS
    <3>1. Policy(r) = "m5"
      BY DEF TapeInv, RowsOK, TapeOK
    <3>2. me.context = preparations[r] /\ me.fenced
      BY <1>1, <1>6, <3>1 DEF TapeInv, WorkerOK, CanWrite, HoldsTape
    <3> QED
      BY <1>1, <2>1, <3>2 DEF CursorFence
  <2>3. v = [outcome |-> "succeeded", context |-> me.context, bars |-> TotalBars]
    BY <1>2, <1>5, <1>6, <2>1
  <2>4. v \in Contract!Verdicts
    BY <2>1, <2>3, PositiveBars DEF Contract!Verdicts
  <2>5. Contract!Success(r, v)
    BY <2>1, <2>2, <2>3 DEF Contract!Success
  <2> QED
    BY <1>1, <1>3, <1>4, <1>5, <1>6, <2>4, <2>5, EndSettles DEF Terminal
<1>7. CASE me.outcome = "failed"
  <2>1. v = [outcome |-> "failed", context |-> None, bars |-> 0]
    BY <1>2, <1>5, <1>7 DEF NoResult
  <2>2. v \in Contract!Verdicts /\ Contract!NoSuccess(v)
    BY <2>1, PositiveBars DEF Contract!Verdicts, Contract!NoSuccess
  <2> QED
    BY <1>1, <1>3, <1>4, <1>5, <1>7, <2>2, EndSettles DEF Terminal
<1> QED
  BY <1>1, <1>6, <1>7

LEMMA PublishFreezes ==
    ASSUME TypeInv, ClaimInv, VerdictInv, TapeInv, NEW w \in Workers, PublishPreparation(w),
           ~ExitOnError(w), NEW r \in RunIds, workers[w].job = r
    PROVE  Contract!Freeze(r)
<1>1. preparations[r] = None /\ workers[w].context \in Contexts
  BY PublishKeepsTape
<1>2. /\ jobs[r].status \in Active /\ UNCHANGED <<jobs, formal_runs>>
      /\ preparations' = [preparations EXCEPT ![r] = workers[w].context]
  BY DEF PublishPreparation, LiveClaim, Active
<1>3. phases[r] = "open" /\ UNCHANGED <<phases, progress, verdicts>>
  BY <1>2, RunningIsOpen DEF phases, progress, verdicts
<1> QED
  BY <1>1, <1>2, <1>3 DEF Contract!Freeze, phases, progress, verdicts

LEMMA PersistAdvances ==
    ASSUME TypeInv, ClaimInv, VerdictInv, TapeInv, NEW w \in Workers, PersistCheckpoint(w),
           ~ExitOnError(w), ~GiveUp(w, workers[w].seq > 0), NEW r \in RunIds, workers[w].job = r
    PROVE  Contract!Advance(r)
<1>1. PICK next : next = NextCursor(workers[w].next)
  OBVIOUS
<1>2. /\ jobs' = [jobs EXCEPT ![r] = [@ EXCEPT !.seq = workers[w].seq + 1, !.next = next,
                                               !.context = workers[w].context]]
      /\ jobs[r].status \in Active /\ workers[w].next < TotalBars
      /\ UNCHANGED <<preparations, formal_runs>>
  BY <1>1 DEF PersistCheckpoint, LiveClaim, Active
<1>3. preparations[r] # None /\ jobs[r].next = workers[w].next
  BY PersistKeepsTape
<1>4. next \in (jobs[r].next + 1)..TotalBars
  <2>1. workers[w].next \in 0..TotalBars
    BY DEF TypeInv, TypeOK, WorkerMemory
  <2> QED
    BY <1>1, <1>2, <1>3, <2>1, NextCursorBounds
<1>5. /\ jobs'[r].next = next /\ jobs'[r].status = jobs[r].status
      /\ \A q \in RunIds : q # r => jobs'[q] = jobs[q]
  BY <1>2 DEF TypeInv, TypeOK, JobRows
<1>6. phases[r] = "open" /\ UNCHANGED <<phases, verdicts>>
  BY <1>2, <1>5, RunningIsOpen DEF phases, verdicts
<1>7. progress' = [progress EXCEPT ![r] = next] /\ progress[r] = jobs[r].next
  BY <1>5 DEF progress
<1> QED
  BY <1>2, <1>3, <1>4, <1>6, <1>7 DEF Contract!Advance, phases, progress, verdicts

LEMMA ContractStep ==
    TypeInv /\ ClaimInv /\ VerdictInv /\ TapeInv /\ [Next]_vars => [Contract!Next]_contract
<1> SUFFICES ASSUME TypeInv, ClaimInv, VerdictInv, TapeInv, [Next]_vars
             PROVE  Contract!Next \/ UNCHANGED contract
  OBVIOUS
<1> USE DEF Contract!Next
<1>1. ASSUME UNCHANGED <<jobs, preparations, formal_runs>> PROVE UNCHANGED contract
  BY <1>1, ContractStutters
<1>2. CASE ClientStep
  <2>1. ASSUME NEW r \in RunIds, NEW v \in ValidationIds, NEW s \in RunSpecIds,
               NEW c \in CandidateIds, NEW p \in Policies, Request(r, v, s, c, p)
        PROVE  Contract!Next
    <3>1. PICK stamp \in Stamps : jobs' = [jobs EXCEPT ![r] = QueuedJob(s, v, None, stamp)]
      BY <2>1 DEF Request
    <3> QED
      BY <2>1, <3>1, QueueOpens DEF Request, Unused
  <2>2. ASSUME NEW r \in RunIds, NEW v \in ValidationIds, NEW source \in RunIds,
               Retry(source, r, v)
        PROVE  Contract!Next
    <3>1. PICK s : s = jobs[source].spec
      OBVIOUS
    <3>2. PICK stamp \in Stamps : jobs' = [jobs EXCEPT ![r] = QueuedJob(s, v, source, stamp)]
      BY <2>2, <3>1 DEF Retry
    <3> QED
      BY <2>2, <3>2, QueueOpens DEF Retry, Unused
  <2>3. ASSUME NEW r \in RunIds, Cancel(r, jobs[r].status, jobs[r].version)
        PROVE  Contract!Next
    BY <2>3, CancelSettles
  <2>4. ASSUME NEW v \in VerifyIds, Capture(v) PROVE UNCHANGED contract
    BY <1>1, <2>4 DEF Capture, Ledger
  <2> QED
    BY <1>2, <2>1, <2>2, <2>3, <2>4 DEF ClientStep
<1>3. CASE GraphStep
  BY <1>1, <1>3 DEF GraphStep, CreateCandidate, MoveHeads, Ledger
<1>4. ASSUME NEW r \in RunIds, ExpireLease(r) PROVE UNCHANGED contract
  <2>1. /\ jobs'[r].status = jobs[r].status /\ jobs'[r].next = jobs[r].next
        /\ \A q \in RunIds : q # r => jobs'[q] = jobs[q]
    BY <1>4 DEF ExpireLease, TypeInv, TypeOK, JobRows
  <2> QED
    BY <1>4, <2>1, ContractStutters DEF ExpireLease, Ledger
<1>5. ASSUME NEW w \in Workers, NEW r \in RunIds, ClaimRun(w, r) PROVE UNCHANGED contract
  <2>1. /\ jobs[r].status \in Active /\ jobs'[r].status = "running"
        /\ jobs'[r].next = jobs[r].next
        /\ \A q \in RunIds : q # r => jobs'[q] = jobs[q]
    BY <1>5 DEF ClaimRun, ClaimableRuns, Unleased, TypeInv, TypeOK, JobRows, Active
  <2>2. jobs[r].status # None /\ jobs'[r].status # None /\ jobs'[r].status \in Active
    BY <2>1, NoneIsNothing DEF Active
  <2> QED
    BY <1>5, <2>1, <2>2, ContractStutters DEF ClaimRun, Ledger
<1>6. ASSUME NEW w \in Workers,
             \/ ExitOnError(w) \/ FinishVerification(w) \/ Crash(w) \/ Restart(w)
             \/ \E v \in VerifyIds : ClaimVerification(w, v)
             \/ Prepare(w) \/ LoadCheckpoint(w) \/ Finalize(w) \/ Execute(w)
             \/ \E fenced \in BOOLEAN : GiveUp(w, fenced)
      PROVE  UNCHANGED contract
  BY <1>1, <1>6
     DEF ExitOnError, FinishVerification, Crash, Restart, ClaimVerification, Prepare,
         LoadCheckpoint, Finalize, Execute, GiveUp, Ledger
<1>7. ASSUME NEW w \in Workers, PublishPreparation(w) \/ PersistCheckpoint(w) \/ FinishRun(w),
             ~ExitOnError(w), ~GiveUp(w, workers[w].seq > 0)
      PROVE  Contract!Next
  <2>1. PICK r \in RunIds : r = workers[w].job
    BY <1>7 DEF PublishPreparation, PersistCheckpoint, FinishRun, TypeInv, WorkerShape, RunPhases
  <2> QED
    BY <1>7, <2>1, PublishFreezes, PersistAdvances, FinishSettles
<1>8. ASSUME NEW w \in Workers, GiveUp(w, workers[w].seq > 0) PROVE UNCHANGED contract
  BY <1>1, <1>8 DEF GiveUp, Ledger
<1>9. CASE UNCHANGED vars
  BY <1>1, <1>9 DEF vars
<1> QED
  BY <1>2, <1>3, <1>4, <1>5, <1>6, <1>7, <1>8, <1>9
     DEF Next, Time, WorkerStep, RunStep, AbandonedLeaseExpires, HeldLeaseExpires

LEMMA ContractStart == Init => Contract!Init
<1> SUFFICES ASSUME Init PROVE Contract!Init
  OBVIOUS
<1>1. \A r \in RunIds : jobs[r] = NoJob /\ formal_runs[r] = NoRun
  BY DEF Init
<1> QED
  BY <1>1 DEF Init, NoJob, NoRun, NoResult, Contract!Init, Contract!NoVerdict

\* Workers, leases, crashes, retries and cancellations, however they interleave, do no
\* more than open, freeze, advance and settle runs: the machinery keeps RunContract.
THEOREM RunsKeepContract == Spec => KeepsContract
<1>1. TypeInv /\ ClaimInv /\ VerdictInv /\ TapeInv /\ [Next]_vars
          => [Contract!Next]_(Contract!contract)
  BY ContractStep DEF contract, phases, progress, verdicts, Contract!contract
<1> QED
  BY TapeHolds, ContractStart, <1>1, PTL DEF Spec, KeepsContract, Contract!Spec

-----------------------------------------------------------------------------
(* What the revision graph sees of the runs *)

\* A validation was written by the run that answers to it, and says how that run ended;
\* a RunSpec was registered for a candidate that exists.
OutcomeInv ==
    /\ \A v \in ValidationIds : merge_validations[v] # None =>
          LET r == merge_validations[v].run IN
          /\ jobs[r].validation = v
          /\ formal_runs[r].status \in Terminal
          /\ merge_validations[v].outcome = Verdict(formal_runs[r].status)
    /\ \A s \in RunSpecIds :
          run_specs[s] # None => candidates[run_specs[s].candidate] # "absent"

LEMMA OutcomeInit == Init => OutcomeInv
BY DEF Init, OutcomeInv

\* A run keeps its RunSpec, a RunSpec what was registered under its id, and a candidate
\* exists for ever.
SpecsStay ==
    /\ \A r \in RunIds : jobs[r].status # None =>
          jobs'[r].status # None /\ jobs'[r].spec = jobs[r].spec
    /\ \A s \in RunSpecIds :
          \/ run_specs'[s] = run_specs[s]
          \/ run_specs[s] = None /\ candidates[run_specs'[s].candidate] = "current"
    /\ \A c \in CandidateIds : candidates[c] # "absent" => candidates'[c] # "absent"

\* An update of one job that leaves its RunSpec alone.
LEMMA SpecsStayWithJob ==
    ASSUME TypeOK, NEW r \in RunIds, NEW row, jobs' = [jobs EXCEPT ![r] = row],
           jobs[r].status # None => row.status # None /\ row.spec = jobs[r].spec,
           UNCHANGED <<run_specs, candidates>>
    PROVE  SpecsStay
<1>1. /\ jobs'[r] = row
      /\ \A q \in RunIds : q # r => jobs'[q] = jobs[q]
  BY DEF TypeOK
<1> QED
  BY <1>1 DEF SpecsStay

LEMMA SpecsStayStep == TypeInv /\ [Next]_vars => SpecsStay
<1> SUFFICES ASSUME TypeInv, [Next]_vars PROVE SpecsStay
  OBVIOUS
<1> TypeOK
  BY DEF TypeInv
<1>0. ASSUME UNCHANGED <<jobs, run_specs, candidates>> PROVE SpecsStay
  BY <1>0 DEF SpecsStay
<1>1. CASE GraphStep
  <2>1. UNCHANGED <<jobs, run_specs>>
    BY <1>1 DEF GraphStep, CreateCandidate, MoveHeads
  <2>2. \A c \in CandidateIds : candidates[c] # "absent" => candidates'[c] # "absent"
    BY <1>1 DEF GraphStep, CreateCandidate, MoveHeads, TypeOK
  <2> QED
    BY <2>1, <2>2 DEF SpecsStay
<1>2. ASSUME NEW r \in RunIds, NEW v \in ValidationIds, NEW s \in RunSpecIds,
             NEW c \in CandidateIds, NEW p \in Policies, Request(r, v, s, c, p)
      PROVE  SpecsStay
  <2>1. PICK body : body = [candidate |-> c, policy |-> p]
    OBVIOUS
  <2>2. /\ run_specs' = [run_specs EXCEPT ![s] = body] /\ run_specs[s] \in {None, body}
        /\ body.candidate = c /\ candidates[c] = "current" /\ candidates' = candidates
        /\ jobs[r].status = None
        /\ \A q \in RunIds : q # r => jobs'[q] = jobs[q]
    BY <1>2, <2>1 DEF Request, Unused, TypeOK
  <2>3. \A t \in RunSpecIds : t # s => run_specs'[t] = run_specs[t]
    BY <2>2 DEF TypeOK
  <2>4. run_specs'[s] = body
    BY <2>2 DEF TypeOK
  <2> QED
    BY <2>2, <2>3, <2>4 DEF SpecsStay
<1>3. ASSUME NEW r \in RunIds, NEW v \in ValidationIds, NEW source \in RunIds,
             Retry(source, r, v)
      PROVE  SpecsStay
  <2>1. PICK row : jobs' = [jobs EXCEPT ![r] = row]
    BY <1>3 DEF Retry
  <2> QED
    BY <1>3, <2>1, SpecsStayWithJob DEF Retry, Unused
<1>4. ASSUME NEW r \in RunIds, Cancel(r, jobs[r].status, jobs[r].version)
      PROVE  SpecsStay
  <2>1. PICK row : /\ row = [jobs[r] EXCEPT !.status = "cancelled",
                                            !.version = jobs[r].version + 1,
                                            !.token = 0, !.lease = None]
                   /\ jobs' = [jobs EXCEPT ![r] = row]
    BY <1>4 DEF Cancel
  <2>2. row.status # None /\ row.spec = jobs[r].spec
    BY <2>1, NoneIsNothing DEF Terminal, TypeOK, JobRows
  <2> QED
    BY <1>4, <2>1, <2>2, SpecsStayWithJob DEF Cancel
<1>5. ASSUME NEW r \in RunIds, ExpireLease(r) PROVE SpecsStay
  <2>1. PICK row : /\ row = [jobs[r] EXCEPT !.lease = "expired"]
                   /\ jobs' = [jobs EXCEPT ![r] = row]
    BY <1>5 DEF ExpireLease
  <2>2. row.status = jobs[r].status /\ row.spec = jobs[r].spec
    BY <2>1 DEF TypeOK, JobRows
  <2>3. UNCHANGED <<run_specs, candidates>>
    BY <1>1, <1>5 DEF ExpireLease, Next
  <2> QED
    BY <2>1, <2>2, <2>3, SpecsStayWithJob
<1>6. ASSUME NEW w \in Workers, NEW r \in RunIds, ClaimRun(w, r) PROVE SpecsStay
  <2>1. PICK row : /\ row = [jobs[r] EXCEPT !.status = "running",
                                            !.version = jobs[r].version + 1,
                                            !.epoch = jobs[r].epoch + 1,
                                            !.token = jobs[r].epoch + 1, !.lease = "live"]
                   /\ jobs' = [jobs EXCEPT ![r] = row]
    BY <1>6 DEF ClaimRun
  <2>2. row.status # None /\ row.spec = jobs[r].spec
    BY <2>1, NoneIsNothing DEF Active, TypeOK, JobRows
  <2> QED
    BY <1>6, <2>1, <2>2, SpecsStayWithJob DEF ClaimRun
<1>7. ASSUME NEW w \in Workers,
             \/ ExitOnError(w) \/ FinishVerification(w) \/ Crash(w) \/ Restart(w)
             \/ \E v \in VerifyIds : ClaimVerification(w, v)
             \/ Prepare(w) \/ LoadCheckpoint(w) \/ Finalize(w) \/ Execute(w)
             \/ \E fenced \in BOOLEAN : GiveUp(w, fenced)
      PROVE  SpecsStay
  BY <1>0, <1>7
     DEF ExitOnError, FinishVerification, Crash, Restart, ClaimVerification, Prepare,
         LoadCheckpoint, Finalize, Execute, GiveUp, Ledger
<1>8. ASSUME NEW w \in Workers, PublishPreparation(w), ~ExitOnError(w) PROVE SpecsStay
  BY <1>0, <1>8 DEF PublishPreparation
<1>9. ASSUME NEW w \in Workers, PersistCheckpoint(w), ~ExitOnError(w),
             ~GiveUp(w, workers[w].seq > 0)
      PROVE  SpecsStay
  <2>1. PICK r \in RunIds : r = workers[w].job
    BY <1>9 DEF PersistCheckpoint, RunPhases, TypeInv, WorkerShape
  <2>2. PICK row : /\ row.status = jobs[r].status /\ row.spec = jobs[r].spec
                   /\ jobs' = [jobs EXCEPT ![r] = row]
    <3>1. PICK next, row :
             /\ row = [jobs[r] EXCEPT !.seq = workers[w].seq + 1, !.next = next,
                                      !.context = workers[w].context]
             /\ jobs' = [jobs EXCEPT ![r] = row]
      BY <1>9, <2>1 DEF PersistCheckpoint
    <3>2. row.status = jobs[r].status /\ row.spec = jobs[r].spec
      BY <3>1 DEF TypeOK, JobRows
    <3> QED
      BY <3>1, <3>2
  <2> QED
    BY <1>9, <2>2, SpecsStayWithJob DEF PersistCheckpoint
<1>10. ASSUME NEW w \in Workers, FinishRun(w), ~ExitOnError(w) PROVE SpecsStay
  <2>1. PICK r \in RunIds : r = workers[w].job
    BY <1>10 DEF FinishRun, RunPhases, TypeInv, WorkerShape
  <2>2. workers[w].outcome # None
    BY <1>10, NoneIsNothing DEF FinishRun, TypeInv, WorkerShape, Terminal
  <2>3. PICK row : /\ row = [jobs[r] EXCEPT !.status = workers[w].outcome, !.token = 0,
                                            !.lease = None]
                   /\ jobs' = [jobs EXCEPT ![r] = row]
    BY <1>10, <2>1 DEF FinishRun
  <2>4. row.status # None /\ row.spec = jobs[r].spec
    BY <2>2, <2>3 DEF TypeOK, JobRows
  <2> QED
    BY <1>10, <2>3, <2>4, SpecsStayWithJob DEF FinishRun
<1>11. ASSUME NEW v \in VerifyIds, Capture(v) PROVE SpecsStay
  BY <1>0, <1>11 DEF Capture
<1>12. CASE UNCHANGED vars
  BY <1>0, <1>12 DEF vars
<1>13. ASSUME NEW w \in Workers, RunStep(w) PROVE SpecsStay
  <2>1. (workers[w].seq > 0) \in BOOLEAN
    BY DEF TypeOK, WorkerMemory
  <2> QED
    BY <1>7, <1>8, <1>9, <1>10, <1>13, <2>1, Zenon DEF RunStep
<1> QED
  BY <1>1, <1>2, <1>3, <1>4, <1>5, <1>6, <1>7, <1>11, <1>12, <1>13
     DEF Next, ClientStep, Time, WorkerStep, AbandonedLeaseExpires, HeldLeaseExpires

\* A run that a validation names has ended, so that no step moves it any more.
LEMMA ToldRunsEnded ==
    ASSUME TypeInv, VerdictInv, OutcomeInv, NEW v \in ValidationIds, merge_validations[v] # None
    PROVE  /\ merge_validations[v].run \in RunIds
           /\ jobs[merge_validations[v].run].status \in Terminal
           /\ jobs[merge_validations[v].run].status # None
<1>1. PICK r : r = merge_validations[v].run
  OBVIOUS
<1>2. r \in RunIds
  BY <1>1 DEF TypeInv, TypeOK, Maybe
<1>3. formal_runs[r].status \in Terminal
  BY <1>1 DEF OutcomeInv
<1>4. formal_runs[r].status # None
  BY <1>3, NoneIsNothing
<1>5. jobs[r].status \in Terminal
  BY <1>2, <1>4 DEF VerdictInv, SettledTogether
<1> QED
  BY <1>1, <1>2, <1>5, NoneIsNothing

LEMMA OutcomeStep ==
    TypeInv /\ ClaimInv /\ VerdictInv /\ OutcomeInv /\ [Next]_vars => OutcomeInv'
<1> SUFFICES ASSUME TypeInv, ClaimInv, VerdictInv, OutcomeInv, [Next]_vars
             PROVE  OutcomeInv'
  OBVIOUS
<1>1. SpecsStay /\ TypeInv'
  BY SpecsStayStep, TypeStep
<1>2. ASSUME NEW s \in RunSpecIds, run_specs'[s] # None
      PROVE  candidates'[run_specs'[s].candidate] # "absent"
  <2>1. PICK c : c = run_specs'[s].candidate
    OBVIOUS
  <2>2. c \in CandidateIds
    BY <1>1, <1>2, <2>1 DEF TypeInv, TypeOK, Maybe, SpecBodies
  <2>3. candidates[c] # "absent"
    BY <1>1, <1>2, <2>1 DEF SpecsStay, OutcomeInv
  <2> QED
    BY <1>1, <2>1, <2>2, <2>3 DEF SpecsStay
<1>3. ASSUME NEW v \in ValidationIds, merge_validations'[v] # None
      PROVE  LET r == merge_validations'[v].run IN
             /\ jobs'[r].validation = v
             /\ formal_runs'[r].status \in Terminal
             /\ merge_validations'[v].outcome = Verdict(formal_runs'[r].status)
  <2>1. CASE MovesNoRun
    BY <1>3, <2>1 DEF MovesNoRun, OutcomeInv
  <2>2. ASSUME NEW r \in RunIds, jobs[r].status \notin Terminal, TouchesOnly(r),
               merge_validations'[v] = merge_validations[v]
        PROVE  LET q == merge_validations'[v].run IN
               /\ jobs'[q].validation = v
               /\ formal_runs'[q].status \in Terminal
               /\ merge_validations'[v].outcome = Verdict(formal_runs'[q].status)
    <3>1. PICK q \in RunIds : q = merge_validations[v].run /\ jobs[q].status \in Terminal
      BY <1>3, <2>2, ToldRunsEnded
    <3>2. jobs'[q] = jobs[q] /\ formal_runs'[q] = formal_runs[q]
      BY <2>2, <3>1 DEF TouchesOnly
    <3>3. /\ jobs[q].validation = v
          /\ formal_runs[q].status \in Terminal
          /\ merge_validations[v].outcome = Verdict(formal_runs[q].status)
      BY <1>3, <2>2, <3>1 DEF OutcomeInv
    <3> QED
      BY <2>2, <3>1, <3>2, <3>3
  <2>3. ASSUME NEW r \in RunIds, Ends(r), v = jobs[r].validation
        PROVE  LET q == merge_validations'[v].run IN
               /\ jobs'[q].validation = v
               /\ formal_runs'[q].status \in Terminal
               /\ merge_validations'[v].outcome = Verdict(formal_runs'[q].status)
    <3>1. merge_validations'[v].run = r /\ merge_validations'[v].outcome = Verdict(jobs'[r].status)
      BY <2>3 DEF Ends
    <3> QED
      BY <2>3, <3>1 DEF Ends
  <2> QED
    BY <2>1, <2>2, <2>3, EveryStepMovesOneRun DEF MovesOneRun, TouchesOnly, StaysOpen
<1> QED
  BY <1>2, <1>3 DEF OutcomeInv

\* A step writes at most one validation, the one that its run answers to, and never one
\* that is there.
LEMMA StepValidates ==
    ASSUME TypeInv, ClaimInv, VerdictInv, OutcomeInv, [Next]_vars
    PROVE  \/ merge_validations' = merge_validations
           \/ \E r \in RunIds, v \in ValidationIds, outcome \in {"passed", "failed", "not_run"} :
                 /\ jobs[r].status # None
                 /\ merge_validations[v] = None
                 /\ merge_validations'[v] = [run |-> r, outcome |-> outcome]
                 /\ \A x \in ValidationIds :
                       x # v => merge_validations'[x] = merge_validations[x]
<1>1. CASE MovesNoRun
  BY <1>1 DEF MovesNoRun
<1>2. ASSUME NEW r \in RunIds, TouchesOnly(r), Ends(r)
      PROVE  \E v \in ValidationIds, outcome \in {"passed", "failed", "not_run"} :
                 /\ jobs[r].status # None
                 /\ merge_validations[v] = None
                 /\ merge_validations'[v] = [run |-> r, outcome |-> outcome]
                 /\ \A x \in ValidationIds :
                       x # v => merge_validations'[x] = merge_validations[x]
  <2>1. jobs[r].status # None /\ jobs[r].status \notin Terminal
    BY <1>2, NoneIsNothing DEF Ends, Active, Terminal
  <2>2. PICK v \in ValidationIds : v = jobs[r].validation
    BY <2>1 DEF VerdictInv
  <2>3. merge_validations[v] = None
    <3> SUFFICES ASSUME merge_validations[v] # None PROVE FALSE
      OBVIOUS
    <3>1. PICK q \in RunIds : q = merge_validations[v].run /\ jobs[q].status \in Terminal
      BY ToldRunsEnded
    <3>2. jobs[q].validation = v
      BY <3>1 DEF OutcomeInv
    <3>3. q = r
      BY <2>1, <2>2, <3>2 DEF VerdictInv
    <3> QED
      BY <2>1, <3>1, <3>3
  <2>4. Verdict(jobs'[r].status) \in {"passed", "failed", "not_run"}
    BY <1>2 DEF Ends, Terminal, Verdict
  <2> QED
    BY <1>2, <2>1, <2>2, <2>3, <2>4 DEF Ends, TouchesOnly
<1> QED
  BY <1>1, <1>2, EveryStepMovesOneRun DEF MovesOneRun, StaysOpen
=============================================================================
