--------------------------- MODULE PromotionPipeline ---------------------------
(***************************************************************************)
(* The revision graph and the formal runs of one project together: a merge *)
(* candidate is validated by a run and promoted on the run's validation,   *)
(* while other commands move the heads it was built on.  The two parts     *)
(* share the database: formal.run_request reads the heads, a run's end     *)
(* writes the validation that workspace.revision_promote reads.            *)
(***************************************************************************)
EXTENDS Naturals, Sequences, FiniteSets

CONSTANTS
    RevisionIds, VariantIds, ValidationIds, Paths, MaxFiles, MaxProjectVariants, MaxCrashes,
    Workers, RunIds, RunSpecIds, Tapes, VerifyIds, Stamps, TotalBars, BatchSize, Malformed,
    Refused, MaxFaults, MaxClaims, None

VARIABLES
    \* the revision graph
    revisions, variants, variant_heads, project_head, head_history, candidates,
    promotions, refs, crashes,
    \* the formal runs
    run_specs, jobs, verify_jobs, preparations, checkpoints, formal_runs,
    merge_validations, workers, faults

graph == <<revisions, variants, variant_heads, project_head, head_history, candidates,
           promotions, refs, crashes>>

running == <<run_specs, jobs, verify_jobs, preparations, checkpoints, formal_runs,
             merge_validations, workers, faults>>

vars == <<graph, running>>

\* What _promote_revision sees of a validation: its candidate and its outcome.
ValidationSeen(x) ==
    LET row == merge_validations[x] IN
    IF row = None THEN None
    ELSE [candidate |-> run_specs[jobs[row.run].spec].candidate, outcome |-> row.outcome]

Graph == INSTANCE RevisionGraph WITH
    merge_validations <- [x \in ValidationIds |-> ValidationSeen(x)]

\* Both heads are where, and at the versions at which, the candidate found them
\* (formal.run_request compares all four).
HeadsUnmoved(c) == Graph!ProjectHeadUnmoved(c) /\ Graph!VariantHeadUnmoved(c)

\* What formal.run_request sees of a candidate.
CandidateSeen(c) ==
    IF candidates[c] = None THEN "absent"
    ELSE IF HeadsUnmoved(c) THEN "current" ELSE "stale"

Runs == INSTANCE FormalRun WITH
    CandidateIds <- RevisionIds,
    candidates <- [c \in RevisionIds |-> CandidateSeen(c)]

\* What both parts assume of their constants.
ASSUME GraphBounds == MaxFiles \in Nat /\ MaxProjectVariants \in Nat /\ MaxCrashes \in Nat
ASSUME RunBounds == TotalBars \in Nat \ {0} /\ BatchSize \in Nat \ {0} /\ MaxFaults \in Nat
ASSUME UnfitData ==
    MaxClaims \in Nat /\ Malformed \subseteq RunSpecIds /\ Refused \subseteq Runs!Outputs
ASSUME ClockReadings == Stamps \subseteq Nat
ASSUME DisjointJobs == RunIds \cap VerifyIds = {}
ASSUME NoneIsNothing ==
    /\ None \notin RevisionIds \cup VariantIds \cup ValidationIds
    /\ None \notin Graph!Heads /\ None \notin Graph!RevisionRows
    /\ None \notin Graph!CandidateRows /\ None \notin Graph!ValidationRows
    /\ None \notin RunIds \cup VerifyIds \cup RunSpecIds
    /\ None \notin Runs!Contexts \cup Runs!SpecBodies
    /\ None \notin Runs!Active \cup Runs!Terminal \cup {"live", "expired"}
    /\ None \notin [run : RunIds, outcome : {"passed", "failed", "not_run"}]

Init ==
    /\ revisions = [r \in RevisionIds |-> None]
    /\ variants = [v \in VariantIds |-> None]
    /\ variant_heads = [v \in VariantIds |-> None]
    /\ project_head = None
    /\ head_history = <<>>
    /\ candidates = [r \in RevisionIds |-> None]
    /\ promotions = {}
    /\ refs = {}
    /\ crashes = 0
    /\ run_specs = [s \in RunSpecIds |-> None]
    /\ jobs = [r \in RunIds |-> Runs!NoJob]
    /\ verify_jobs = [v \in VerifyIds |-> Runs!NoVerify]
    /\ preparations = [r \in RunIds |-> None]
    /\ checkpoints = [r \in RunIds |-> <<>>]
    /\ formal_runs = [r \in RunIds |-> Runs!NoRun]
    /\ merge_validations = [x \in ValidationIds |-> None]
    /\ workers = [w \in Workers |-> Runs!IdleWorker]
    /\ faults = 0

\* A command of the revision graph.
GraphCommand ==
    /\ UNCHANGED running
    /\ \E r \in RevisionIds :
          \/ Graph!CommitCommand(r)
          \/ Graph!CrashBeforeCommit(r)
          \/ \E v \in VariantIds : Graph!CreateVariant(v, r)
          \/ \E x \in ValidationIds, expected \in RevisionIds : Graph!Promote(r, expected, x)

\* A command about runs, a step of a worker, a crash or the passing of time.
RunCommandOrStep ==
    /\ UNCHANGED graph
    /\ \/ Runs!ClientStep
       \/ \E w \in Workers : Runs!WorkerStep(w) \/ Runs!Crash(w) \/ Runs!Restart(w)
       \/ Runs!Time

Next == GraphCommand \/ RunCommandOrStep

Spec == Init /\ [][Next]_vars

-----------------------------------------------------------------------------
\* Every head of the project after its root stands for a run that ended well on
\* exactly that revision: all bars computed, from the tape that was frozen if the
\* run was checkpointed, under the validation that the promotion names.
PromotedOnCompleteRun ==
    \A p \in promotions : \E r \in RunIds :
        /\ jobs[r].validation = p.validation
        /\ jobs[r].status = "succeeded"
        /\ Runs!Candidate(r) = p.promoted
        /\ formal_runs[r].status = "succeeded"
        /\ formal_runs[r].result.bars = TotalBars
        /\ Runs!Policy(r) = "m5" => formal_runs[r].result.context = preparations[r]

Outdated(c) ==
    \/ project_head # candidates[c].project_parent
    \/ variant_heads[candidates[c].variant] # candidates[c].variant_parent

\* A candidate whose parents moved once can be retried and can even pass again,
\* but never becomes head: only candidates that are current are promoted.
StaleStaysOut ==
    [][\A c \in RevisionIds :
          candidates[c] # None /\ Outdated(c) =>
              /\ Outdated(c)'
              /\ project_head'.revision = c => project_head = project_head'
      ]_vars

\* Each part behaves, inside the whole, as its own specification says: the
\* environment steps that RevisionGraph and FormalRun allow are all there are.
KeepsParts == Graph!Spec /\ Runs!Spec
=============================================================================
