---------------------- MODULE PromotionPipeline_proofs ----------------------
(***************************************************************************)
(* Theorems about PromotionPipeline: the revision graph and the formal     *)
(* runs, over one database, are the parts that RevisionGraph and FormalRun *)
(* describe, so that what is proved of each part holds in the whole; and   *)
(* what only the whole can say.                                            *)
(***************************************************************************)
EXTENDS PromotionPipeline, TLAPS

\* The two parts with what is proved about them.
GraphProofs == INSTANCE RevisionGraph_proofs WITH
    merge_validations <- [x \in ValidationIds |-> ValidationSeen(x)]

RunProofs == INSTANCE FormalRun_proofs WITH
    CandidateIds <- RevisionIds,
    candidates <- [c \in RevisionIds |-> CandidateSeen(c)]

-----------------------------------------------------------------------------
(* The parts with and without their proofs are the same *)

LEMMA GraphConstants ==
    /\ MaxFiles \in Nat /\ MaxProjectVariants \in Nat /\ MaxCrashes \in Nat
    /\ None \notin RevisionIds \cup VariantIds \cup ValidationIds
    /\ None \notin GraphProofs!Heads /\ None \notin GraphProofs!RevisionRows
    /\ None \notin GraphProofs!CandidateRows /\ None \notin GraphProofs!ValidationRows
BY GraphBounds, NoneIsNothing
   DEF Graph!Heads, GraphProofs!Heads, Graph!RevisionRows, GraphProofs!RevisionRows,
       Graph!CandidateRows, GraphProofs!CandidateRows, Graph!ValidationRows,
       GraphProofs!ValidationRows, Graph!Maybe, GraphProofs!Maybe

LEMMA RunConstants ==
    /\ TotalBars \in Nat \ {0} /\ BatchSize \in Nat \ {0} /\ MaxFaults \in Nat
    /\ MaxClaims \in Nat /\ Malformed \subseteq RunSpecIds
    /\ Refused \subseteq RunProofs!Outputs
    /\ Stamps \subseteq Nat /\ RunIds \cap VerifyIds = {}
    /\ None \notin RunIds \cup VerifyIds \cup ValidationIds \cup RunSpecIds
    /\ None \notin RunProofs!Contexts \cup RunProofs!SpecBodies
    /\ None \notin RunProofs!Active \cup RunProofs!Terminal \cup {"live", "expired"}
BY RunBounds, UnfitData, ClockReadings, DisjointJobs, NoneIsNothing
   DEF Runs!Outputs, RunProofs!Outputs, Runs!Contexts, RunProofs!Contexts, Runs!SpecBodies, RunProofs!SpecBodies,
       Runs!Policies, RunProofs!Policies, Runs!Active, RunProofs!Active, Runs!Terminal,
       RunProofs!Terminal

LEMMA SameGraph ==
    /\ GraphProofs!Init <=> Graph!Init
    /\ GraphProofs!Next <=> Graph!Next
    /\ GraphProofs!vars = Graph!vars
<1>1. GraphProofs!Init <=> Graph!Init
  BY DEF GraphProofs!Init, Graph!Init
<1>2. GraphProofs!Next <=> Graph!Next
  BY
     DEF Graph!Exists, GraphProofs!Exists, Graph!HeadAt, GraphProofs!HeadAt, Graph!Moved,
         GraphProofs!Moved, Graph!RootAllowed, GraphProofs!RootAllowed, Graph!OnHead,
         GraphProofs!OnHead, Graph!ChildFiles, GraphProofs!ChildFiles, Graph!ChildAllowed,
         GraphProofs!ChildAllowed, Graph!ParentPaths, GraphProofs!ParentPaths, Graph!MergeAllowed,
         GraphProofs!MergeAllowed, Graph!CommitAllowed, GraphProofs!CommitAllowed, Graph!Protect,
         GraphProofs!Protect, Graph!CreateRoot, GraphProofs!CreateRoot, Graph!CreateChild,
         GraphProofs!CreateChild, Graph!CandidateRow, GraphProofs!CandidateRow, Graph!CreateMerge,
         GraphProofs!CreateMerge, Graph!CrashBeforeCommit, GraphProofs!CrashBeforeCommit,
         Graph!VariantCount, GraphProofs!VariantCount, Graph!VariantRoom, GraphProofs!VariantRoom,
         Graph!CreateVariant, GraphProofs!CreateVariant, Graph!Validate, GraphProofs!Validate,
         Graph!Passed, GraphProofs!Passed, Graph!ProjectHeadUnmoved,
         GraphProofs!ProjectHeadUnmoved, Graph!VariantHeadUnmoved, GraphProofs!VariantHeadUnmoved,
         Graph!WasHead, GraphProofs!WasHead, Graph!Unspent, GraphProofs!Unspent, Graph!Promote,
         GraphProofs!Promote, Graph!CommitCommand, GraphProofs!CommitCommand, Graph!Next,
         GraphProofs!Next, Graph!Cardinality, GraphProofs!Cardinality
<1> QED
  BY <1>1, <1>2 DEF GraphProofs!vars, Graph!vars

LEMMA SameRuns ==
    /\ RunProofs!Init <=> Runs!Init
    /\ RunProofs!Next <=> Runs!Next
    /\ RunProofs!vars = Runs!vars
<1>1. RunProofs!Init <=> Runs!Init
  BY DEF RunProofs!Init, Runs!Init, RunProofs!NoJob, Runs!NoJob, RunProofs!NoRun, Runs!NoRun,
         RunProofs!NoResult, Runs!NoResult, RunProofs!NoVerify, Runs!NoVerify,
         RunProofs!IdleWorker, Runs!IdleWorker
<1>2. RunProofs!Next <=> Runs!Next
  BY
     DEF Runs!Policies, RunProofs!Policies, Runs!Active, RunProofs!Active, Runs!Terminal,
         RunProofs!Terminal, Runs!Context, RunProofs!Context, Runs!Ledger, RunProofs!Ledger,
         Runs!NextCursor, RunProofs!NextCursor, Runs!NoJob, RunProofs!NoJob, Runs!NoResult,
         RunProofs!NoResult, Runs!NoRun, RunProofs!NoRun, Runs!NoVerify, RunProofs!NoVerify,
         Runs!IdleWorker, RunProofs!IdleWorker, Runs!Candidate, RunProofs!Candidate, Runs!Policy,
         RunProofs!Policy, Runs!CandidateIdle, RunProofs!CandidateIdle, Runs!QueuedJob,
         RunProofs!QueuedJob, Runs!Unused, RunProofs!Unused, Runs!Request, RunProofs!Request,
         Runs!Cancel, RunProofs!Cancel, Runs!Retry, RunProofs!Retry, Runs!Capture,
         RunProofs!Capture, Runs!Unleased, RunProofs!Unleased, Runs!NoFormalRunning,
         RunProofs!NoFormalRunning, Runs!ClaimableRuns, RunProofs!ClaimableRuns,
         Runs!ClaimableVerifications, RunProofs!ClaimableVerifications, Runs!Oldest,
         RunProofs!Oldest, Runs!ClaimRun, RunProofs!ClaimRun, Runs!ClaimVerification,
         RunProofs!ClaimVerification, Runs!FinishVerification, RunProofs!FinishVerification,
         Runs!LiveClaim, RunProofs!LiveClaim, Runs!ExitOnError, RunProofs!ExitOnError, Runs!GiveUp,
         RunProofs!GiveUp, Runs!Published, RunProofs!Published, Runs!Frozen, RunProofs!Frozen,
         Runs!OtherTape, RunProofs!OtherTape, Runs!OtherResult, RunProofs!OtherResult,
         Runs!Unregistrable, RunProofs!Unregistrable, Runs!Prepare, RunProofs!Prepare, Runs!PublishPreparation,
         RunProofs!PublishPreparation, Runs!LatestSeq, RunProofs!LatestSeq, Runs!LoadCheckpoint,
         RunProofs!LoadCheckpoint, Runs!PredecessorFence, RunProofs!PredecessorFence,
         Runs!PersistCheckpoint, RunProofs!PersistCheckpoint, Runs!Finalize, RunProofs!Finalize,
         Runs!Execute, RunProofs!Execute, Runs!CursorFence, RunProofs!CursorFence, Runs!FinishRun,
         RunProofs!FinishRun, Runs!Crash, RunProofs!Crash, Runs!Restart, RunProofs!Restart,
         Runs!Owns, RunProofs!Owns, Runs!ExpireLease, RunProofs!ExpireLease,
         Runs!AbandonedLeaseExpires, RunProofs!AbandonedLeaseExpires, Runs!HeldLeaseExpires,
         RunProofs!HeldLeaseExpires, Runs!RunStep, RunProofs!RunStep, Runs!WorkerStep,
         RunProofs!WorkerStep, Runs!ClientStep, RunProofs!ClientStep, Runs!GraphStep,
         RunProofs!GraphStep, Runs!CreateCandidate, RunProofs!CreateCandidate, Runs!MoveHeads,
         RunProofs!MoveHeads, Runs!Time, RunProofs!Time, Runs!Next, RunProofs!Next
<1> QED
  BY <1>1, <1>2 DEF RunProofs!vars, Runs!vars

-----------------------------------------------------------------------------
(* Heads, and the candidates built on them *)

\* No candidate is ahead of the heads it was recorded with.
CandidatesBehind ==
    \A c \in RevisionIds : candidates[c] # None =>
        /\ project_head # None
        /\ candidates[c].project_parent.version <= project_head.version
        /\ variant_heads[candidates[c].variant] # None
        /\ candidates[c].variant_parent.version <= variant_heads[candidates[c].variant].version

RunsInv ==
    /\ RunProofs!TypeInv /\ RunProofs!ClaimInv /\ RunProofs!VerdictInv
    /\ RunProofs!TapeInv /\ RunProofs!OutcomeInv

PipelineInv == GraphProofs!GraphInv /\ RunsInv /\ CandidatesBehind

LEMMA GraphTypes ==
    ASSUME GraphProofs!GraphInv
    PROVE  /\ candidates = [c \in RevisionIds |-> candidates[c]]
           /\ \A c \in RevisionIds : candidates[c] # None =>
                 /\ candidates[c].variant \in VariantIds
                 /\ candidates[c].project_parent.version \in Nat
                 /\ candidates[c].variant_parent.version \in Nat
                 /\ candidates[c].project_parent # None
                 /\ candidates[c].variant_parent # None
                 /\ revisions[c] # None
           /\ project_head # None => project_head.version \in Nat
           /\ variant_heads = [v \in VariantIds |-> variant_heads[v]]
           /\ \A v \in VariantIds : variant_heads[v] # None => variant_heads[v].version \in Nat
           /\ \A v \in VariantIds : variants[v] = None => variant_heads[v] = None
<1>1. candidates \in [RevisionIds -> GraphProofs!CandidateRows \cup {None}]
  BY DEF GraphProofs!GraphInv, GraphProofs!CandidatesOK, GraphProofs!Maybe
<1>2. \A c \in RevisionIds : candidates[c] # None =>
          candidates[c] \in GraphProofs!CandidateRows /\ revisions[c] # None
  BY <1>1 DEF GraphProofs!GraphInv, GraphProofs!CandidatesOK, GraphProofs!Exists
<1>3. \A h \in GraphProofs!Heads : h.version \in Nat /\ h # None
  BY GraphConstants DEF GraphProofs!Heads
<1>4. \A row \in GraphProofs!CandidateRows :
          /\ row.variant \in VariantIds
          /\ row.project_parent \in GraphProofs!Heads /\ row.variant_parent \in GraphProofs!Heads
  BY DEF GraphProofs!CandidateRows
<1>5. project_head \in GraphProofs!Heads \cup {None}
  BY DEF GraphProofs!GraphInv, GraphProofs!HistoryOK, GraphProofs!Maybe
<1>6. /\ variant_heads \in [VariantIds -> GraphProofs!Heads \cup {None}]
      /\ \A v \in VariantIds : variants[v] = None => variant_heads[v] = None
  BY DEF GraphProofs!GraphInv, GraphProofs!VariantsOK, GraphProofs!Maybe
<1> QED
  BY <1>1, <1>2, <1>3, <1>4, <1>5, <1>6

\* A head stays, or moves on by one version.
HeadStands(old, new) == old # None => new # None /\ (new = old \/ new.version = old.version + 1)

HeadsMove ==
    /\ candidates' = candidates
    /\ HeadStands(project_head, project_head')
    /\ \A v \in VariantIds : HeadStands(variant_heads[v], variant_heads'[v])

\* A candidate is recorded against the heads of this moment.
CandidateForms(c, v) ==
    /\ candidates[c] = None
    /\ project_head # None /\ variant_heads[v] # None
    /\ candidates' = [candidates EXCEPT ![c] =
           [variant |-> v, project_parent |-> project_head, variant_parent |-> variant_heads[v]]]
    /\ UNCHANGED <<project_head, variant_heads>>

LEMMA MovedStands ==
    ASSUME NEW head, NEW r, head # None => head.version \in Nat,
           None \notin GraphProofs!Heads, r \in RevisionIds
    PROVE  head # None => HeadStands(head, Graph!Moved(head, r))
<1> SUFFICES ASSUME head # None PROVE HeadStands(head, Graph!Moved(head, r))
  OBVIOUS
<1>1. head.version + 1 \in Nat
  OBVIOUS
<1>2. [revision |-> r, version |-> head.version + 1] \in GraphProofs!Heads
  BY <1>1 DEF GraphProofs!Heads
<1> QED
  BY <1>2 DEF HeadStands, Graph!Moved, Graph!HeadAt

LEMMA GraphCommandKinds ==
    ASSUME GraphProofs!GraphInv, GraphCommand
    PROVE  HeadsMove \/ \E c \in RevisionIds, v \in VariantIds : CandidateForms(c, v)
<1>1. \A h : HeadStands(h, h)
  BY DEF HeadStands
<1>2. ASSUME UNCHANGED <<candidates, project_head, variant_heads>> PROVE HeadsMove
  BY <1>1, <1>2 DEF HeadsMove
<1>3. ASSUME NEW r \in RevisionIds, NEW files, Graph!CreateRoot(r, files) PROVE HeadsMove
  <2>1. project_head = None /\ UNCHANGED <<candidates, variant_heads>>
    BY <1>3 DEF Graph!CreateRoot, Graph!RootAllowed
  <2> QED
    BY <1>1, <2>1 DEF HeadsMove, HeadStands
<1>4. ASSUME NEW r \in RevisionIds, NEW v \in VariantIds, NEW base, NEW added, NEW removed,
             Graph!CreateChild(r, v, base, added, removed)
      PROVE  HeadsMove
  <2>1. /\ variant_heads' = [variant_heads EXCEPT ![v] = Graph!Moved(variant_heads[v], r)]
        /\ UNCHANGED <<candidates, project_head>>
    BY <1>4 DEF Graph!CreateChild
  <2>2. HeadStands(variant_heads[v], Graph!Moved(variant_heads[v], r))
    BY <1>4, GraphTypes, MovedStands, GraphConstants
       DEF Graph!CreateChild, Graph!ChildAllowed, Graph!OnHead
  <2>3. PICK head : head = Graph!Moved(variant_heads[v], r)
    OBVIOUS
  <2>4. \A u \in VariantIds : variant_heads'[u] = IF u = v THEN head ELSE variant_heads[u]
    BY <2>1, <2>3, GraphTypes
  <2> QED
    BY <1>1, <2>1, <2>2, <2>3, <2>4 DEF HeadsMove
<1>5. ASSUME NEW c \in RevisionIds, NEW v \in VariantIds, NEW base, NEW expected,
             Graph!CreateMerge(c, v, expected, base)
      PROVE  CandidateForms(c, v)
  BY <1>5, GraphTypes
     DEF Graph!CreateMerge, Graph!MergeAllowed, Graph!Exists, Graph!CandidateRow, CandidateForms
<1>6. ASSUME NEW r \in RevisionIds, Graph!CrashBeforeCommit(r) PROVE HeadsMove
  BY <1>2, <1>6 DEF Graph!CrashBeforeCommit
<1>7. ASSUME NEW v \in VariantIds, NEW r \in RevisionIds, Graph!CreateVariant(v, r)
      PROVE  HeadsMove
  <2>1. /\ variant_heads[v] = None
        /\ \A u \in VariantIds : u # v => variant_heads'[u] = variant_heads[u]
        /\ UNCHANGED <<candidates, project_head>>
    BY <1>7, GraphTypes DEF Graph!CreateVariant
  <2>2. \A u \in VariantIds : HeadStands(variant_heads[u], variant_heads'[u])
    BY <1>1, <2>1 DEF HeadStands
  <2> QED
    BY <1>1, <2>1, <2>2 DEF HeadsMove
<1>8. ASSUME NEW c \in RevisionIds, NEW expected, NEW x, Graph!Promote(c, expected, x)
      PROVE  HeadsMove
  <2>1. PICK v \in VariantIds : v = candidates[c].variant
    BY <1>8, GraphTypes DEF Graph!Promote
  <2>2. /\ candidates[c] # None
        /\ project_head = candidates[c].project_parent
        /\ variant_heads[v] = candidates[c].variant_parent
        /\ project_head' = Graph!Moved(project_head, c)
        /\ variant_heads' = [variant_heads EXCEPT ![v] = Graph!Moved(variant_heads[v], c)]
        /\ candidates' = candidates
    BY <1>8, <2>1 DEF Graph!Promote, Graph!ProjectHeadUnmoved, Graph!VariantHeadUnmoved
  <2>3. project_head # None /\ variant_heads[v] # None
    BY <2>2, GraphTypes
  <2>4. /\ HeadStands(project_head, Graph!Moved(project_head, c))
        /\ HeadStands(variant_heads[v], Graph!Moved(variant_heads[v], c))
    BY <2>3, GraphTypes, MovedStands, GraphConstants
  <2>5. PICK head : head = Graph!Moved(variant_heads[v], c)
    OBVIOUS
  <2>6. \A u \in VariantIds : variant_heads'[u] = IF u = v THEN head ELSE variant_heads[u]
    BY <2>2, <2>5, GraphTypes
  <2> QED
    BY <1>1, <2>2, <2>4, <2>5, <2>6 DEF HeadsMove
<1> QED
  BY <1>3, <1>4, <1>5, <1>6, <1>7, <1>8 DEF GraphCommand, Graph!CommitCommand

\* A command about runs, or a step of a worker, moves no head.
LEMMA RunStepKinds == RunCommandOrStep => HeadsMove
BY DEF RunCommandOrStep, graph, HeadsMove, HeadStands

\* A head at or beyond a version is at or beyond it afterwards, and a head that has left
\* what a candidate was recorded with does not come back to it.
LEMMA HeadsLeave ==
    ASSUME NEW old, NEW new, NEW seen, HeadStands(old, new), old # None,
           old.version \in Nat, seen.version \in Nat, seen.version <= old.version
    PROVE  /\ new # None /\ seen.version <= new.version
           /\ old # seen => new # seen
BY DEF HeadStands

LEMMA CandidatesStayBehind ==
    ASSUME GraphProofs!GraphInv, CandidatesBehind,
           HeadsMove \/ \E c \in RevisionIds, v \in VariantIds : CandidateForms(c, v)
    PROVE  CandidatesBehind'
<1> SUFFICES ASSUME NEW c \in RevisionIds, candidates'[c] # None
             PROVE  /\ project_head' # None
                    /\ candidates'[c].project_parent.version <= project_head'.version
                    /\ variant_heads'[candidates'[c].variant] # None
                    /\ candidates'[c].variant_parent.version
                           <= variant_heads'[candidates'[c].variant].version
  BY DEF CandidatesBehind
<1>1. CASE HeadsMove
  <2>1. candidates'[c] = candidates[c] /\ candidates[c] # None
    BY <1>1 DEF HeadsMove
  <2>2. PICK row : row = candidates[c]
    OBVIOUS
  <2>3. PICK v \in VariantIds : v = row.variant
    BY <2>1, <2>2, GraphTypes
  <2>4. /\ project_head # None /\ project_head.version \in Nat
        /\ row.project_parent.version \in Nat
        /\ row.project_parent.version <= project_head.version
        /\ HeadStands(project_head, project_head')
    BY <1>1, <2>1, <2>2, <2>3, GraphTypes DEF CandidatesBehind, HeadsMove
  <2>5. /\ variant_heads[v] # None /\ variant_heads[v].version \in Nat
        /\ row.variant_parent.version \in Nat
        /\ row.variant_parent.version <= variant_heads[v].version
        /\ HeadStands(variant_heads[v], variant_heads'[v])
    BY <1>1, <2>1, <2>2, <2>3, GraphTypes DEF CandidatesBehind, HeadsMove
  <2>6. project_head' # None /\ row.project_parent.version <= project_head'.version
    BY <2>4, HeadsLeave
  <2>7. variant_heads'[v] # None /\ row.variant_parent.version <= variant_heads'[v].version
    BY <2>5, HeadsLeave
  <2> QED
    BY <2>1, <2>2, <2>3, <2>6, <2>7
<1>2. ASSUME NEW d \in RevisionIds, NEW v \in VariantIds, CandidateForms(d, v)
      PROVE  /\ project_head' # None
             /\ candidates'[c].project_parent.version <= project_head'.version
             /\ variant_heads'[candidates'[c].variant] # None
             /\ candidates'[c].variant_parent.version
                    <= variant_heads'[candidates'[c].variant].version
  <2>1. CASE c = d
    <3>1. PICK row : /\ row.variant = v /\ row.project_parent = project_head
                     /\ row.variant_parent = variant_heads[v]
                     /\ candidates' = [candidates EXCEPT ![d] = row]
      BY <1>2 DEF CandidateForms
    <3>2. candidates'[c] = row
      BY <2>1, <3>1, GraphTypes
    <3>3. project_head.version \in Nat /\ variant_heads[v].version \in Nat
      BY <1>2, GraphTypes DEF CandidateForms
    <3> QED
      BY <1>2, <3>1, <3>2, <3>3 DEF CandidateForms
  <2>2. CASE c # d
    <3>1. candidates'[c] = candidates[c]
      BY <1>2, <2>2, GraphTypes DEF CandidateForms
    <3> QED
      BY <1>2, <3>1 DEF CandidateForms, CandidatesBehind
  <2> QED
    BY <2>1, <2>2
<1> QED
  BY <1>1, <1>2

\* What was recorded of a candidate stays, and one that is out of date stays out of date.
LEMMA OutdatedStays ==
    ASSUME GraphProofs!GraphInv, CandidatesBehind,
           HeadsMove \/ \E c \in RevisionIds, v \in VariantIds : CandidateForms(c, v),
           NEW c \in RevisionIds, candidates[c] # None
    PROVE  candidates'[c] = candidates[c] /\ (Outdated(c) => Outdated(c)')
<1>1. candidates'[c] = candidates[c]
  BY GraphTypes DEF HeadsMove, CandidateForms
<1>2. PICK row : row = candidates[c]
  OBVIOUS
<1>3. PICK v \in VariantIds : v = row.variant
  BY <1>2, GraphTypes
<1>4. /\ Outdated(c) <=> project_head # row.project_parent \/ variant_heads[v] # row.variant_parent
      /\ Outdated(c)' <=> project_head' # row.project_parent \/ variant_heads'[v] # row.variant_parent
  BY <1>1, <1>2, <1>3 DEF Outdated
<1>5. CASE HeadsMove
  <2>1. /\ project_head # None /\ project_head.version \in Nat
        /\ row.project_parent.version \in Nat
        /\ row.project_parent.version <= project_head.version
        /\ HeadStands(project_head, project_head')
    BY <1>2, <1>3, <1>5, GraphTypes DEF CandidatesBehind, HeadsMove
  <2>2. /\ variant_heads[v] # None /\ variant_heads[v].version \in Nat
        /\ row.variant_parent.version \in Nat
        /\ row.variant_parent.version <= variant_heads[v].version
        /\ HeadStands(variant_heads[v], variant_heads'[v])
    BY <1>2, <1>3, <1>5, GraphTypes DEF CandidatesBehind, HeadsMove
  <2>3. project_head # row.project_parent => project_head' # row.project_parent
    BY <2>1, HeadsLeave
  <2>4. variant_heads[v] # row.variant_parent => variant_heads'[v] # row.variant_parent
    BY <2>2, HeadsLeave
  <2> QED
    BY <1>1, <1>4, <2>3, <2>4
<1>6. ASSUME UNCHANGED <<project_head, variant_heads>>
      PROVE  candidates'[c] = candidates[c] /\ (Outdated(c) => Outdated(c)')
  BY <1>1, <1>4, <1>6
<1> QED
  BY <1>5, <1>6 DEF CandidateForms

-----------------------------------------------------------------------------
(* A command of the graph, as the runs see it *)

Seen == [c \in RevisionIds |-> CandidateSeen(c)]

LEMMA SeenOutdated ==
    ASSUME NEW c \in RevisionIds
    PROVE  /\ CandidateSeen(c) = "absent" <=> candidates[c] = None
           /\ CandidateSeen(c) = "stale" <=> candidates[c] # None /\ Outdated(c)
           /\ CandidateSeen(c) = "current" <=> candidates[c] # None /\ ~Outdated(c)
BY DEF CandidateSeen, Outdated, HeadsUnmoved, Graph!ProjectHeadUnmoved,
       Graph!VariantHeadUnmoved

LEMMA SeenOutdatedNext ==
    ASSUME NEW c \in RevisionIds
    PROVE  /\ CandidateSeen(c)' = "absent" <=> candidates'[c] = None
           /\ CandidateSeen(c)' = "stale" <=> candidates'[c] # None /\ Outdated(c)'
           /\ CandidateSeen(c)' = "current" <=> candidates'[c] # None /\ ~Outdated(c)'
BY DEF CandidateSeen, Outdated, HeadsUnmoved, Graph!ProjectHeadUnmoved,
       Graph!VariantHeadUnmoved

\* A move of heads makes candidates stale, and changes nothing else of them.
LEMMA MovesMakeStale ==
    ASSUME GraphProofs!GraphInv, CandidatesBehind, HeadsMove, UNCHANGED running
    PROVE  Runs!Next \/ UNCHANGED Runs!vars
<1> DEFINE outdated == {c \in RevisionIds : CandidateSeen(c) = "current" /\ CandidateSeen(c)' = "stale"}
<1>1. ASSUME NEW c \in RevisionIds
      PROVE  CandidateSeen(c)' = IF c \in outdated THEN "stale" ELSE CandidateSeen(c)
  <2>1. candidates'[c] = candidates[c]
    BY DEF HeadsMove
  <2>2. candidates[c] # None => (Outdated(c) => Outdated(c)')
    BY OutdatedStays
  <2>3. \/ CandidateSeen(c) = "absent" /\ CandidateSeen(c)' = "absent"
        \/ CandidateSeen(c) = "stale" /\ CandidateSeen(c)' = "stale"
        \/ CandidateSeen(c) = "current" /\ CandidateSeen(c)' \in {"current", "stale"}
    BY <2>1, <2>2, SeenOutdated, SeenOutdatedNext
  <2> QED
    BY <2>3
<1>2. CASE outdated = {}
  <2>1. \A c \in RevisionIds : CandidateSeen(c)' = CandidateSeen(c)
    BY <1>1, <1>2
  <2>2. Seen' = Seen
    BY <2>1 DEF Seen
  <2> QED
    BY <2>2 DEF Runs!vars, running, Seen
<1>3. CASE outdated # {}
  <2>1. \A c \in outdated : Seen[c] = "current"
    BY DEF Seen
  <2>2. Seen' = [c \in RevisionIds |-> IF c \in outdated THEN "stale" ELSE Seen[c]]
    BY <1>1 DEF Seen
  <2>3. Runs!MoveHeads(outdated)
    BY <1>3, <2>1, <2>2 DEF Runs!MoveHeads, Runs!Ledger, running, Seen
  <2>4. outdated \in SUBSET RevisionIds
    OBVIOUS
  <2> QED
    BY <2>3, <2>4 DEF Runs!Next, Runs!GraphStep
<1> QED
  BY <1>2, <1>3

\* A new candidate is current, and moves nothing.
LEMMA NewIsCurrent ==
    ASSUME GraphProofs!GraphInv, CandidatesBehind, NEW c \in RevisionIds, NEW v \in VariantIds,
           CandidateForms(c, v), UNCHANGED running
    PROVE  Runs!Next
<1>1. PICK row : /\ row = [variant |-> v, project_parent |-> project_head,
                           variant_parent |-> variant_heads[v]]
                 /\ candidates' = [candidates EXCEPT ![c] = row]
  BY DEF CandidateForms
<1>2. \A d \in RevisionIds : candidates'[d] = IF d = c THEN row ELSE candidates[d]
  BY <1>1, GraphTypes
<1>3. row # None
  <2>1. v \in VariantIds /\ project_head \in GraphProofs!Heads /\ variant_heads[v] \in GraphProofs!Heads
    BY DEF CandidateForms, GraphProofs!GraphInv, GraphProofs!HistoryOK, GraphProofs!VariantsOK,
           GraphProofs!Maybe
  <2>2. row \in GraphProofs!CandidateRows
    BY <1>1, <2>1 DEF GraphProofs!CandidateRows
  <2> QED
    BY <2>2, GraphConstants
<1>4. CandidateSeen(c) = "absent" /\ CandidateSeen(c)' = "current"
  <2>1. ~Outdated(c)'
    BY <1>1, <1>2 DEF Outdated, CandidateForms
  <2> QED
    BY <1>2, <1>3, <2>1, SeenOutdated, SeenOutdatedNext DEF CandidateForms
<1>5. ASSUME NEW d \in RevisionIds, d # c PROVE CandidateSeen(d)' = CandidateSeen(d)
  <2>1. candidates'[d] = candidates[d] /\ UNCHANGED <<project_head, variant_heads>>
    BY <1>2, <1>5 DEF CandidateForms
  <2> QED
    BY <2>1 DEF CandidateSeen, HeadsUnmoved, Graph!ProjectHeadUnmoved, Graph!VariantHeadUnmoved
<1>6. Seen[c] = "absent" /\ Seen' = [Seen EXCEPT ![c] = "current"]
  BY <1>4, <1>5 DEF Seen
<1>7. Runs!CreateCandidate(c)
  BY <1>6 DEF Runs!CreateCandidate, Runs!Ledger, running, Seen
<1> QED
  BY <1>7 DEF Runs!Next, Runs!GraphStep

-----------------------------------------------------------------------------
(* A step of the runs, as the graph sees it *)

SeenRows == [x \in ValidationIds |-> ValidationSeen(x)]

\* What the graph sees of a validation stays when its row stays.
LEMMA SeenRowStays ==
    ASSUME RunsInv, RunProofs!SpecsStay, NEW x \in ValidationIds,
           merge_validations'[x] = merge_validations[x]
    PROVE  ValidationSeen(x)' = ValidationSeen(x)
<1>1. CASE merge_validations[x] = None
  BY <1>1 DEF ValidationSeen
<1>2. CASE merge_validations[x] # None
  <2>1. PICK r \in RunIds : r = merge_validations[x].run /\ jobs[r].status # None
    BY <1>2, RunConstants, RunProofs!ToldRunsEnded DEF RunsInv
  <2>2. PICK s \in RunSpecIds : s = jobs[r].spec /\ run_specs[s] \in RunProofs!SpecBodies
    BY <2>1 DEF RunsInv, RunProofs!TapeInv, RunProofs!RowsOK, RunProofs!SpecOK
  <2>3. jobs'[r].spec = s /\ run_specs'[s] = run_specs[s]
    BY <2>1, <2>2, RunConstants DEF RunProofs!SpecsStay
  <2> QED
    BY <2>1, <2>2, <2>3 DEF ValidationSeen
<1> QED
  BY <1>1, <1>2

LEMMA RunsValidate ==
    ASSUME RunsInv, Runs!Next, UNCHANGED graph
    PROVE  Graph!Next \/ UNCHANGED Graph!vars
<1> SUFFICES ASSUME TRUE PROVE Graph!Next \/ UNCHANGED Graph!vars
  OBVIOUS
<1>1. RunProofs!Next
  BY SameRuns
<1>2. RunProofs!SpecsStay
  BY <1>1, RunConstants, RunProofs!SpecsStayStep DEF RunsInv
<1>3. \/ merge_validations' = merge_validations
      \/ \E r \in RunIds, v \in ValidationIds, outcome \in {"passed", "failed", "not_run"} :
            /\ jobs[r].status # None
            /\ merge_validations[v] = None
            /\ merge_validations'[v] = [run |-> r, outcome |-> outcome]
            /\ \A x \in ValidationIds : x # v => merge_validations'[x] = merge_validations[x]
  BY <1>1, RunConstants, RunProofs!StepValidates DEF RunsInv
<1>4. CASE merge_validations' = merge_validations
  <2>1. SeenRows' = SeenRows
    BY <1>2, <1>4, SeenRowStays DEF SeenRows
  <2> QED
    BY <2>1 DEF Graph!vars, graph, SeenRows
<1>5. ASSUME NEW r \in RunIds, NEW v \in ValidationIds,
             NEW outcome \in {"passed", "failed", "not_run"},
             jobs[r].status # None, merge_validations[v] = None,
             merge_validations'[v] = [run |-> r, outcome |-> outcome],
             \A x \in ValidationIds : x # v => merge_validations'[x] = merge_validations[x]
      PROVE  Graph!Next
  <2>1. PICK s \in RunSpecIds : s = jobs[r].spec /\ run_specs[s] \in RunProofs!SpecBodies
    BY <1>5 DEF RunsInv, RunProofs!TapeInv, RunProofs!RowsOK, RunProofs!SpecOK
  <2>2. PICK c \in RevisionIds : c = run_specs[s].candidate
    BY <2>1 DEF RunProofs!SpecBodies
  <2>3. candidates[c] # None
    <3>1. run_specs[s] # None
      BY <2>1, RunConstants
    <3>2. Seen[c] # "absent"
      BY <2>2, <3>1 DEF RunsInv, RunProofs!OutcomeInv, Seen
    <3> QED
      BY <3>2, SeenOutdated DEF Seen
  <2>4. jobs'[r].spec = s /\ run_specs'[s] = run_specs[s]
    BY <1>2, <1>5, <2>1, RunConstants DEF RunProofs!SpecsStay
  <2>5. ValidationSeen(v) = None
    BY <1>5 DEF ValidationSeen
  <2>6. ValidationSeen(v)' = [candidate |-> c, outcome |-> outcome]
    <3>1. merge_validations'[v] # None
      BY <1>5, NoneIsNothing
    <3> QED
      BY <1>5, <2>2, <2>4, <3>1 DEF ValidationSeen
  <2>7. \A x \in ValidationIds : x # v => ValidationSeen(x)' = ValidationSeen(x)
    BY <1>2, <1>5, SeenRowStays
  <2>8. SeenRows[v] = None
    BY <2>5 DEF SeenRows
  <2>9. SeenRows' = [SeenRows EXCEPT ![v] = [candidate |-> c, outcome |-> outcome]]
    BY <2>6, <2>7 DEF SeenRows
  <2>10. Graph!Validate(v, c, outcome)
    BY <2>3, <2>8, <2>9 DEF Graph!Validate, graph, SeenRows
  <2> QED
    BY <2>10 DEF Graph!Next
<1> QED
  BY <1>3, <1>4, <1>5

-----------------------------------------------------------------------------
(* The whole *)

LEMMA PipelineInit == Init => Graph!Init /\ Runs!Init /\ CandidatesBehind
<1> SUFFICES ASSUME Init PROVE Graph!Init /\ Runs!Init /\ CandidatesBehind
  OBVIOUS
<1>1. \A c \in RevisionIds : candidates[c] = None /\ CandidateSeen(c) = "absent"
  BY DEF Init, CandidateSeen
<1>2. \A x \in ValidationIds : ValidationSeen(x) = None
  BY DEF Init, ValidationSeen
<1> QED
  BY <1>1, <1>2 DEF Init, Graph!Init, Runs!Init, CandidatesBehind

\* A step of the whole is a step of each part, or the part rests.
LEMMA PipelineStep ==
    ASSUME PipelineInv, [Next]_vars
    PROVE  [Graph!Next]_(Graph!vars) /\ [Runs!Next]_(Runs!vars) /\ CandidatesBehind'
<1>1. CASE GraphCommand
  <2>1. Graph!Next
    BY <1>1 DEF GraphCommand, Graph!Next
  <2>2. HeadsMove \/ \E c \in RevisionIds, v \in VariantIds : CandidateForms(c, v)
    BY <1>1, GraphCommandKinds DEF PipelineInv
  <2>3. UNCHANGED running
    BY <1>1 DEF GraphCommand
  <2>4. Runs!Next \/ UNCHANGED Runs!vars
    BY <2>2, <2>3, MovesMakeStale, NewIsCurrent DEF PipelineInv
  <2> QED
    BY <2>1, <2>2, <2>4, CandidatesStayBehind DEF PipelineInv
<1>2. CASE RunCommandOrStep
  <2>1. Runs!Next
    BY <1>2 DEF RunCommandOrStep, Runs!Next
  <2>2. Graph!Next \/ UNCHANGED Graph!vars
    BY <1>2, <2>1, RunsValidate DEF RunCommandOrStep, PipelineInv
  <2>3. CandidatesBehind'
    BY <1>2, RunStepKinds, CandidatesStayBehind DEF PipelineInv
  <2> QED
    BY <2>1, <2>2, <2>3
<1>3. CASE UNCHANGED vars
  <2>1. UNCHANGED <<graph, running>>
    BY <1>3 DEF vars
  <2>2. \A c \in RevisionIds : CandidateSeen(c)' = CandidateSeen(c)
    BY <2>1 DEF graph, CandidateSeen, HeadsUnmoved, Graph!ProjectHeadUnmoved,
                Graph!VariantHeadUnmoved
  <2>3. \A x \in ValidationIds : ValidationSeen(x)' = ValidationSeen(x)
    BY <2>1 DEF running, ValidationSeen
  <2>4. UNCHANGED Graph!vars
    BY <2>1, <2>3 DEF Graph!vars, graph
  <2>5. UNCHANGED Runs!vars
    BY <2>1, <2>2 DEF Runs!vars, running
  <2>6. CandidatesBehind'
    BY <2>1 DEF graph, CandidatesBehind, PipelineInv
  <2> QED
    BY <2>4, <2>5, <2>6
<1> QED
  BY <1>1, <1>2, <1>3 DEF Next

LEMMA PartsStart == Graph!Init /\ Runs!Init => GraphProofs!GraphInv /\ RunsInv
<1> SUFFICES ASSUME Graph!Init, Runs!Init PROVE GraphProofs!GraphInv /\ RunsInv
  OBVIOUS
<1>1. GraphProofs!Init /\ RunProofs!Init
  BY SameGraph, SameRuns
<1>2. GraphProofs!GraphInv
  BY <1>1, GraphConstants, GraphProofs!GraphInit
<1>3. RunsInv
  BY <1>1, RunConstants, RunProofs!TypeInit, RunProofs!ClaimInit, RunProofs!VerdictInit,
     RunProofs!TapeInit, RunProofs!OutcomeInit DEF RunsInv
<1> QED
  BY <1>2, <1>3

LEMMA PartsStep ==
    /\ GraphProofs!GraphInv /\ [Graph!Next]_(Graph!vars) => GraphProofs!GraphInv'
    /\ RunsInv /\ [Runs!Next]_(Runs!vars) => RunsInv'
<1>1. GraphProofs!GraphInv /\ [Graph!Next]_(Graph!vars) => GraphProofs!GraphInv'
  <2>1. [Graph!Next]_(Graph!vars) => [GraphProofs!Next]_(GraphProofs!vars)
    BY SameGraph DEF GraphProofs!vars, Graph!vars
  <2> QED
    BY <2>1, GraphConstants, GraphProofs!GraphNext
<1>2. ASSUME RunsInv, [Runs!Next]_(Runs!vars) PROVE RunsInv'
  <2>1. [RunProofs!Next]_(RunProofs!vars)
    BY <1>2, SameRuns DEF RunProofs!vars, Runs!vars
  <2>2. RunProofs!TypeInv' /\ RunProofs!ClaimInv' /\ RunProofs!VerdictInv'
    BY <1>2, <2>1, RunConstants, RunProofs!TypeStep, RunProofs!ClaimStep, RunProofs!VerdictStep
       DEF RunsInv
  <2>3. RunProofs!TapeInv'
    BY <1>2, <2>1, RunConstants, RunProofs!TapeStep DEF RunsInv
  <2>4. RunProofs!OutcomeInv'
    BY <1>2, <2>1, RunConstants, RunProofs!OutcomeStep DEF RunsInv
  <2> QED
    BY <2>2, <2>3, <2>4 DEF RunsInv
<1> QED
  BY <1>1, <1>2

LEMMA PipelineHolds == Spec => []PipelineInv
<1>1. Init => PipelineInv
  BY PipelineInit, PartsStart DEF PipelineInv
<1>2. PipelineInv /\ [Next]_vars => PipelineInv'
  BY PipelineStep, PartsStep DEF PipelineInv
<1> QED
  BY <1>1, <1>2, PTL DEF Spec

\* The revision graph and the runs of one database are the two parts, each as its own
\* specification describes it: what the environment does to one is what the other does,
\* and every theorem about a part is one about the whole.
THEOREM PartsAreKept == Spec => KeepsParts
<1>1. Init => Graph!Init /\ Runs!Init
  BY PipelineInit
<1>2. PipelineInv /\ [Next]_vars => [Graph!Next]_(Graph!vars) /\ [Runs!Next]_(Runs!vars)
  BY PipelineStep
<1> QED
  BY <1>1, <1>2, PipelineHolds, PTL DEF Spec, KeepsParts, Graph!Spec, Runs!Spec

\* Every promoted revision stands for a run that ended well on exactly that revision.
THEOREM PromotedRunsAreComplete == Spec => []PromotedOnCompleteRun
<1>1. ASSUME PipelineInv, NEW p \in promotions
      PROVE  \E r \in RunIds :
                 /\ jobs[r].validation = p.validation
                 /\ jobs[r].status = "succeeded"
                 /\ Runs!Candidate(r) = p.promoted
                 /\ formal_runs[r].status = "succeeded"
                 /\ formal_runs[r].result.bars = TotalBars
                 /\ Runs!Policy(r) = "m5" => formal_runs[r].result.context = preparations[r]
  <2>1. PICK x \in ValidationIds : x = p.validation
    BY <1>1 DEF PipelineInv, GraphProofs!GraphInv, GraphProofs!PromotionsOK
  <2>2. SeenRows[x] = [candidate |-> p.promoted, outcome |-> "passed"]
    BY <1>1, <2>1 DEF PipelineInv, GraphProofs!GraphInv, GraphProofs!PromotionsOK, SeenRows
  <2>3. p.promoted \in RevisionIds
    BY <1>1 DEF PipelineInv, GraphProofs!GraphInv, GraphProofs!PromotionsOK
  <2>4. ValidationSeen(x) # None
    <3>1. [candidate |-> p.promoted, outcome |-> "passed"] \in GraphProofs!ValidationRows
      BY <2>3 DEF GraphProofs!ValidationRows
    <3> QED
      BY <2>2, <3>1, GraphConstants DEF SeenRows
  <2>5. merge_validations[x] # None
    BY <2>4 DEF ValidationSeen
  <2>6. PICK r \in RunIds : r = merge_validations[x].run /\ jobs[r].status # None
    BY <1>1, <2>5, RunConstants, RunProofs!ToldRunsEnded DEF PipelineInv, RunsInv
  <2>7. Runs!Candidate(r) = p.promoted /\ merge_validations[x].outcome = "passed"
    BY <2>2, <2>5, <2>6 DEF SeenRows, ValidationSeen, Runs!Candidate
  <2>8. /\ jobs[r].validation = x
        /\ formal_runs[r].status \in {"succeeded", "failed", "cancelled"}
        /\ merge_validations[x].outcome = RunProofs!Verdict(formal_runs[r].status)
    BY <1>1, <2>5, <2>6 DEF PipelineInv, RunsInv, RunProofs!OutcomeInv, RunProofs!Terminal
  <2>9. formal_runs[r].status = "succeeded"
    BY <2>7, <2>8 DEF RunProofs!Verdict
  <2>10. jobs[r].status = "succeeded"
    BY <1>1, <2>6, <2>9, RunConstants
       DEF PipelineInv, RunsInv, RunProofs!VerdictInv, RunProofs!SettledTogether,
           RunProofs!Terminal
  <2>11. /\ formal_runs[r].result.bars = TotalBars
         /\ Runs!Policy(r) = "m5" => formal_runs[r].result.context = preparations[r]
    <3>1. RunProofs!TapeOK(r)
      BY <1>1, <2>6 DEF PipelineInv, RunsInv, RunProofs!TapeInv, RunProofs!RowsOK
    <3>2. RunProofs!Policy(r) = Runs!Policy(r)
      BY DEF RunProofs!Policy, Runs!Policy
    <3>3. /\ formal_runs[r].result.bars = TotalBars
          /\ Runs!Policy(r) = "m5" =>
                formal_runs[r].result = [context |-> preparations[r], bars |-> TotalBars]
      BY <2>9, <3>1, <3>2 DEF RunProofs!TapeOK
    <3> QED
      BY <3>3
  <2> QED
    BY <2>1, <2>6, <2>7, <2>8, <2>9, <2>10, <2>11
<1>2. PipelineInv => PromotedOnCompleteRun
  BY <1>1 DEF PromotedOnCompleteRun
<1> QED
  BY <1>2, PipelineHolds, PTL

\* The step formula of StaleStaysOut.
StaleStays ==
    \A c \in RevisionIds :
        candidates[c] # None /\ Outdated(c) =>
            /\ Outdated(c)'
            /\ project_head'.revision = c => project_head = project_head'

LEMMA StepKeepsStaleOut ==
    ASSUME PipelineInv, [Next]_vars
    PROVE  StaleStays
<1> SUFFICES ASSUME NEW c \in RevisionIds, candidates[c] # None, Outdated(c)
             PROVE  /\ Outdated(c)'
                    /\ project_head'.revision = c => project_head = project_head'
  BY DEF StaleStays
<1>0. /\ GraphProofs!GraphInv /\ CandidatesBehind
      /\ project_head # None /\ revisions[c] # None
  BY GraphTypes DEF PipelineInv, CandidatesBehind
<1>1. CASE UNCHANGED vars
  BY <1>1 DEF vars, graph, Outdated
<1>2. CASE RunCommandOrStep
  BY <1>2 DEF RunCommandOrStep, graph, Outdated
<1>3. CASE GraphCommand
  <2>1. Outdated(c)'
    BY <1>0, <1>3, GraphCommandKinds, OutdatedStays
  <2>2. ASSUME NEW r \in RevisionIds, NEW files, Graph!CreateRoot(r, files)
        PROVE  FALSE
    BY <1>0, <2>2 DEF Graph!CreateRoot, Graph!RootAllowed
  <2>3. ASSUME NEW d \in RevisionIds, NEW expected, NEW x, Graph!Promote(d, expected, x)
        PROVE  project_head'.revision = c => project_head = project_head'
    <3>1. project_head'.revision = d
      BY <2>3 DEF Graph!Promote, Graph!Moved, Graph!HeadAt
    <3>2. ~Outdated(d)
      BY <2>3 DEF Graph!Promote, Graph!ProjectHeadUnmoved, Graph!VariantHeadUnmoved, Outdated
    <3> QED
      BY <3>1, <3>2
  <2>4. \/ project_head' = project_head
        \/ \E r \in RevisionIds, files \in SUBSET Paths : Graph!CreateRoot(r, files)
        \/ \E d, expected \in RevisionIds, x \in ValidationIds : Graph!Promote(d, expected, x)
    BY <1>3 DEF GraphCommand, Graph!CommitCommand, Graph!CreateChild, Graph!CreateMerge,
                Graph!CrashBeforeCommit, Graph!CreateVariant
  <2> QED
    BY <2>1, <2>2, <2>3, <2>4
<1> QED
  BY <1>1, <1>2, <1>3 DEF Next

\* A candidate whose parents have moved is out for good: no retry, no passed validation
\* and no order of commands makes it a head.
THEOREM StaleCandidatesStayOut == Spec => StaleStaysOut
<1>1. PipelineInv /\ [Next]_vars => [StaleStays]_vars
  BY StepKeepsStaleOut
<1>2. Spec => [][StaleStays]_vars
  BY <1>1, PipelineHolds, PTL DEF Spec
<1> QED
  BY <1>2 DEF StaleStaysOut, StaleStays
=============================================================================
