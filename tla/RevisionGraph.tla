----------------------------- MODULE RevisionGraph -----------------------------
(***************************************************************************)
(* Workspace revisions, strategy variants, merge candidates and the        *)
(* promotion of a candidate to the head of one project:                    *)
(* services/quant-domain/src/quant_domain/domain.py:1745-2574 and          *)
(* git_workspace.py.                                                       *)
(*                                                                         *)
(* A command runs in one database transaction that holds the write lock    *)
(* from its first statement, so commands do not interleave, and one that   *)
(* is refused changes nothing: it is an action that is not enabled.  What  *)
(* a transaction does not cover is the Git reference that keeps a revision *)
(* from being collected: it is written just before COMMIT.                 *)
(***************************************************************************)
EXTENDS Naturals, Sequences, FiniteSets

CONSTANTS
    RevisionIds,         \* revision_id values clients may use
    VariantIds,          \* variant_id values clients may use
    ValidationIds,       \* validation_id values
    Paths,               \* file paths of a workspace
    MaxFiles,            \* files in a revision (32)
    MaxProjectVariants,  \* MAX_PROJECT_VARIANTS (64)
    MaxCrashes,          \* bound: crashes between the Git reference and COMMIT
    None                 \* SQL NULL, a row that does not exist

ASSUME FileBound == MaxFiles \in Nat
ASSUME VariantBound == MaxProjectVariants \in Nat
ASSUME CrashBound == MaxCrashes \in Nat

\* The rows of the tables, and NULL for a row that is not there.
Maybe(S) == S \cup {None}

Heads == [revision : RevisionIds, version : Nat]

RevisionRows ==
    [variant : Maybe(VariantIds), parents : Seq(RevisionIds), files : SUBSET Paths]

CandidateRows == [variant : VariantIds, project_parent : Heads, variant_parent : Heads]

ValidationRows == [candidate : RevisionIds, outcome : {"passed", "failed", "not_run"}]

ASSUME NoneIsNoRow ==
    /\ None \notin RevisionIds \cup VariantIds \cup ValidationIds
    /\ None \notin Heads /\ None \notin RevisionRows
    /\ None \notin CandidateRows /\ None \notin ValidationRows

VARIABLES
    revisions,          \* workspace_revisions and revision_files, with Git parents
    variants,           \* strategy_variants: the base a variant was forked from
    variant_heads,      \* strategy_variant_heads
    project_head,       \* project_revision_heads
    head_history,       \* project_revision_head_history in head_version order
    candidates,         \* workspace_merge_candidates
    merge_validations,  \* merge_validations
    promotions,         \* revision_promotions with their validations
    refs,               \* refs/oqs/revisions/* of the project's Git repository
    crashes             \* crashes so far

vars == <<revisions, variants, variant_heads, project_head, head_history, candidates,
          merge_validations, promotions, refs, crashes>>

Exists(r) == revisions[r] # None

HeadAt(r, version) == [revision |-> r, version |-> version]

\* Fault: a head moves without counting a version.
MovedUncounted(head, r) == HeadAt(r, head.version)

Moved(head, r) == HeadAt(r, head.version + 1)

Init ==
    /\ revisions = [r \in RevisionIds |-> None]
    /\ variants = [v \in VariantIds |-> None]
    /\ variant_heads = [v \in VariantIds |-> None]
    /\ project_head = None
    /\ head_history = <<>>
    /\ candidates = [r \in RevisionIds |-> None]
    /\ merge_validations = [x \in ValidationIds |-> None]
    /\ promotions = {}
    /\ refs = {}
    /\ crashes = 0

-----------------------------------------------------------------------------
(* The three commands that commit to Git: what their transaction demands *)

\* workspace.revision_create without a variant: the project has no head yet.
RootAllowed(r, files) ==
    /\ ~Exists(r)
    /\ project_head = None
    /\ files # {} /\ Cardinality(files) <= MaxFiles

\* Fault: any revision of the variant may be the base, not only its head.
OnHeadUnchecked(v, base) ==
    /\ variant_heads[v] # None
    /\ Exists(base)
    /\ variants[v] = base \/ revisions[base].variant = v

\* The command's base (and its expected revision, which must be the same) is the
\* variant's head.
OnHead(v, base) ==
    /\ variant_heads[v] # None
    /\ variant_heads[v].revision = base

ChildFiles(base, added, removed) == (revisions[base].files \ removed) \cup added

\* workspace.revision_create on a variant.
ChildAllowed(r, v, base, added, removed) ==
    /\ ~Exists(r)
    /\ OnHead(v, base)
    /\ removed \subseteq revisions[base].files
    /\ added # {}
    /\ Cardinality(ChildFiles(base, added, removed)) <= MaxFiles

\* Fault: a path that only the project head has is not asked for.
ParentPathsOfVariant(p, q) == revisions[q].files

\* The complete resolved parent tree.
ParentPaths(p, q) == revisions[p].files \cup revisions[q].files

\* workspace.merge_create: expected names the project head, base the variant's,
\* and the payload has exactly the paths of both.
MergeAllowed(c, v, expected, base) ==
    /\ ~Exists(c)
    /\ project_head # None /\ project_head.revision = expected
    /\ variant_heads[v] # None /\ variant_heads[v].revision = base
    /\ expected # base
    /\ Cardinality(ParentPaths(expected, base)) <= MaxFiles

\* Some command for this revision satisfies everything the database demands.
CommitAllowed(r) ==
    \/ \E files \in SUBSET Paths : RootAllowed(r, files)
    \/ \E v \in VariantIds, base \in RevisionIds, added, removed \in SUBSET Paths :
          ChildAllowed(r, v, base, added, removed)
    \/ \E v \in VariantIds, base, expected \in RevisionIds : MergeAllowed(r, v, expected, base)

-----------------------------------------------------------------------------
(* ... and what it does *)

\* Fault: the Git reference is left to be written later.
ProtectLater(r) == refs' = refs

\* protect_revision, the last step before COMMIT: update-ref with the zero object
\* id as the old value, which refuses a reference that exists.
Protect(r) == r \notin refs /\ refs' = refs \cup {r}

CreateRoot(r, files) ==
    /\ RootAllowed(r, files)
    /\ Protect(r)
    /\ revisions' = [revisions EXCEPT ![r] =
           [variant |-> None, parents |-> <<>>, files |-> files]]
    /\ project_head' = HeadAt(r, 0)
    /\ head_history' = Append(head_history, r)
    /\ UNCHANGED <<variants, variant_heads, candidates, merge_validations, promotions, crashes>>

CreateChild(r, v, base, added, removed) ==
    /\ ChildAllowed(r, v, base, added, removed)
    /\ Protect(r)
    /\ revisions' = [revisions EXCEPT ![r] =
           [variant |-> v, parents |-> <<base>>, files |-> ChildFiles(base, added, removed)]]
    /\ variant_heads' = [variant_heads EXCEPT ![v] = Moved(@, r)]
    /\ UNCHANGED <<variants, project_head, head_history, candidates, merge_validations,
                   promotions, crashes>>

\* Fault: the version of the variant's head is not recorded with the candidate.
CandidateRowUnversioned(v) ==
    [variant |-> v, project_parent |-> project_head,
     variant_parent |-> HeadAt(variant_heads[v].revision, 0)]

CandidateRow(v) ==
    [variant |-> v, project_parent |-> project_head, variant_parent |-> variant_heads[v]]

\* A candidate moves no head; it keeps both heads and their versions.
CreateMerge(c, v, expected, base) ==
    /\ MergeAllowed(c, v, expected, base)
    /\ Protect(c)
    /\ revisions' = [revisions EXCEPT ![c] =
           [variant |-> v, parents |-> <<expected, base>>,
            files |-> ParentPaths(expected, base)]]
    /\ candidates' = [candidates EXCEPT ![c] = CandidateRow(v)]
    /\ UNCHANGED <<variants, variant_heads, project_head, head_history, merge_validations,
                   promotions, crashes>>

\* The process dies after protect_revision and before COMMIT: the transaction
\* is rolled back by the database, the reference stays.  (When COMMIT itself
\* fails, release_revision takes the reference back and nothing has changed.)
CrashBeforeCommit(r) ==
    /\ crashes < MaxCrashes
    /\ CommitAllowed(r)
    /\ crashes' = crashes + 1
    /\ Protect(r)
    /\ UNCHANGED <<revisions, variants, variant_heads, project_head, head_history, candidates,
                   merge_validations, promotions>>

-----------------------------------------------------------------------------
(* Variants, validations, promotion *)

VariantCount == Cardinality({v \in VariantIds : variants[v] # None})

\* Fault: the limit is compared one too late.
VariantRoomOffByOne == VariantCount <= MaxProjectVariants

VariantRoom == VariantCount < MaxProjectVariants

\* strategy.variant_create: fork from any revision of the project, candidates
\* that were never promoted included.
CreateVariant(v, base) ==
    /\ variants[v] = None
    /\ Exists(base)
    /\ VariantRoom
    /\ variants' = [variants EXCEPT ![v] = base]
    /\ variant_heads' = [variant_heads EXCEPT ![v] = HeadAt(base, 0)]
    /\ UNCHANGED <<revisions, project_head, head_history, candidates, merge_validations,
                   promotions, refs, crashes>>

\* A formal run of the candidate ends: _finish_formal_job or _cancel_formal_run.
Validate(x, c, outcome) ==
    /\ candidates[c] # None
    /\ merge_validations[x] = None
    /\ merge_validations' = [merge_validations EXCEPT ![x] =
           [candidate |-> c, outcome |-> outcome]]
    /\ UNCHANGED <<revisions, variants, variant_heads, project_head, head_history, candidates,
                   promotions, refs, crashes>>

\* Fault: any validation of the candidate will do.
PassedUnchecked(x, c) ==
    merge_validations[x] # None /\ merge_validations[x].candidate = c

\* A passed validation of exactly this candidate.
Passed(x, c) == merge_validations[x] = [candidate |-> c, outcome |-> "passed"]

\* Fault: the project head is compared with nothing.
ProjectHeadUnchecked(c) == TRUE

\* The candidate was built on the project's head, at this version of it.
ProjectHeadUnmoved(c) == project_head = candidates[c].project_parent

\* The same for the head of the candidate's variant.
VariantHeadUnmoved(c) ==
    variant_heads[candidates[c].variant] = candidates[c].variant_parent

WasHead(r) == \E i \in DOMAIN head_history : head_history[i] = r

\* Unique index over revision_promotion_validations(validation_id).
Unspent(x) == \A p \in promotions : p.validation # x

\* workspace.revision_promote: both heads move to the candidate.
Promote(c, expected, x) ==
    LET v == candidates[c].variant IN
    /\ candidates[c] # None
    /\ c # expected
    /\ Passed(x, c)
    /\ candidates[c].project_parent.revision = expected
    /\ ProjectHeadUnmoved(c)
    /\ VariantHeadUnmoved(c)
    /\ ~WasHead(c)
    /\ Unspent(x)
    /\ project_head' = Moved(project_head, c)
    /\ variant_heads' = [variant_heads EXCEPT ![v] = Moved(@, c)]
    /\ head_history' = Append(head_history, c)
    /\ promotions' = promotions \cup
           {[previous |-> expected, promoted |-> c, variant |-> v, validation |-> x,
             version |-> project_head.version + 1]}
    /\ UNCHANGED <<revisions, variants, candidates, merge_validations, refs, crashes>>

-----------------------------------------------------------------------------
CommitCommand(r) ==
    \/ \E files \in SUBSET Paths : CreateRoot(r, files)
    \/ \E v \in VariantIds, base \in RevisionIds, added, removed \in SUBSET Paths :
          CreateChild(r, v, base, added, removed)
    \/ \E v \in VariantIds, base, expected \in RevisionIds : CreateMerge(r, v, expected, base)

Next ==
    \E r \in RevisionIds :
        \/ CommitCommand(r)
        \/ CrashBeforeCommit(r)
        \/ \E v \in VariantIds : CreateVariant(v, r)
        \/ \E x \in ValidationIds :
              \/ \E outcome \in {"passed", "failed", "not_run"} : Validate(x, r, outcome)
              \/ \E expected \in RevisionIds : Promote(r, expected, x)

Spec == Init /\ [][Next]_vars

-----------------------------------------------------------------------------
(* Type invariant *)

\* Rows have the shapes the schema (migrations 004 and 005) gives them and stay
\* within the bounds of the workspace: 32 files, 64 variants.
TypeOK ==
    /\ revisions \in [RevisionIds -> Maybe(RevisionRows)]
    /\ \A r \in RevisionIds : Exists(r) => Cardinality(revisions[r].files) <= MaxFiles
    /\ variants \in [VariantIds -> Maybe(RevisionIds)]
    /\ VariantCount <= MaxProjectVariants
    /\ variant_heads \in [VariantIds -> Maybe(Heads)]
    /\ project_head \in Maybe(Heads)
    /\ head_history \in Seq(RevisionIds)
    /\ candidates \in [RevisionIds -> Maybe(CandidateRows)]
    /\ merge_validations \in [ValidationIds -> Maybe(ValidationRows)]
    /\ promotions \subseteq [previous : RevisionIds, promoted : RevisionIds, variant : VariantIds,
                             validation : ValidationIds, version : Nat]
    /\ refs \subseteq RevisionIds
    /\ crashes \in 0..MaxCrashes

-----------------------------------------------------------------------------
(* Safety *)

\* The head of the project is the last entry of its history, at the version of that
\* entry; every head after the root got there by one promotion of exactly that
\* candidate on a passed validation of its own, and no validation was used for two
\* (_promote_revision; test_m3_revisions.py:397).
PromotionsValidated ==
    /\ (project_head = None) <=> (head_history = <<>>)
    /\ project_head # None =>
          project_head = HeadAt(head_history[Len(head_history)], Len(head_history) - 1)
    /\ \A i \in DOMAIN head_history : i > 1 =>
          \E p \in promotions :
              /\ p.promoted = head_history[i]
              /\ p.previous = head_history[i - 1]
              /\ p.version = i - 1
    /\ \A p \in promotions :
          /\ WasHead(p.promoted)
          /\ merge_validations[p.validation] = [candidate |-> p.promoted, outcome |-> "passed"]
    /\ \A p, q \in promotions : p.promoted = q.promoted \/ p.validation = q.validation => p = q

\* Nothing committed to the database can be collected by Git: the row, its
\* parents and every revision a head, a variant or a candidate points to are
\* protected by a reference.
Protected ==
    /\ \A r \in RevisionIds : Exists(r) => r \in refs
    /\ \A r \in RevisionIds : Exists(r) =>
          \A i \in DOMAIN revisions[r].parents : revisions[r].parents[i] \in refs
    /\ \A v \in VariantIds : variants[v] # None =>
          variants[v] \in refs /\ variant_heads[v].revision \in refs

\* A merge has every path of the two revisions it merges: no file disappears
\* without a removal on the variant.
MergeComplete ==
    \A c \in RevisionIds : candidates[c] # None =>
        \A i \in 1..2 : revisions[revisions[c].parents[i]].files \subseteq revisions[c].files

HeadMovesToChild ==
    /\ \A v \in VariantIds : variant_heads[v] # None /\ variant_heads'[v] # variant_heads[v] =>
          /\ variant_heads'[v].version = variant_heads[v].version + 1
          /\ \E i \in DOMAIN revisions'[variant_heads'[v].revision].parents :
                revisions'[variant_heads'[v].revision].parents[i] = variant_heads[v].revision
    /\ project_head # None /\ project_head' # project_head =>
          \E c \in RevisionIds, v \in VariantIds :
              /\ project_head' = Moved(project_head, c)
              /\ variant_heads'[v] = Moved(variant_heads[v], c)

\* Whoever moves a head moves it to a revision built directly on it, and counts
\* one version: no two writers of a variant, and no writer and promotion, lose
\* each other's work.
HeadsMoveToChildren == [][HeadMovesToChild]_vars

-----------------------------------------------------------------------------
(* The promise of the main line *)

BuiltOn(r) == IF revisions[r].parents = <<>> THEN None ELSE revisions[r].parents[1]

MainLineLog == INSTANCE HeadLog WITH
    log <- [i \in DOMAIN head_history |->
               [revision |-> head_history[i], built_on |-> BuiltOn(head_history[i])]]

\* Variants, candidates, versions and validations add up to an append-only log in which
\* each head is built on the head it replaced: no promoted work is lost, and of two
\* candidates for one head one is promoted (docs/12_M3_FORMAL_RUN_EVIDENCE.md:46).
KeepsHeadLog == MainLineLog!Spec

-----------------------------------------------------------------------------
(* Claims of the documents *)

\* docs/04_COMMAND_EVENT_CONTRACTS.md:24: "`command_id` is the idempotency key.
\* The service persists state, an immutable domain event, and an outbox record in
\* one transaction."  So a command that was interrupted left nothing behind and
\* may be sent again: what its transaction demands is all that can refuse it.
InterruptedCommandsMayBeSentAgain ==
    \A r \in RevisionIds : CommitAllowed(r) => r \notin refs
=============================================================================
