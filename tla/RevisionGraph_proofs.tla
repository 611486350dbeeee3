------------------------- MODULE RevisionGraph_proofs -------------------------
(***************************************************************************)
(* Theorems about RevisionGraph, for any number of revisions, variants,    *)
(* validations, paths and crashes.                                         *)
(***************************************************************************)
EXTENDS RevisionGraph, FiniteSetTheorems, SequenceTheorems, TLAPS

-----------------------------------------------------------------------------
(* The inductive invariant: each table with what it says of the others *)

\* A revision is there with its reference and with its parents.
RevisionsOK ==
    /\ revisions \in [RevisionIds -> Maybe(RevisionRows)]
    /\ refs \subseteq RevisionIds
    /\ \A r \in RevisionIds : Exists(r) =>
          /\ Cardinality(revisions[r].files) <= MaxFiles
          /\ r \in refs
          /\ \A i \in DOMAIN revisions[r].parents : Exists(revisions[r].parents[i])

Forked == {v \in VariantIds : variants[v] # None}

\* A variant has a base and a head, and both are revisions; variants are finitely many,
\* so that counting them means something.
VariantsOK ==
    /\ variants \in [VariantIds -> Maybe(RevisionIds)]
    /\ variant_heads \in [VariantIds -> Maybe(Heads)]
    /\ IsFiniteSet(Forked)
    /\ VariantCount <= MaxProjectVariants
    /\ \A v \in VariantIds :
          /\ variants[v] # None <=> variant_heads[v] # None
          /\ variants[v] # None => Exists(variants[v]) /\ Exists(variant_heads[v].revision)

\* The head of the project is the last entry of its history, all of them revisions.
HistoryOK ==
    /\ project_head \in Maybe(Heads)
    /\ head_history \in Seq(RevisionIds)
    /\ (project_head = None) <=> (head_history = <<>>)
    /\ project_head # None =>
          project_head = HeadAt(head_history[Len(head_history)], Len(head_history) - 1)
    /\ \A i \in DOMAIN head_history : Exists(head_history[i])

\* A candidate merges the two heads it was recorded with.
CandidatesOK ==
    /\ candidates \in [RevisionIds -> Maybe(CandidateRows)]
    /\ \A c \in RevisionIds : candidates[c] # None =>
          LET p == candidates[c].project_parent.revision
              q == candidates[c].variant_parent.revision
          IN  /\ Exists(c) /\ Exists(p) /\ Exists(q)
              /\ revisions[c].parents = <<p, q>>
              /\ revisions[c].files = ParentPaths(p, q)

\* The last three parts of PromotionsValidated.
PromotionsOK ==
    /\ merge_validations \in [ValidationIds -> Maybe(ValidationRows)]
    /\ promotions \subseteq [previous : RevisionIds, promoted : RevisionIds, variant : VariantIds,
                             validation : ValidationIds, version : Nat]
    /\ \A i \in DOMAIN head_history : i > 1 =>
          \E p \in promotions :
              /\ p.promoted = head_history[i]
              /\ p.previous = head_history[i - 1]
              /\ p.version = i - 1
    /\ \A p \in promotions :
          /\ WasHead(p.promoted)
          /\ merge_validations[p.validation] = [candidate |-> p.promoted, outcome |-> "passed"]
    /\ \A p, q \in promotions : p.promoted = q.promoted \/ p.validation = q.validation => p = q

GraphInv ==
    /\ RevisionsOK
    /\ VariantsOK
    /\ HistoryOK
    /\ CandidatesOK
    /\ PromotionsOK
    /\ crashes \in 0..MaxCrashes

LEMMA GraphInit == Init => GraphInv
<1> SUFFICES ASSUME Init PROVE GraphInv
  OBVIOUS
<1>1. RevisionsOK
  BY DEF Init, RevisionsOK, Maybe, Exists
<1>2. VariantsOK
  <2>1. Forked = {}
    BY DEF Forked, Init
  <2>2. IsFiniteSet(Forked) /\ VariantCount = 0
    BY <2>1, FS_EmptySet DEF VariantCount, Forked
  <2> QED
    BY <2>2, VariantBound DEF Init, VariantsOK, Maybe
<1>3. HistoryOK
  BY DEF Init, HistoryOK, Maybe
<1>4. CandidatesOK
  BY DEF Init, CandidatesOK, Maybe
<1>5. PromotionsOK
  BY DEF Init, PromotionsOK, Maybe
<1> QED
  BY <1>1, <1>2, <1>3, <1>4, <1>5, CrashBound DEF Init, GraphInv

-----------------------------------------------------------------------------
(* Frames *)

\* Revisions are only ever added.
Grows ==
    \A r \in RevisionIds : Exists(r) => Exists(r)' /\ revisions'[r] = revisions[r]

\* What a step that adds revisions and nothing else to a table keeps of it.
LEMMA VariantsFrame ==
    ASSUME VariantsOK, Grows, UNCHANGED <<variants, variant_heads>>
    PROVE  VariantsOK'
<1>1. Forked' = Forked /\ VariantCount' = VariantCount
  BY DEF Forked, VariantCount
<1>2. \A v \in VariantIds : variants[v] # None =>
          variants[v] \in RevisionIds /\ variant_heads[v].revision \in RevisionIds
  BY DEF VariantsOK, Maybe, Heads
<1> QED
  BY <1>1, <1>2 DEF VariantsOK, Grows

LEMMA HistoryFrame ==
    ASSUME HistoryOK, Grows, UNCHANGED <<project_head, head_history>>
    PROVE  HistoryOK'
<1>1. \A i \in DOMAIN head_history : head_history[i] \in RevisionIds
  BY ElementOfSeq DEF HistoryOK
<1> QED
  BY <1>1 DEF HistoryOK, Grows

LEMMA CandidatesFrame ==
    ASSUME CandidatesOK, Grows, UNCHANGED candidates
    PROVE  CandidatesOK'
<1>1. \A c \in RevisionIds : candidates[c] # None =>
          /\ candidates[c].project_parent.revision \in RevisionIds
          /\ candidates[c].variant_parent.revision \in RevisionIds
  BY DEF CandidatesOK, CandidateRows, Maybe, Heads
<1> QED
  BY <1>1 DEF CandidatesOK, Grows, ParentPaths

LEMMA PromotionsFrame ==
    ASSUME PromotionsOK, UNCHANGED <<head_history, merge_validations, promotions>>
    PROVE  PromotionsOK'
BY DEF PromotionsOK, WasHead

LEMMA RevisionsFrame ==
    ASSUME RevisionsOK, UNCHANGED revisions, refs' \subseteq RevisionIds, refs \subseteq refs'
    PROVE  RevisionsOK' /\ Grows
BY DEF RevisionsOK, Exists, Grows

\* The row that a revision command writes.
LEMMA Written ==
    ASSUME RevisionsOK, NEW r \in RevisionIds, ~Exists(r), Protect(r), NEW row \in RevisionRows,
           revisions' = [revisions EXCEPT ![r] = row],
           Cardinality(row.files) <= MaxFiles,
           \A i \in DOMAIN row.parents : row.parents[i] \in RevisionIds /\ Exists(row.parents[i])
    PROVE  RevisionsOK' /\ Grows /\ Exists(r)' /\ revisions'[r] = row
<1>1. /\ revisions' \in [RevisionIds -> Maybe(RevisionRows)]
      /\ revisions'[r] = row /\ row # None
      /\ \A q \in RevisionIds : q # r => revisions'[q] = revisions[q]
  BY NoneIsNoRow DEF RevisionsOK, Maybe
<1>2. Exists(r)' /\ \A q \in RevisionIds : Exists(q) => Exists(q)' /\ revisions'[q] = revisions[q]
  BY <1>1 DEF Exists
<1>3. refs' \subseteq RevisionIds /\ refs' = refs \cup {r}
  BY DEF Protect, RevisionsOK
<1>4. ASSUME NEW q \in RevisionIds, revisions'[q] # None
      PROVE  /\ Cardinality(revisions'[q].files) <= MaxFiles
             /\ q \in refs'
             /\ \A i \in DOMAIN revisions'[q].parents :
                   revisions'[revisions'[q].parents[i]] # None
  <2>1. CASE q = r
    BY <1>1, <1>2, <1>3, <2>1 DEF Exists
  <2>2. CASE q # r
    <3>1. Exists(q) /\ revisions'[q] = revisions[q] /\ revisions[q] \in RevisionRows
      BY <1>1, <1>4, <2>2 DEF Exists, RevisionsOK, Maybe
    <3>2. \A i \in DOMAIN revisions[q].parents : revisions[q].parents[i] \in RevisionIds
      BY <3>1, ElementOfSeq DEF RevisionRows
    <3>3. \A i \in DOMAIN revisions[q].parents : Exists(revisions[q].parents[i])
      BY <3>1 DEF RevisionsOK
    <3> QED
      BY <1>2, <1>3, <3>1, <3>2, <3>3 DEF RevisionsOK, Exists
  <2> QED
    BY <2>1, <2>2
<1> QED
  BY <1>1, <1>2, <1>3, <1>4 DEF RevisionsOK, Grows, Exists

-----------------------------------------------------------------------------
(* Every step preserves it *)

\* The head of the project, and the last entry of its history.
LEMMA ProjectHead ==
    ASSUME HistoryOK, project_head # None
    PROVE  /\ project_head \in Heads /\ Exists(project_head.revision)
           /\ Len(head_history) \in Nat \ {0}
           /\ project_head.revision = head_history[Len(head_history)]
           /\ project_head.version = Len(head_history) - 1
<1>1. Len(head_history) \in Nat /\ DOMAIN head_history = 1..Len(head_history)
  BY LenProperties DEF HistoryOK
<1>2. Len(head_history) # 0
  BY EmptySeq DEF HistoryOK
<1> QED
  BY <1>1, <1>2 DEF HistoryOK, Maybe, HeadAt

\* The head of a variant.
LEMMA VariantHead ==
    ASSUME VariantsOK, NEW v \in VariantIds, variant_heads[v] # None
    PROVE  variant_heads[v] \in Heads /\ Exists(variant_heads[v].revision) /\ variants[v] # None
BY DEF VariantsOK, Maybe

\* A variant's head moves to a revision.
LEMMA VariantMoves ==
    ASSUME VariantsOK, Grows, NEW v \in VariantIds, variant_heads[v] # None,
           NEW r \in RevisionIds, Exists(r)', UNCHANGED variants,
           variant_heads' = [variant_heads EXCEPT ![v] = Moved(@, r)]
    PROVE  VariantsOK'
<1>1. Forked' = Forked /\ VariantCount' = VariantCount
  BY DEF Forked, VariantCount
<1>2. Moved(variant_heads[v], r) \in Heads /\ Moved(variant_heads[v], r).revision = r
  BY VariantHead DEF Heads, Moved, HeadAt
<1>3. /\ variant_heads' \in [VariantIds -> Maybe(Heads)]
      /\ variant_heads'[v] = Moved(variant_heads[v], r) /\ variant_heads'[v] # None
      /\ \A w \in VariantIds : w # v => variant_heads'[w] = variant_heads[w]
  BY <1>2, NoneIsNoRow DEF VariantsOK, Maybe
<1>4. \A w \in VariantIds : variants[w] # None =>
          variants[w] \in RevisionIds /\ variant_heads[w].revision \in RevisionIds
  BY DEF VariantsOK, Maybe, Heads
<1>5. ASSUME NEW w \in VariantIds
      PROVE  /\ variants[w] # None <=> variant_heads'[w] # None
             /\ variants[w] # None =>
                   revisions'[variants[w]] # None /\ revisions'[variant_heads'[w].revision] # None
  <2>1. /\ variants[w] # None <=> variant_heads'[w] # None
        /\ variants[w] # None => Exists(variants[w]) /\ Exists(variant_heads[w].revision)
    BY <1>3, VariantHead DEF VariantsOK
  <2>2. CASE w = v
    BY <2>1, <2>2, <1>2, <1>3, <1>4 DEF Grows, Exists
  <2>3. CASE w # v
    BY <2>1, <2>3, <1>3, <1>4 DEF Grows, Exists
  <2> QED
    BY <2>2, <2>3
<1> QED
  BY <1>1, <1>3, <1>5 DEF VariantsOK, Exists

LEMMA RootKeeps ==
    ASSUME GraphInv, NEW r \in RevisionIds, NEW files \in SUBSET Paths, CreateRoot(r, files)
    PROVE  GraphInv' /\ Grows
<1> DEFINE row == [variant |-> None, parents |-> <<>>, files |-> files]
<1>1. row \in RevisionRows
  BY DEF RevisionRows, Maybe
<1>2. RevisionsOK' /\ Grows /\ Exists(r)'
  <2> HIDE DEF row
  <2>1. row.parents = <<>> /\ row.files = files
    BY DEF row
  <2>2. Cardinality(row.files) <= MaxFiles /\ ~Exists(r) /\ Protect(r)
        /\ revisions' = [revisions EXCEPT ![r] = row]
    BY <2>1 DEF CreateRoot, RootAllowed, row
  <2>3. \A i \in DOMAIN row.parents : row.parents[i] \in RevisionIds /\ Exists(row.parents[i])
    BY <2>1
  <2> QED
    BY <1>1, <2>2, <2>3, Written DEF GraphInv
<1>3. VariantsOK' /\ CandidatesOK'
  BY <1>2, VariantsFrame, CandidatesFrame DEF GraphInv, CreateRoot
<1>4. head_history = <<>> /\ head_history' = <<r>> /\ project_head' = HeadAt(r, 0)
  BY DEF GraphInv, HistoryOK, CreateRoot, RootAllowed
<1>5. HistoryOK'
  <2>1. HeadAt(r, 0) \in Heads /\ HeadAt(r, 0) # None
    BY NoneIsNoRow DEF HeadAt, Heads
  <2> QED
    BY <1>2, <1>4, <2>1 DEF HistoryOK, Maybe, Exists
<1>6. PromotionsOK'
  <2>1. promotions = {}
    BY <1>4 DEF GraphInv, PromotionsOK, WasHead
  <2> QED
    BY <1>4, <2>1 DEF GraphInv, PromotionsOK, CreateRoot
<1> QED
  BY <1>2, <1>3, <1>5, <1>6 DEF GraphInv, CreateRoot

LEMMA ChildKeeps ==
    ASSUME GraphInv, NEW r \in RevisionIds, NEW v \in VariantIds, NEW base \in RevisionIds,
           NEW added \in SUBSET Paths, NEW removed \in SUBSET Paths,
           CreateChild(r, v, base, added, removed)
    PROVE  /\ GraphInv' /\ Grows
           /\ revisions'[r] # None /\ revisions'[r].parents = <<base>>
<1>1. variant_heads[v] # None /\ variant_heads[v].revision = base /\ Exists(base)
  BY VariantHead DEF CreateChild, ChildAllowed, OnHead, GraphInv
<1>2. PICK row : row = [variant |-> v, parents |-> <<base>>,
                        files |-> ChildFiles(base, added, removed)]
  OBVIOUS
<1>3. row \in RevisionRows /\ row.parents = <<base>>
  <2>1. revisions[base].files \subseteq Paths
    BY <1>1 DEF GraphInv, RevisionsOK, Exists, Maybe, RevisionRows
  <2> QED
    BY <1>2, <2>1 DEF RevisionRows, Maybe, ChildFiles
<1>4. RevisionsOK' /\ Grows /\ Exists(r)' /\ revisions'[r] = row
  <2>1. Cardinality(row.files) <= MaxFiles /\ ~Exists(r) /\ Protect(r)
        /\ revisions' = [revisions EXCEPT ![r] = row]
    BY <1>2 DEF CreateChild, ChildAllowed
  <2>2. \A i \in DOMAIN row.parents : row.parents[i] \in RevisionIds /\ Exists(row.parents[i])
    BY <1>1, <1>3
  <2> QED
    BY <1>3, <2>1, <2>2, Written DEF GraphInv
<1>5. VariantsOK'
  BY <1>1, <1>4, VariantMoves DEF GraphInv, CreateChild
<1>6. HistoryOK' /\ CandidatesOK' /\ PromotionsOK'
  BY <1>4, HistoryFrame, CandidatesFrame, PromotionsFrame DEF GraphInv, CreateChild
<1> QED
  BY <1>3, <1>4, <1>5, <1>6 DEF GraphInv, CreateChild, Exists

LEMMA MergeKeeps ==
    ASSUME GraphInv, NEW c \in RevisionIds, NEW v \in VariantIds, NEW expected \in RevisionIds,
           NEW base \in RevisionIds, CreateMerge(c, v, expected, base)
    PROVE  GraphInv' /\ Grows
<1>1. /\ variant_heads[v] \in Heads /\ variant_heads[v].revision = base /\ Exists(base)
      /\ project_head \in Heads /\ project_head.revision = expected /\ Exists(expected)
  BY VariantHead, ProjectHead DEF CreateMerge, MergeAllowed, GraphInv
<1>2. PICK row : row = [variant |-> v, parents |-> <<expected, base>>,
                        files |-> ParentPaths(expected, base)]
  OBVIOUS
<1>3. row \in RevisionRows /\ row.parents = <<expected, base>>
  <2>1. revisions[base].files \subseteq Paths /\ revisions[expected].files \subseteq Paths
    BY <1>1 DEF GraphInv, RevisionsOK, Exists, Maybe, RevisionRows
  <2> QED
    BY <1>2, <2>1 DEF RevisionRows, Maybe, ParentPaths
<1>4. RevisionsOK' /\ Grows /\ Exists(c)' /\ revisions'[c] = row /\ ~Exists(c)
  <2>1. Cardinality(row.files) <= MaxFiles /\ ~Exists(c) /\ Protect(c)
        /\ revisions' = [revisions EXCEPT ![c] = row]
    BY <1>2 DEF CreateMerge, MergeAllowed
  <2>2. \A i \in DOMAIN row.parents : row.parents[i] \in RevisionIds /\ Exists(row.parents[i])
    BY <1>1, <1>3
  <2> QED
    BY <1>3, <2>1, <2>2, Written DEF GraphInv
<1>5. VariantsOK' /\ HistoryOK' /\ PromotionsOK'
  BY <1>4, VariantsFrame, HistoryFrame, PromotionsFrame DEF GraphInv, CreateMerge
<1>6. CandidatesOK'
  <2>1. /\ CandidateRow(v) \in CandidateRows
        /\ CandidateRow(v).project_parent.revision = expected
        /\ CandidateRow(v).variant_parent.revision = base
    BY <1>1 DEF CandidateRow, CandidateRows
  <2>2. /\ candidates' \in [RevisionIds -> Maybe(CandidateRows)]
        /\ candidates'[c] = CandidateRow(v)
        /\ \A d \in RevisionIds : d # c => candidates'[d] = candidates[d]
    BY <2>1 DEF GraphInv, CandidatesOK, CreateMerge, Maybe
  <2>3. \A r \in RevisionIds : revisions[r] # None =>
            revisions'[r] # None /\ revisions'[r] = revisions[r]
    BY <1>4 DEF Grows, Exists
  <2>4. ASSUME NEW d \in RevisionIds, NEW w, w = candidates'[d], w # None
        PROVE  LET p == w.project_parent.revision
                   q == w.variant_parent.revision
               IN  /\ revisions'[d] # None /\ revisions'[p] # None /\ revisions'[q] # None
                   /\ revisions'[d].parents = <<p, q>>
                   /\ revisions'[d].files = revisions'[p].files \cup revisions'[q].files
    <3>1. CASE d = c
      BY <1>1, <1>2, <1>4, <2>1, <2>2, <2>3, <2>4, <3>1 DEF Exists, ParentPaths
    <3>2. CASE d # c
      <4>1. /\ w = candidates[d] /\ w.project_parent.revision \in RevisionIds
            /\ w.variant_parent.revision \in RevisionIds
        BY <2>2, <2>4, <3>2 DEF GraphInv, CandidatesOK, CandidateRows, Maybe, Heads
      <4> QED
        BY <2>3, <2>4, <4>1 DEF GraphInv, CandidatesOK, Exists, ParentPaths
    <3> QED
      BY <3>1, <3>2
  <2> QED
    BY <2>2, <2>4 DEF CandidatesOK, Exists, ParentPaths
<1> QED
  BY <1>4, <1>5, <1>6 DEF GraphInv, CreateMerge

LEMMA CrashKeeps ==
    ASSUME GraphInv, NEW r \in RevisionIds, CrashBeforeCommit(r)
    PROVE  GraphInv' /\ Grows
<1>1. RevisionsOK' /\ Grows
  BY RevisionsFrame DEF GraphInv, CrashBeforeCommit, Protect, RevisionsOK
<1>2. VariantsOK' /\ HistoryOK' /\ CandidatesOK' /\ PromotionsOK'
  BY <1>1, VariantsFrame, HistoryFrame, CandidatesFrame, PromotionsFrame
     DEF GraphInv, CrashBeforeCommit
<1> QED
  BY <1>1, <1>2, CrashBound DEF GraphInv, CrashBeforeCommit

LEMMA VariantKeeps ==
    ASSUME GraphInv, NEW v \in VariantIds, NEW base \in RevisionIds, CreateVariant(v, base)
    PROVE  GraphInv' /\ Grows
<1>1. RevisionsOK' /\ Grows
  BY RevisionsFrame DEF GraphInv, CreateVariant, RevisionsOK
<1>2. HistoryOK' /\ CandidatesOK' /\ PromotionsOK'
  BY <1>1, HistoryFrame, CandidatesFrame, PromotionsFrame DEF GraphInv, CreateVariant
<1>3. /\ variants' \in [VariantIds -> Maybe(RevisionIds)]
      /\ variants'[v] = base
      /\ \A w \in VariantIds : w # v => variants'[w] = variants[w]
  BY DEF GraphInv, VariantsOK, CreateVariant, Maybe
<1>4. HeadAt(base, 0) \in Heads /\ HeadAt(base, 0).revision = base /\ HeadAt(base, 0) # None
  BY NoneIsNoRow DEF HeadAt, Heads
<1>5. /\ variant_heads' \in [VariantIds -> Maybe(Heads)]
      /\ variant_heads'[v] = HeadAt(base, 0)
      /\ \A w \in VariantIds : w # v => variant_heads'[w] = variant_heads[w]
  BY <1>4 DEF GraphInv, VariantsOK, CreateVariant, Maybe
<1>6. Forked' = Forked \cup {v} /\ v \notin Forked
  BY <1>3, NoneIsNoRow DEF Forked, CreateVariant
<1>7. IsFiniteSet(Forked') /\ VariantCount' <= MaxProjectVariants
  <2>1. IsFiniteSet(Forked) /\ Cardinality(Forked) < MaxProjectVariants
    BY DEF GraphInv, VariantsOK, CreateVariant, VariantRoom, VariantCount, Forked
  <2>2. Cardinality(Forked) \in Nat
    BY <2>1, FS_CardinalityType
  <2>3. IsFiniteSet(Forked \cup {v}) /\ Cardinality(Forked \cup {v}) = Cardinality(Forked) + 1
    BY <1>6, <2>1, FS_AddElement
  <2>4. VariantCount' = Cardinality(Forked')
    BY DEF VariantCount, Forked
  <2> QED
    BY <1>6, <2>1, <2>2, <2>3, <2>4, VariantBound
<1>8. ASSUME NEW w \in VariantIds
      PROVE  /\ variants'[w] # None <=> variant_heads'[w] # None
             /\ variants'[w] # None =>
                   revisions'[variants'[w]] # None /\ revisions'[variant_heads'[w].revision] # None
  <2>1. CASE w = v
    BY <2>1, <1>3, <1>4, <1>5, NoneIsNoRow DEF CreateVariant, Exists
  <2>2. CASE w # v
    BY <2>2, <1>3, <1>5 DEF GraphInv, VariantsOK, CreateVariant, Exists
  <2> QED
    BY <2>1, <2>2
<1>9. VariantsOK'
  BY <1>3, <1>5, <1>7, <1>8 DEF VariantsOK, Exists
<1> QED
  BY <1>1, <1>2, <1>9 DEF GraphInv, CreateVariant

LEMMA ValidateKeeps ==
    ASSUME GraphInv, NEW x \in ValidationIds, NEW c \in RevisionIds,
           NEW outcome \in {"passed", "failed", "not_run"}, Validate(x, c, outcome)
    PROVE  GraphInv' /\ Grows
<1>1. RevisionsOK' /\ Grows
  BY RevisionsFrame DEF GraphInv, Validate, RevisionsOK
<1>2. VariantsOK' /\ HistoryOK' /\ CandidatesOK'
  BY <1>1, VariantsFrame, HistoryFrame, CandidatesFrame DEF GraphInv, Validate
<1>3. /\ merge_validations' \in [ValidationIds -> Maybe(ValidationRows)]
      /\ \A y \in ValidationIds : y # x => merge_validations'[y] = merge_validations[y]
  BY DEF GraphInv, PromotionsOK, Validate, Maybe, ValidationRows
<1>4. \A p \in promotions : p.validation \in ValidationIds /\ p.validation # x
  <2> SUFFICES ASSUME NEW p \in promotions PROVE p.validation \in ValidationIds /\ p.validation # x
    OBVIOUS
  <2>1. /\ p.validation \in ValidationIds /\ p.promoted \in RevisionIds
        /\ merge_validations[p.validation] = [candidate |-> p.promoted, outcome |-> "passed"]
    BY DEF GraphInv, PromotionsOK
  <2>2. [candidate |-> p.promoted, outcome |-> "passed"] \in ValidationRows
    BY <2>1 DEF ValidationRows
  <2> QED
    BY <2>1, <2>2, NoneIsNoRow DEF Validate
<1>5. PromotionsOK'
  BY <1>3, <1>4 DEF GraphInv, PromotionsOK, Validate, WasHead
<1> QED
  BY <1>1, <1>2, <1>5 DEF GraphInv, Validate

LEMMA PromoteKeeps ==
    ASSUME GraphInv, NEW c \in RevisionIds, NEW expected \in RevisionIds,
           NEW x \in ValidationIds, Promote(c, expected, x)
    PROVE  GraphInv' /\ Grows
<1> DEFINE n == Len(head_history)
<1>1. PICK v : v = candidates[c].variant
  OBVIOUS
<1>2. /\ v \in VariantIds /\ Exists(c)
      /\ candidates[c] \in CandidateRows
  BY <1>1 DEF Promote, GraphInv, CandidatesOK, Maybe, CandidateRows
<1>3. RevisionsOK' /\ Grows /\ Exists(c)'
  BY <1>2, RevisionsFrame DEF GraphInv, Promote, RevisionsOK, Exists
<1>4. CandidatesOK'
  BY <1>3, CandidatesFrame DEF GraphInv, Promote
<1>5. VariantsOK'
  <2>1. variant_heads[v] # None
    BY <1>1, <1>2, NoneIsNoRow DEF Promote, VariantHeadUnmoved, CandidateRows
  <2> QED
    BY <1>1, <1>2, <1>3, <2>1, VariantMoves DEF GraphInv, Promote
<1>6. project_head # None /\ project_head.revision = expected
  BY <1>2, NoneIsNoRow DEF Promote, ProjectHeadUnmoved, CandidateRows
<1>7. /\ n \in Nat \ {0} /\ project_head.version = n - 1 /\ project_head \in Heads
      /\ head_history[n] = expected
  BY <1>6, ProjectHead DEF GraphInv
<1>8. /\ head_history' \in Seq(RevisionIds)
      /\ DOMAIN head_history = 1..n /\ DOMAIN head_history' = 1..(n + 1)
      /\ Len(head_history') = n + 1
      /\ head_history'[n + 1] = c
      /\ \A i \in 1..n : head_history'[i] = head_history[i]
  <2>1. head_history \in Seq(RevisionIds) /\ head_history' = Append(head_history, c)
    BY DEF GraphInv, HistoryOK, Promote
  <2> QED
    BY <2>1, AppendProperties, LenProperties
<1>9. HistoryOK'
  <2>1. project_head' = HeadAt(c, n) /\ HeadAt(c, n) \in Heads /\ HeadAt(c, n) # None
    BY <1>7, NoneIsNoRow DEF Promote, Moved, HeadAt, Heads
  <2>2. \A i \in 1..(n + 1) : revisions'[head_history'[i]] # None
    <3>1. \A i \in 1..n : head_history[i] \in RevisionIds /\ revisions[head_history[i]] # None
      BY <1>8, ElementOfSeq DEF GraphInv, HistoryOK, Exists
    <3>2. \A r \in RevisionIds : revisions[r] # None => revisions'[r] # None
      BY <1>3 DEF Grows, Exists
    <3> SUFFICES ASSUME NEW i \in 1..(n + 1) PROVE revisions'[head_history'[i]] # None
      OBVIOUS
    <3>3. CASE i = n + 1
      BY <1>3, <1>8, <3>3 DEF Exists
    <3>4. CASE i # n + 1
      BY <1>7, <1>8, <3>1, <3>2, <3>4
    <3> QED
      BY <3>3, <3>4
  <2>3. head_history' # <<>>
    BY <1>7, <1>8, EmptySeq
  <2>4. project_head' = HeadAt(head_history'[Len(head_history')], Len(head_history') - 1)
    BY <1>7, <1>8, <2>1
  <2> QED
    BY <1>8, <2>1, <2>2, <2>3, <2>4 DEF HistoryOK, Maybe, Exists
<1>10. PICK new : new = [previous |-> expected, promoted |-> c, variant |-> v,
                         validation |-> x, version |-> project_head.version + 1]
  OBVIOUS
<1>11. promotions' = promotions \cup {new} /\ new.version = n
  BY <1>1, <1>7, <1>10 DEF Promote
<1>12. PromotionsOK'
  <2>1. UNCHANGED merge_validations /\ promotions' \subseteq
            [previous : RevisionIds, promoted : RevisionIds, variant : VariantIds,
             validation : ValidationIds, version : Nat]
    BY <1>2, <1>7, <1>10, <1>11 DEF Promote, GraphInv, PromotionsOK
  <2>2. ASSUME NEW i \in 1..(n + 1), i > 1
        PROVE  \E p \in promotions' : /\ p.promoted = head_history'[i]
                                      /\ p.previous = head_history'[i - 1]
                                      /\ p.version = i - 1
    <3>1. CASE i = n + 1
      BY <1>7, <1>8, <1>10, <1>11, <3>1
    <3>2. CASE i # n + 1
      <4>1. i \in 1..n /\ i - 1 \in 1..n
        BY <1>7, <2>2, <3>2
      <4>2. \E p \in promotions : /\ p.promoted = head_history[i]
                                  /\ p.previous = head_history[i - 1]
                                  /\ p.version = i - 1
        BY <1>8, <2>2, <4>1 DEF GraphInv, PromotionsOK
      <4> QED
        BY <1>8, <1>11, <4>1, <4>2
    <3> QED
      BY <3>1, <3>2
  <2>3. \A p \in promotions : p.promoted # c /\ p.validation # x
    <3>1. \A p \in promotions : WasHead(p.promoted)
      BY DEF GraphInv, PromotionsOK
    <3> QED
      BY <3>1 DEF Promote, Unspent
  <2>4. ASSUME NEW p \in promotions'
        PROVE  /\ \E i \in 1..(n + 1) : head_history'[i] = p.promoted
               /\ merge_validations[p.validation] = [candidate |-> p.promoted,
                                                     outcome |-> "passed"]
    <3>1. CASE p = new
      BY <1>7, <1>8, <1>10, <3>1 DEF Promote, Passed
    <3>2. CASE p \in promotions
      <4>1. /\ \E i \in 1..n : head_history[i] = p.promoted
            /\ merge_validations[p.validation] = [candidate |-> p.promoted, outcome |-> "passed"]
        BY <1>8, <3>2 DEF GraphInv, PromotionsOK, WasHead
      <4> QED
        BY <1>7, <1>8, <4>1
    <3> QED
      BY <1>11, <3>1, <3>2
  <2>5. \A p, q \in promotions' : p.promoted = q.promoted \/ p.validation = q.validation => p = q
    <3>1. \A p, q \in promotions :
              p.promoted = q.promoted \/ p.validation = q.validation => p = q
      BY DEF GraphInv, PromotionsOK
    <3> QED
      BY <1>10, <1>11, <2>3, <3>1
  <2> QED
    BY <1>8, <2>1, <2>2, <2>4, <2>5 DEF GraphInv, PromotionsOK, WasHead
<1> QED
  BY <1>3, <1>4, <1>5, <1>9, <1>12 DEF GraphInv, Promote

LEMMA GraphNext == GraphInv /\ [Next]_vars => GraphInv' /\ Grows
<1> SUFFICES ASSUME GraphInv, [Next]_vars PROVE GraphInv' /\ Grows
  OBVIOUS
<1>1. CASE UNCHANGED vars
  <2>1. RevisionsOK' /\ Grows
    BY <1>1, RevisionsFrame DEF GraphInv, vars, RevisionsOK
  <2> QED
    BY <1>1, <2>1, VariantsFrame, HistoryFrame, CandidatesFrame, PromotionsFrame
       DEF GraphInv, vars
<1> QED
  BY <1>1, RootKeeps, ChildKeeps, MergeKeeps, CrashKeeps, VariantKeeps, ValidateKeeps,
     PromoteKeeps DEF Next, CommitCommand

LEMMA GraphHolds == Spec => []GraphInv
<1>1. GraphInv /\ [Next]_vars => GraphInv'
  BY GraphNext
<1> QED
  BY GraphInit, <1>1, PTL DEF Spec

-----------------------------------------------------------------------------
(* The invariants *)

\* Rows keep the shapes of the schema, and no command takes a workspace past its limits
\* of files and variants.
THEOREM GraphTypeOK == Spec => []TypeOK
<1>1. GraphInv => TypeOK
  BY DEF GraphInv, RevisionsOK, VariantsOK, HistoryOK, CandidatesOK, PromotionsOK, TypeOK
<1> QED
  BY <1>1, GraphHolds, PTL

\* Whenever a process dies between the Git reference and COMMIT, every revision the
\* database holds or points to is protected from collection.
THEOREM CommittedIsProtected == Spec => []Protected
<1>1. GraphInv => Protected
  <2> SUFFICES ASSUME GraphInv PROVE Protected
    OBVIOUS
  <2>1. \A r \in RevisionIds : Exists(r) =>
            r \in refs /\ \A i \in DOMAIN revisions[r].parents : Exists(revisions[r].parents[i])
    BY DEF GraphInv, RevisionsOK
  <2>2. \A r \in RevisionIds : Exists(r) =>
            \A i \in DOMAIN revisions[r].parents : revisions[r].parents[i] \in RevisionIds
    <3> SUFFICES ASSUME NEW r \in RevisionIds, Exists(r)
                 PROVE  \A i \in DOMAIN revisions[r].parents :
                            revisions[r].parents[i] \in RevisionIds
      OBVIOUS
    <3>1. revisions[r].parents \in Seq(RevisionIds)
      BY DEF GraphInv, RevisionsOK, Exists, Maybe, RevisionRows
    <3> QED
      BY <3>1, ElementOfSeq
  <2>3. \A v \in VariantIds : variants[v] # None =>
            /\ variants[v] \in RevisionIds /\ Exists(variants[v])
            /\ variant_heads[v].revision \in RevisionIds /\ Exists(variant_heads[v].revision)
    BY DEF GraphInv, VariantsOK, Maybe, Heads
  <2> QED
    BY <2>1, <2>2, <2>3 DEF Protected
<1> QED
  BY <1>1, GraphHolds, PTL

\* However long a candidate lies while heads move on, it still has every path of the two
\* revisions it merges.
THEOREM MergesAreComplete == Spec => []MergeComplete
<1>1. GraphInv => MergeComplete
  BY DEF GraphInv, CandidatesOK, MergeComplete, ParentPaths
<1> QED
  BY <1>1, GraphHolds, PTL

\* The main line is the history of its promotions, each on a passed validation of its own.
THEOREM PromotionsAreValidated == Spec => []PromotionsValidated
<1>1. GraphInv => PromotionsValidated
  BY DEF GraphInv, HistoryOK, PromotionsOK, PromotionsValidated
<1> QED
  BY <1>1, GraphHolds, PTL

-----------------------------------------------------------------------------
(* No work is lost *)

LEMMA StepMovesToChild == GraphInv /\ [Next]_vars => HeadMovesToChild
<1> SUFFICES ASSUME GraphInv, [Next]_vars PROVE HeadMovesToChild
  OBVIOUS
<1>1. ASSUME NEW r \in RevisionIds, NEW files \in SUBSET Paths, CreateRoot(r, files)
      PROVE  HeadMovesToChild
  BY <1>1 DEF CreateRoot, RootAllowed, HeadMovesToChild
<1>2. ASSUME NEW r \in RevisionIds, NEW v \in VariantIds, NEW base \in RevisionIds,
             NEW added \in SUBSET Paths, NEW removed \in SUBSET Paths,
             CreateChild(r, v, base, added, removed)
      PROVE  HeadMovesToChild
  <2>1. revisions'[r].parents = <<base>>
    BY <1>2, ChildKeeps
  <2>2. UNCHANGED project_head /\ variant_heads[v].revision = base
        /\ variant_heads' = [variant_heads EXCEPT ![v] = Moved(@, r)]
    BY <1>2 DEF CreateChild, ChildAllowed, OnHead
  <2>3. /\ \A w \in VariantIds : w # v => variant_heads'[w] = variant_heads[w]
        /\ variant_heads'[v].revision = r
        /\ variant_heads'[v].version = variant_heads[v].version + 1
    BY <2>2 DEF GraphInv, VariantsOK, Moved, HeadAt
  <2>4. \E i \in DOMAIN revisions'[r].parents : revisions'[r].parents[i] = base
    BY <2>1
  <2> QED
    BY <2>2, <2>3, <2>4 DEF HeadMovesToChild
<1>3. ASSUME NEW c \in RevisionIds, NEW v \in VariantIds, NEW expected \in RevisionIds,
             NEW base \in RevisionIds, CreateMerge(c, v, expected, base)
      PROVE  HeadMovesToChild
  BY <1>3 DEF CreateMerge, HeadMovesToChild
<1>4. ASSUME NEW r \in RevisionIds, CrashBeforeCommit(r) PROVE HeadMovesToChild
  BY <1>4 DEF CrashBeforeCommit, HeadMovesToChild
<1>5. ASSUME NEW v \in VariantIds, NEW r \in RevisionIds, CreateVariant(v, r)
      PROVE  HeadMovesToChild
  <2>1. variant_heads[v] = None
    BY <1>5 DEF GraphInv, VariantsOK, CreateVariant
  <2> QED
    BY <1>5, <2>1 DEF GraphInv, VariantsOK, CreateVariant, HeadMovesToChild
<1>6. ASSUME NEW x \in ValidationIds, NEW r \in RevisionIds,
             NEW outcome \in {"passed", "failed", "not_run"}, Validate(x, r, outcome)
      PROVE  HeadMovesToChild
  BY <1>6 DEF Validate, HeadMovesToChild
<1>7. ASSUME NEW c \in RevisionIds, NEW expected \in RevisionIds, NEW x \in ValidationIds,
             Promote(c, expected, x)
      PROVE  HeadMovesToChild
  <2>1. PICK v : v = candidates[c].variant
    OBVIOUS
  <2>2. /\ v \in VariantIds
        /\ variant_heads[v] = candidates[c].variant_parent
        /\ revisions[c].parents = <<candidates[c].project_parent.revision,
                                    candidates[c].variant_parent.revision>>
    BY <1>7, <2>1 DEF Promote, VariantHeadUnmoved, GraphInv, CandidatesOK, Maybe, CandidateRows
  <2>3. /\ variant_heads' = [variant_heads EXCEPT ![v] = Moved(@, c)]
        /\ project_head' = Moved(project_head, c) /\ UNCHANGED revisions
    BY <1>7, <2>1 DEF Promote
  <2>4. /\ \A w \in VariantIds : w # v => variant_heads'[w] = variant_heads[w]
        /\ variant_heads'[v] = Moved(variant_heads[v], c)
        /\ variant_heads'[v].revision = c
        /\ variant_heads'[v].version = variant_heads[v].version + 1
    BY <2>2, <2>3 DEF GraphInv, VariantsOK, Moved, HeadAt
  <2>5. \E i \in DOMAIN revisions'[c].parents :
            revisions'[c].parents[i] = variant_heads[v].revision
    <3>1. revisions'[c].parents[2] = variant_heads[v].revision
          /\ 2 \in DOMAIN revisions'[c].parents
      BY <2>2, <2>3
    <3> QED
      BY <3>1
  <2> QED
    BY <2>2, <2>3, <2>4, <2>5 DEF HeadMovesToChild
<1>8. CASE UNCHANGED vars
  BY <1>8 DEF vars, HeadMovesToChild
<1> QED
  BY <1>1, <1>2, <1>3, <1>4, <1>5, <1>6, <1>7, <1>8 DEF Next, CommitCommand

\* Of two writers of a variant, or a writer and a promotion, neither overwrites the head
\* the other has just written.
THEOREM NoWorkIsLost == Spec => HeadsMoveToChildren
<1>1. GraphInv /\ [Next]_vars => [HeadMovesToChild]_vars
  BY StepMovesToChild
<1> QED
  BY <1>1, GraphHolds, PTL DEF Spec, HeadsMoveToChildren

-----------------------------------------------------------------------------
(* The main line implements its abstract log *)

\* The refinement mapping of MainLineLog.
MainLine ==
    [i \in DOMAIN head_history |->
        [revision |-> head_history[i], built_on |-> BuiltOn(head_history[i])]]

Entries == [revision : RevisionIds, built_on : Maybe(RevisionIds)]

LEMMA MainLineType ==
    GraphInv => MainLine \in Seq(Entries) /\ Len(MainLine) = Len(head_history)
<1> SUFFICES ASSUME GraphInv
             PROVE  MainLine \in Seq(Entries) /\ Len(MainLine) = Len(head_history)
  OBVIOUS
<1>1. head_history \in Seq(RevisionIds) /\ Len(head_history) \in Nat
      /\ DOMAIN head_history = 1..Len(head_history)
  BY LenProperties DEF GraphInv, HistoryOK
<1>2. \A i \in DOMAIN head_history : head_history[i] \in RevisionIds /\ Exists(head_history[i])
  BY <1>1, ElementOfSeq DEF GraphInv, HistoryOK
<1>3. \A r \in RevisionIds : Exists(r) => BuiltOn(r) \in Maybe(RevisionIds)
  <2> SUFFICES ASSUME NEW r \in RevisionIds, Exists(r) PROVE BuiltOn(r) \in Maybe(RevisionIds)
    OBVIOUS
  <2>1. revisions[r].parents \in Seq(RevisionIds)
    BY DEF GraphInv, RevisionsOK, Exists, Maybe, RevisionRows
  <2>2. revisions[r].parents # <<>> => revisions[r].parents[1] \in RevisionIds
    BY <2>1, EmptySeq, LenProperties, ElementOfSeq
  <2> QED
    BY <2>2 DEF BuiltOn, Maybe
<1>4. MainLine \in [1..Len(head_history) -> Entries]
  BY <1>1, <1>2, <1>3 DEF MainLine, Entries
<1>5. MainLine \in Seq(Entries)
  BY <1>1, <1>4, SeqDef
<1> QED
  BY <1>1, <1>5, LenProperties DEF MainLine

\* A step that adds no head to the history is a step that the log does not see.
LEMMA MainLineFrame ==
    ASSUME GraphInv, Grows, UNCHANGED head_history
    PROVE  MainLine' = MainLine
<1>1. \A i \in DOMAIN head_history : head_history[i] \in RevisionIds /\ Exists(head_history[i])
  BY ElementOfSeq DEF GraphInv, HistoryOK
<1> QED
  BY <1>1 DEF Grows, MainLine, BuiltOn

\* A step that adds one is an entry at the end of the log.
LEMMA MainLineGrows ==
    ASSUME GraphInv, GraphInv', Grows, NEW c \in RevisionIds,
           head_history' = Append(head_history, c), ~WasHead(c),
           NEW b, b = MainLineLog!Tip, BuiltOn(c)' = b
    PROVE  MainLineLog!Advance(c)
<1> DEFINE n == Len(head_history)
           e == [revision |-> c, built_on |-> b]
<1>1. /\ head_history \in Seq(RevisionIds) /\ n \in Nat
      /\ DOMAIN head_history = 1..n /\ DOMAIN head_history' = 1..(n + 1)
      /\ Len(head_history') = n + 1
      /\ head_history'[n + 1] = c
      /\ \A i \in 1..n : head_history'[i] = head_history[i]
  <2>1. head_history \in Seq(RevisionIds)
    BY DEF GraphInv, HistoryOK
  <2> QED
    BY <2>1, AppendProperties, LenProperties
<1>2. MainLine \in Seq(Entries) /\ Len(MainLine) = n
  BY MainLineType
<1>3. MainLine' \in Seq(Entries) /\ Len(MainLine') = n + 1
  <2>1. (MainLine \in Seq(Entries) /\ Len(MainLine) = Len(head_history))'
    BY MainLineType, PTL
  <2> QED
    BY <1>1, <2>1 DEF Entries
<1>4. \A i \in 1..n : MainLine'[i] = MainLine[i]
  <2>1. \A i \in DOMAIN head_history : head_history[i] \in RevisionIds /\ Exists(head_history[i])
    BY ElementOfSeq DEF GraphInv, HistoryOK
  <2> QED
    BY <1>1, <2>1 DEF Grows, MainLine, BuiltOn
<1>5. MainLine'[n + 1] = e
  BY <1>1 DEF MainLine, BuiltOn
<1>6. MainLine' = Append(MainLine, e)
  <2>1. e \in Entries
    BY <1>1, <1>3, <1>5, ElementOfSeq
  <2>2. /\ Append(MainLine, e) \in Seq(Entries) /\ Len(Append(MainLine, e)) = n + 1
        /\ \A i \in 1..n : Append(MainLine, e)[i] = MainLine[i]
        /\ Append(MainLine, e)[n + 1] = e
    BY <1>2, <2>1, AppendProperties
  <2>3. \A i \in 1..(n + 1) : MainLine'[i] = Append(MainLine, e)[i]
    BY <1>1, <1>4, <1>5, <2>2
  <2> QED
    BY <1>3, <2>2, <2>3, SeqEqual
<1>7. ~MainLineLog!Logged(c)
  BY DEF MainLineLog!Logged, WasHead
<1> QED
  BY <1>6, <1>7 DEF MainLineLog!Advance, MainLine

\* The tip of the log is the head of the project.
LEMMA TipIsHead ==
    ASSUME GraphInv
    PROVE  /\ project_head = None => MainLineLog!Tip = None
           /\ project_head # None => MainLineLog!Tip = project_head.revision
<1>1. Len(MainLine) = Len(head_history) /\ MainLine \in Seq(Entries)
  BY MainLineType
<1>2. CASE project_head = None
  <2>1. Len(head_history) = 0
    BY <1>2, EmptySeq DEF GraphInv, HistoryOK
  <2>2. MainLine = <<>>
    BY <1>1, <2>1, EmptySeq
  <2> QED
    BY <1>2, <2>2 DEF MainLineLog!Tip, MainLine
<1>3. CASE project_head # None
  <2>1. /\ Len(head_history) \in Nat \ {0}
        /\ project_head.revision = head_history[Len(head_history)]
    BY <1>3, ProjectHead DEF GraphInv
  <2>2. MainLine # <<>>
    BY <1>1, <2>1, EmptySeq
  <2>3. DOMAIN head_history = 1..Len(head_history)
    BY LenProperties DEF GraphInv, HistoryOK
  <2>4. MainLine[Len(MainLine)].revision = head_history[Len(head_history)]
    BY <1>1, <2>1, <2>3 DEF MainLine
  <2> QED
    BY <1>3, <2>1, <2>2, <2>4 DEF MainLineLog!Tip, MainLine
<1> QED
  BY <1>2, <1>3

LEMMA MainLineStep == GraphInv /\ GraphInv' /\ [Next]_vars => [MainLineLog!Next]_MainLine
<1> SUFFICES ASSUME GraphInv, GraphInv', [Next]_vars
             PROVE  MainLineLog!Next \/ UNCHANGED MainLine
  OBVIOUS
<1>1. Grows
  BY GraphNext
<1>2. ASSUME NEW r \in RevisionIds, NEW files \in SUBSET Paths, CreateRoot(r, files)
      PROVE  MainLineLog!Next
  <2>1. project_head = None /\ head_history = <<>>
    BY <1>2 DEF CreateRoot, RootAllowed, GraphInv, HistoryOK
  <2>2. MainLineLog!Tip = None
    BY <2>1, TipIsHead
  <2>3. BuiltOn(r)' = None
    BY <1>2 DEF CreateRoot, BuiltOn, GraphInv, RevisionsOK
  <2>4. MainLineLog!Advance(r)
    BY <1>1, <1>2, <2>1, <2>2, <2>3, MainLineGrows DEF CreateRoot, WasHead
  <2> QED
    BY <2>4 DEF MainLineLog!Next
<1>3. ASSUME NEW c \in RevisionIds, NEW expected \in RevisionIds, NEW x \in ValidationIds,
             Promote(c, expected, x)
      PROVE  MainLineLog!Next
  <2>1. project_head # None /\ project_head.revision = expected
    BY <1>3, NoneIsNoRow
       DEF Promote, ProjectHeadUnmoved, GraphInv, CandidatesOK, CandidateRows, Maybe
  <2>2. MainLineLog!Tip = expected
    BY <2>1, TipIsHead
  <2>3. BuiltOn(c)' = expected
    <3>1. revisions[c].parents = <<expected, candidates[c].variant_parent.revision>>
      BY <1>3 DEF Promote, GraphInv, CandidatesOK
    <3> QED
      BY <1>3, <3>1 DEF Promote, BuiltOn
  <2>4. MainLineLog!Advance(c)
    BY <1>1, <1>3, <2>2, <2>3, MainLineGrows DEF Promote
  <2> QED
    BY <2>4 DEF MainLineLog!Next
<1>4. ASSUME UNCHANGED head_history PROVE UNCHANGED MainLine
  BY <1>1, <1>4, MainLineFrame
<1> QED
  BY <1>2, <1>3, <1>4 DEF Next, CommitCommand, CreateChild, CreateMerge, CrashBeforeCommit,
     CreateVariant, Validate, vars

LEMMA MainLineStart == Init => MainLineLog!Init
BY DEF Init, MainLineLog!Init

\* Variants, candidates, versions, validations and crashes implement an append-only log:
\* each head is built on the head it replaced, and no revision is a head twice
\* (docs/12_M3_FORMAL_RUN_EVIDENCE.md:46).
THEOREM MainLineKeepsLog == Spec => KeepsHeadLog
<1>1. GraphInv /\ [Next]_vars => GraphInv'
  BY GraphNext
<1>2. GraphInv /\ GraphInv' /\ [Next]_vars
          => [MainLineLog!Next]_[i \in DOMAIN head_history |->
                 [revision |-> head_history[i], built_on |-> BuiltOn(head_history[i])]]
  BY MainLineStep DEF MainLine
<1> QED
  BY GraphInit, <1>1, MainLineStart, <1>2, PTL DEF Spec, KeepsHeadLog, MainLineLog!Spec
=============================================================================
