-------------------------------- MODULE HeadLog --------------------------------
(***************************************************************************)
(* What a project's main line promises: an append-only log of revisions in *)
(* which every revision occurs once and was built on the revision that it  *)
(* replaced.  There are no variants, candidates, versions or validations.  *)
(***************************************************************************)
EXTENDS Naturals, Sequences

CONSTANTS RevisionIds, None

VARIABLE log      \* sequence of [revision, built_on]

Init == log = <<>>

Logged(r) == \E i \in DOMAIN log : log[i].revision = r

Tip == IF log = <<>> THEN None ELSE log[Len(log)].revision

Advance(r) ==
    /\ ~Logged(r)
    /\ log' = Append(log, [revision |-> r, built_on |-> Tip])

Next == \E r \in RevisionIds : Advance(r)

Spec == Init /\ [][Next]_log
=============================================================================
