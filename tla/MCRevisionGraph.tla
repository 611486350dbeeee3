---------------------------- MODULE MCRevisionGraph ----------------------------
(* RevisionGraph on small instances: identifiers are model values.           *)
EXTENDS RevisionGraph, TLC

\* Clients choose identifiers and paths; none of them means anything by itself.
Symmetry ==
    Permutations(RevisionIds) \cup Permutations(VariantIds)
        \cup Permutations(ValidationIds) \cup Permutations(Paths)
=============================================================================
