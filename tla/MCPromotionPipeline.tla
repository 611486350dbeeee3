-------------------------- MODULE MCPromotionPipeline --------------------------
(* PromotionPipeline on small instances: identifiers are model values.       *)
EXTENDS PromotionPipeline, TLC

Symmetry ==
    Permutations(RevisionIds) \cup Permutations(VariantIds) \cup Permutations(ValidationIds)
        \cup Permutations(RunIds) \cup Permutations(RunSpecIds)
=============================================================================
