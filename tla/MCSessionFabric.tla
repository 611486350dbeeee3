---------------------------- MODULE MCSessionFabric ----------------------------
(* SessionFabric on small instances: identifiers are model values.           *)
EXTENDS SessionFabric, TLC

\* Nothing tells one session, message or task from another, but for the reader.
Symmetry ==
    Permutations(Sessions) \cup Permutations(Messages) \cup Permutations(Tasks \ {Reader})
=============================================================================
