------------------------------ MODULE MCFormalRun ------------------------------
(* FormalRun on small instances: the clients' identifiers are model values.  *)
EXTENDS FormalRun, TLC

\* Workers, runs, validations, specs, candidates and tapes are interchangeable.
Symmetry ==
    Permutations(Workers) \cup Permutations(ValidationIds) \cup Permutations(Tapes)
        \cup Permutations(RunIds) \cup Permutations(CandidateIds) \cup Permutations(RunSpecIds)

First(S) == CHOOSE x \in S : TRUE

\* A client has captured what will be the first checkpoint of the run that is
\* requested first.
RefusedCheckpoint == {<<Context(First(RunIds), First(Tapes)), 1>>}

\* Clients use the names of runs and validations in one order: other behaviours are
\* the same ones with the names exchanged, the run whose checkpoint is refused apart.
InOrder ==
    LET r == First(RunIds) IN
    /\ jobs[r].status = None => \A q \in RunIds : jobs[q].status = None
    /\ jobs[r].validation \in {None, First(ValidationIds)}

NextInOrder ==
    \/ GraphStep
    \/ ClientStep /\ InOrder'
    \/ \E w \in Workers : WorkerStep(w) \/ Crash(w) \/ Restart(w)
    \/ Time

SpecInOrder == Init /\ [][NextInOrder]_vars /\ Fairness
=============================================================================
