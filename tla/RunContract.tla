------------------------------ MODULE RunContract ------------------------------
(***************************************************************************)
(* What the formal-run machinery promises to the rest of the system, with  *)
(* no workers, leases, tokens or database transactions in sight: a Run is  *)
(* opened once, its calculation is frozen once, moves forward through its  *)
(* bars, and ends once, with a verdict that is complete and is the verdict *)
(* of the frozen calculation.                                              *)
(***************************************************************************)
EXTENDS Naturals

CONSTANTS RunIds,      \* runs
          Contexts,    \* what a calculation may be frozen to
          TotalBars,   \* length of a calculation
          None

VARIABLES phase,       \* [RunIds -> None | "open" | "settled"]
          frozen,      \* [RunIds -> Contexts or None]
          progress,    \* [RunIds -> bars durably processed]
          verdict      \* [RunIds -> [outcome, context, bars]]

contract == <<phase, frozen, progress, verdict>>

NoVerdict == [outcome |-> None, context |-> None, bars |-> 0]

Init ==
    /\ phase = [r \in RunIds |-> None]
    /\ frozen = [r \in RunIds |-> None]
    /\ progress = [r \in RunIds |-> 0]
    /\ verdict = [r \in RunIds |-> NoVerdict]

Open(r) ==
    /\ phase[r] = None
    /\ phase' = [phase EXCEPT ![r] = "open"]
    /\ UNCHANGED <<frozen, progress, verdict>>

Freeze(r) ==
    /\ phase[r] = "open"
    /\ frozen[r] = None
    /\ \E c \in Contexts : frozen' = [frozen EXCEPT ![r] = c]
    /\ UNCHANGED <<phase, progress, verdict>>

Advance(r) ==
    /\ phase[r] = "open"
    /\ frozen[r] # None
    /\ \E n \in (progress[r] + 1)..TotalBars : progress' = [progress EXCEPT ![r] = n]
    /\ UNCHANGED <<phase, frozen, verdict>>

\* A run that works through checkpoints succeeds at its last bar with its frozen
\* context; a run that was never frozen is computed in one go.
Success(r, v) ==
    /\ v.outcome = "succeeded"
    /\ v.bars = TotalBars
    /\ v.context \in Contexts
    /\ frozen[r] # None => v.context = frozen[r] /\ progress[r] = TotalBars

NoSuccess(v) ==
    /\ v.outcome \in {"failed", "cancelled"}
    /\ v.context = None
    /\ v.bars = 0

Verdicts ==
    [outcome : {"succeeded", "failed", "cancelled"}, context : Contexts \cup {None},
     bars : 0..TotalBars]

Settle(r) ==
    /\ phase[r] = "open"
    /\ phase' = [phase EXCEPT ![r] = "settled"]
    /\ \E v \in Verdicts :
          /\ Success(r, v) \/ NoSuccess(v)
          /\ verdict' = [verdict EXCEPT ![r] = v]
    /\ UNCHANGED <<frozen, progress>>

Next == \E r \in RunIds : Open(r) \/ Freeze(r) \/ Advance(r) \/ Settle(r)

Spec == Init /\ [][Next]_contract
=============================================================================
