SPECIFICATION SpecInOrder
CONSTANTS
    None = None
    Workers = {w1}
    RunIds = {r1, r2}
    ValidationIds = {v1, v2}
    RunSpecIds = {s1, s2}
    CandidateIds = {c1}
    Tapes = {t1}
    VerifyIds = {a1}
    Stamps = {1, 2}
    TotalBars = 2
    BatchSize = 2
    Malformed = {s2}
    Refused <- RefusedCheckpoint
    MaxFaults = 1
    MaxClaims = 3
\* The clients' identifiers run out, and then the system has nothing left to do.
CHECK_DEADLOCK FALSE
PROPERTIES
    RunsSettle
    VerificationsDone
