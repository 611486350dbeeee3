SPECIFICATION Spec
CONSTANTS
    None = None
    Workers = {w1, w2}
    RunIds = {r1, r2}
    ValidationIds = {v1, v2}
    RunSpecIds = {s1, s2}
    CandidateIds = {c1, c2}
    Tapes = {t1, t2}
    VerifyIds = {}
    Stamps = {1}
    TotalBars = 3
    BatchSize = 2
    Malformed = {}
    Refused = {}
    MaxFaults = 1
    MaxClaims = 3
SYMMETRY Symmetry
\* The clients' identifiers run out, and then the system has nothing left to do.
CHECK_DEADLOCK FALSE
INVARIANTS
    TypeOK
    SingleWriter
    SettledTogether
    OneFrozenTape
    CheckpointChain
PROPERTIES
    SettledForever
    KeepsContract
