SPECIFICATION FairSpec
CONSTANTS
    None = None
    Workers = {w1, w2}
    RunIds = {r1}
    ValidationIds = {v1}
    RunSpecIds = {s1}
    CandidateIds = {c1}
    Tapes = {t1}
    VerifyIds = {a1}
    Stamps = {1, 2}
    TotalBars = 3
    BatchSize = 2
    Malformed = {}
    Refused = {}
    MaxFaults = 1
    MaxClaims = 3
CHECK_DEADLOCK FALSE
PROPERTIES
    VerificationAnswered
