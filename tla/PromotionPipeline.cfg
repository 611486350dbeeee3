SPECIFICATION Spec
CONSTANTS
    None = None
    RevisionIds = {g1, g2, g3, g4}
    VariantIds = {v1, v2}
    ValidationIds = {x1, x2}
    Paths = {p1}
    MaxFiles = 1
    MaxProjectVariants = 2
    MaxCrashes = 0
    Workers = {w1}
    RunIds = {r1, r2}
    RunSpecIds = {s1, s2}
    Tapes = {t1}
    VerifyIds = {}
    Stamps = {1}
    TotalBars = 1
    BatchSize = 1
    Malformed = {}
    Refused = {}
    MaxFaults = 1
    MaxClaims = 3
SYMMETRY Symmetry
\* The clients' identifiers run out, and then the system has nothing left to do.
CHECK_DEADLOCK FALSE
INVARIANTS
    PromotedOnCompleteRun
PROPERTIES
    StaleStaysOut
    KeepsParts
