SPECIFICATION Spec
CONSTANTS
    None = None
    RevisionIds = {r1, r2, r3, r4, r5}
    VariantIds = {v1, v2, v3}
    ValidationIds = {x1, x2}
    Paths = {p1, p2}
    MaxFiles = 2
    MaxProjectVariants = 2
    MaxCrashes = 1
SYMMETRY Symmetry
\* The clients' identifiers run out, and then the system has nothing left to do.
CHECK_DEADLOCK FALSE
INVARIANTS
    TypeOK
    Protected
    MergeComplete
    PromotionsValidated
PROPERTIES
    HeadsMoveToChildren
    KeepsHeadLog
