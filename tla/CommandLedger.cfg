SPECIFICATION LedgerAndHostSpec
CONSTANTS
    None = None
    i1 = i1
    i2 = i2
    i3 = i3
    x1 = x1
    x2 = x2
    a1 = a1
    a2 = a2
    u1 = u1
    canvas = canvas
    code = code
    raw = raw
    adjusted = adjusted
    Handlers = {h1, h2}
    Envelopes <- SmallEnvelopes
    Uploads = {u1}
    Home = canvas
    MaxSends = 3
    MaxStops = 1
    Bars <- PortfolioBars
    Answers <- FewAnswers
    MaxStrays = 1
\* Clients send MaxSends commands, and then the service has nothing left to do.
CHECK_DEADLOCK FALSE
INVARIANTS
    LedgerAndHostTypeOK
    RowsTellEvents
    InActiveWorkbench
    RowsResolve
    TapeIsAnswers
    NoLookAhead
PROPERTIES
    KeepsLog
    HostEnds
