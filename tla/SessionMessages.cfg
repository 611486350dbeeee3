SPECIFICATION Spec
CONSTANTS
    None = None
    Sessions = {s1, s2}
    Messages = {m1, m2}
    Kinds = {"ask", "reply"}
    Workbenches = {canvas}
    Home = canvas
    Tasks = {events, t1}
    Reader = events
    MaxObjects = 3
    MaxBinds = 0
    MaxFaults = 1
    MaxPage = 2
SYMMETRY Symmetry
\* The clients' identifiers run out, and then the system has nothing left to do.
CHECK_DEADLOCK FALSE
INVARIANTS
    TypeOK
    InjectedOnce
    EventsTellReceipt
    NothingPassedOver
