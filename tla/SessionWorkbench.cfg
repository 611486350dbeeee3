SPECIFICATION Spec
CONSTANTS
    None = None
    Sessions = {s1}
    Messages = {m1}
    Kinds = {"send", "ask", "reply"}
    Workbenches = {canvas, code}
    Home = canvas
    Tasks = {events, t1, t2}
    Reader = events
    MaxObjects = 2
    MaxBinds = 2
    MaxFaults = 0
    MaxPage = 2
SYMMETRY Symmetry
\* The clients' identifiers run out, and then the system has nothing left to do.
CHECK_DEADLOCK FALSE
INVARIANTS
    CurrentWorkbench
