SPECIFICATION FairSpec
CONSTANTS
    None = None
    Sessions = {s1}
    Messages = {m1}
    Kinds = {"send", "ask", "reply"}
    Workbenches = {canvas, code}
    Home = canvas
    Tasks = {events, t1}
    Reader = events
    MaxObjects = 2
    MaxBinds = 1
    MaxFaults = 2
    MaxPage = 2
\* The clients' identifiers run out, and then the system has nothing left to do.
CHECK_DEADLOCK FALSE
PROPERTIES
    Delivered
