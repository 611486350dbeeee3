SPECIFICATION DataRootSpec
CONSTANTS
    None = None
    Processes = {worker}
    Projects = {q1}
    Shapes <- SmallShapes
    Policies <- SmallPolicies
    DefaultPolicy <- Defaults
    PageSize = 1
    MaxVariables = 2
    MaxLogs = 3
    MaxDay = 1
    MaxCrashes = 1
    Roots = {home, copy}
    Home = home
    Revisions = {r1}
    Commands = {c1, c2}
    Result = result
    MaxArchives = 2
    MaxStops = 1
\* Days, rows, archives and crashes are used up in the end, and then there is nothing left to do.
CHECK_DEADLOCK FALSE
INVARIANTS
    DataRootTypeOK
    ArchivesStandAlone
    Grounded
    ReceiptsTell
PROPERTIES
    PagesComplete
    SweptByAPolicy
    NothingOverwritten
    DataRootOpens
    ImportsEnd
