SPECIFICATION MCSpec
CONSTANTS
    c1 = c1  c2 = c2  c3 = c3  c4 = c4  n1 = n1  d1 = d1
    None = None
    Calls = {c1, c2, c3, c4, n1}
    Long = {c4}
    Parent <- MCParent
    Capacity = 1
    MaxWaiting = 2
    Direct = {d1}
    Commands = {c1, c2, c3, c4, n1, d1}
    MAX_CONCURRENT = 1
    Commands0 = {c2, c3}
    Natures <- MCNatures
    Policies = {"auto", "light", "container"}
    MaxElsewhere = 1
    LightCommands = {"ls", "echo", "cd", "find", "rg", "bash", "env", "timeout", "time", "xargs"}
    Programs = {"ls", "node", "rg"}
    MaxNesting = 1
    MaxGrowth = 2
    Ids = {a, b}
    Runs = {c2, c3}
    NoRun = none
    Paths = {p1}
    Tools = {c2, c3}
    Texts = {x, y}
    Absent = absent
    Oversized = big
    NoCapture = nothing
    MaxTurns = 2
    MaxCalls = 2
    MaxShellWrites = 1
    MaxEvictions = 1
    Names = {"n1", "n2"}
    Settings <- MCSettings
    Urls = {"u1", "u2"}
    NoUrl = "none"
    MaxFlows = 1
    Lists <- MCLists
    MaxPages = 3
    MaxTools = 3
    MaxBytes = 4
    SlimSize = 1
SYMMETRY MCSymmetry
CHECK_DEADLOCK FALSE
INVARIANTS
    AdmissionIsExact
    RoutingIsFaithful
    SourceIsReadRight
    ReportsAreTrue
    ServersAreTheirOwn
PROPERTIES
    FifoPermits
