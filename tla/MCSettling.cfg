SPECIFICATION MCSpec
CONSTANTS
    Agents = {a1, a2}
    MaxConcurrentAgents = 1
    MaxTotalAgents = 2
    MaxProgressEvents = 1
    StartRequests <- MCStarts
    AgentRequests <- MCAgentRequests
    Programs = {p1}
    MaxOutputBytes = 9
    MaxBindingCalls = 1
    MaxLogsInFlight = 2
    LimitMessageBytes = 4
    TextBytes = {1, 3}
    CodeRequests <- MCCode
    ReservedNames = {"r"}
    TailBytes = 2
    SpillMax = 4
    SpillQueue = 2
    MaxOutput = 5
    ChunkSizes = {1, 2, 3}
    Continues = {3}
    Names = {1, 2, 3}
    Hashes = {1, 2}
    SpillRows <- MCSpillRows
    EntryLimit = 2
    DeleteLimit = 1
    RowLimit = 2
    ScanLimit = 1
    ReclaimLimit = 1
    Family = {1, 2, 3}
    Head0 = 1
    ParentOf <- MCParentOf
    Named = {"a"}
    Plain = "plain"
    MaxLogged = 2
    HighWater = 1
CHECK_DEADLOCK FALSE
INVARIANTS
    WorkflowIsExact
    CommandIsExact
    ContentIsKept
PROPERTIES
    EverythingSettles
