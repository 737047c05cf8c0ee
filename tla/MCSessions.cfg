SPECIFICATION MCSpec
CONSTANTS
    late = late  t1 = t1  t2 = t2  t3 = t3
    None = None
    Late = late
    Callers = {late, t1, t2}
    MaxEvents = 2
    MaxLives = 2
    Models = {"v1", "t"}
    VisionModels = {"v1"}
    DefaultModel = "v1"
    NoModel = "none"
    MaxHeld = 2
    MaxWaiting = 1
    Clients = {t1, t2, t3}
    NoClient = "nobody"
    Presets = {"standard", "ptc"}
    OfferedPresets = {"standard", "ptc"}
    DefaultPreset = "standard"
    MaxAppended = 2
    MaxRecorded = 2
    Sessions = {1, 2, 3}
    MaxTime = 2
    MaxRecords = 2
    PageSize = 1
    MaxSearchSessions = 2
    MaxSearchEvents = 1
    ResultLimit = 1
    Streams = {"text", "call"}
    Kinds = {"start", "end", "user", "message"}
    MinRun = 2
    MaxLog = 4
    MaxDamage = 1
    ReplayCounts = {2}
    ReplayBytes = 4
    ScanLimit <- MCScan
    HistoryLimit <- MCHistory
    ForkLimit <- MCFork
    WindowLimit <- MCWindow
    MaxMessages = 2
    Ids = {1, 2, 3}
    OldLogs <- MCOldLogs
    NewLogs <- MCNewLogs
    MigrationLimit = 3
    SwapWrites = 1
    MaxStarts = 3
    Receipts = {t1, t2}
    ExpiredPerUpload = 1
    Requests = {q1, q2}
    Retention = 1
    Messages <- MCMessages
    R2Limits <- MCR2Limits
    OptimizedLimits <- MCOptimizedLimits
    Policy <- MCPolicy
    ChunkBytes = 4
    MaxStoredBytes = 13
    Batches = {t1, t2}
SYMMETRY MCSymmetry
CHECK_DEADLOCK FALSE
INVARIANTS
    DeliveryIsOrdered
    ChoicesHold
    ReadsAreExact
    NothingStoredIsLost
PROPERTIES
    VisibleIsStored
    StepsKeepTheRecord
