SPECIFICATION MCSpec
CONSTANTS
    p = p  q = q  third = third  c1 = c1  c2 = c2
    Installers = {p, q}
    Nobody = none
    FirstVersions <- MCFirst
    Foreign <- MCForeign
    MaxAttempts = 1
    WorkerLoader = TRUE
    FlagOnLoad = TRUE
    MaxStarts = 3
    Keys = {1}
    Global = 0
    Versions = {1, 2, 3}
    Compatible <- MCCompatible
    Workspaces = {11, 12}
    MaxWrites = 2
    MaxMinutes = 2
    Sockets = {p, q}
    Ttl = 2
    MaxClock = 3
    Namespaces = {"a", "b"}
    Registrations <- MCRegistrations
    Discarding = {"b"}
    Successor = "a"
    Legacy = "old"
    OldSections <- MCOldSections
    Edits <- MCEdits
    Texts = {1, 2, 9}
    Invalid = {0, 9}
    Pages = {p, q}
    MaxQueued = 1
    MaxRevision = 2
    Slots = {p, q}
    MaxLoads = 1
    MaxSaves = 2
    MaxRefreshes = 1
    MaxRequests = 2
    Cwds = {c1, c2}
    Skills = {1, 2}
    RootOf <- MCRootOf
    Runs = {p, q}
    NoCwd = none
    MaxEdits = 2
    MaxFingerprints = 2
    None = nothing
    Sessions = {1, 2}
    Tasks = {p, q, third}
    TaskSession <- MCTaskSession
    Periods = {1}
    MAX_ACTIVE_SCHEDULES = 2
    MAX_ENDED_SCHEDULES = 1
    RetentionRecords = 1
    RetentionTime = 2
    LastInstant = 3
    MAIN_QUEUE_LIMIT = 2
    MAIN_WAKE_MS = 1
    MaxTime = 3
SYMMETRY MCSymmetry
CHECK_DEADLOCK FALSE
INVARIANTS
    DeploymentHolds
    PagesAreServed
    RemindersHold
PROPERTIES
    StorageAndLegacyStay
    PauseHoldsReminders
