SPECIFICATION MCSpec
CONSTANTS
    f1 = f1  f2 = f2
    NoRow = None
    Kinds = {"start", "end", "inbox", "title"}
    Callers = {f1, f2}
    MaxEvents = 3
    MaxFaults = 2
    MaxDamage = 1
    PageRows = 1
    MaxExports = 1
SYMMETRY MCSymmetry
CHECK_DEADLOCK FALSE
INVARIANTS
    SummaryIsTheLogs
    ExportIsASnapshot
PROPERTIES
    CommittedStays
    ImplementsBarrier
