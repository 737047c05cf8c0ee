SPECIFICATION MCSpec
CONSTANTS
    s1 = s1  s2 = s2
    u1 = u1  u2 = u2  u3 = u3  r1 = r1
    None = None
    Sessions <- MCSessions
    Inputs <- MCInputs
    Reminders <- MCReminders
    SessionOf <- MCSessionOf
    Weights = {1, 2}
    MAIN_QUEUE_LIMIT = 3
    MAIN_QUEUE_BYTES = 4
SYMMETRY MCSymmetry
VIEW MCView
CHECK_DEADLOCK FALSE
INVARIANTS
    TypeOK
    PendingExact
    BytesExact
    LedgerInv
PROPERTIES
    ReceiptIsStable
    OutcomeIsFinal
    NoDoubleOvertake
    PauseIsTheUsers
