SPECIFICATION DriverSpec
CONSTANTS
    s1 = s1  s2 = s2
    u1 = u1  u2 = u2  u3 = u3  r1 = r1
    None = None
    Sessions = {s1}
    Inputs = {u1, r1}
    Reminders = {r1}
    SessionOf <- MCSessionOf
    Weights = {1}
    MAIN_QUEUE_LIMIT = 3
    MAIN_QUEUE_BYTES = 3
    Streamed = {u1}
    MaxTurns = 3
    MaxCrashes = 2
    MaxFaults = 1
    MaxCalls = 1
VIEW MCView
CHECK_DEADLOCK FALSE
INVARIANTS
    DriverTypeOK
    SteeringIsExact
    TurnIsAttended
    AckedWorkHasAlarm
PROPERTIES
    SeenOnce
    ResidencyOwnsSlot
