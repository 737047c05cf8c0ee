SPECIFICATION DriverSpec
CONSTANTS
    s1 = s1  s2 = s2
    u1 = u1  u2 = u2  u3 = u3  r1 = r1
    None = None
    Sessions = {s1}
    Inputs = {u1}
    Reminders = {}
    SessionOf <- MCSessionOf
    Weights = {1}
    MAIN_QUEUE_LIMIT = 3
    MAIN_QUEUE_BYTES = 3
    Streamed = {u1}
    MaxTurns = 1
    MaxCrashes = 1
    MaxFaults = 0
    MaxCalls = 1
VIEW MCView
INVARIANTS
    StreamsEnd
CHECK_DEADLOCK FALSE
