SPECIFICATION FairDriverSpec
CONSTANTS
    s1 = s1  s2 = s2
    u1 = u1  u2 = u2  u3 = u3  r1 = r1
    None = None
    Sessions = {s1, s2}
    Inputs = {u1, u3}
    Reminders = {}
    SessionOf <- MCSessionOf
    Weights = {1}
    MAIN_QUEUE_LIMIT = 3
    MAIN_QUEUE_BYTES = 3
    Streamed = {}
    MaxTurns = 2
    MaxCrashes = 1
    MaxFaults = 1
    MaxCalls = 0
PROPERTIES
    AnsweredInputCloses
CHECK_DEADLOCK FALSE
