SPECIFICATION Spec
CONSTANTS
    b1 = b1  b2 = b2  c1 = c1  c2 = c2
    Bridges = {b1, b2}
    Callers = {c1, c2}
    Home <- HomePair
    Jobs = {j1}
    MaxAttempts = 2
    MaxCrashes = 0
    Faults = {}
    NoBridge = NoBridge
    NoJob = NoJob
INVARIANT CancelStopsAgy
CHECK_DEADLOCK FALSE
