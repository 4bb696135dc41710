SPECIFICATION LifeSpec
CONSTANTS
    b1 = b1  b2 = b2  c1 = c1  c2 = c2  m1 = m1  m2 = m2
    Bridges = {b1, b2}
    Callers = {c1, c2, m1, m2}
    Home <- HomeLife
    Host = b1
    Main <- MainLife
    Asks <- AsksLife
    MaxStops = 2
    Jobs = {j1}
    MaxAttempts = 2
    MaxCrashes = 0
    Faults = {"spawn", "io"}
    NoBridge = NoBridge
    NoJob = NoJob
INVARIANTS LifeInv WatchedIsServed FinishedOnce ServersClose OwnCancelStopsAgy ServedJobsEnd
CHECK_DEADLOCK FALSE
