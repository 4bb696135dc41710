SPECIFICATION Spec
CONSTANTS
    b1 = b1  b2 = b2  c1 = c1  c2 = c2  c3 = c3
    Bridges = {b1, b2}
    Calls = {c1, c2, c3}
    Home <- HomeThree
    Limit = 2
    MaxId = 3
    MaxDay = 1
    MaxCrashes = 0
    Faults = {"spawn"}
    NoCall = NoCall
INVARIANT RecordKept
CHECK_DEADLOCK FALSE
