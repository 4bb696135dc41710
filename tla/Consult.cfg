SPECIFICATION Spec
CONSTANTS
    b1 = b1  b2 = b2  c1 = c1  c2 = c2  c3 = c3
    Bridges = {b1, b2}
    Calls = {c1, c2, c3}
    Home <- HomeThree
    Limit = 1
    MaxId = 2
    MaxDay = 2
    MaxCrashes = 1
    Faults = {"prompt", "spawn", "exit", "io"}
    NoCall = NoCall
INVARIANTS TypeOK FilesStay ClaimsReturned StartsWithinBudget LedgerExact
PROPERTY ImplementsClaims
CHECK_DEADLOCK FALSE
SYMMETRY SameBridge
