SPECIFICATION Spec
CONSTANTS
    b1 = b1  b2 = b2  c1 = c1  c2 = c2  c3 = c3
    Bridges = {b1, b2}
    Calls = {c1, c2, c3}
    Home <- HomeThree
    Names = {s1, s2}
    MaxCrashes = 1
    MaxOutages = 1
    Faults = {"agy", "io"}
    NoName = NoName
    NoConversation = NoConversation
    None = None
INVARIANT TypeOK
PROPERTIES SavesWhole ImplementsMap
CHECK_DEADLOCK FALSE
