SPECIFICATION Spec
CONSTANTS
    Clients = {c1, c2}
    Keys = {k1}
    Bodies <- MCBodies
    Types <- MCOneType
    Fallback = Fallback
    NoFile = NoFile
    NoEntry = NoEntry
    Disturbed = Disturbed
    MaxOps = 3
    MaxFaults = 0
INVARIANTS PutAtomic
CHECK_DEADLOCK FALSE
