\* Two callers and two resources, with a crash or a failed call.
SPECIFICATION Spec
CONSTANTS
    Clients = {c1, c2}
    Keys = {k1, k2}
    Bodies <- MCBodies
    Types <- MCTypes
    Fallback = Fallback
    NoFile = NoFile
    NoEntry = NoEntry
    Disturbed = Disturbed
    MaxOps = 3
    MaxFaults = 1
INVARIANTS UndisturbedWriteHolds
PROPERTY ImplementsContract
CHECK_DEADLOCK FALSE
