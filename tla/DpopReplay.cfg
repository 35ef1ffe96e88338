\* An evictor, a cache smaller than Jtis, and a TTL inside the iat window.
SPECIFICATION Spec
CONSTANTS
    Jtis = {j1, j2, j3}
    Tasks = {t1, t2}
    Evictors = {e1}
    TTL = 2
    Skew = 1
    MaxSize = 2
    MaxWait = 1
    MaxTime = 4
SYMMETRY ReplaySymmetry
INVARIANTS AcceptancesTtlApart ReacceptedInIatWindow CapacityWindow
PROPERTY NoFalseReplay
