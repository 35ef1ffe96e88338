\* Two callers, two paths, a watcher of "/" or "/a/" that can fall behind.
SPECIFICATION FairSpec
CONSTANTS
    Clients = {c1, c2}
    Watchers = {w1}
    Keys <- MCKeys
    Roots <- MCRoots
    Entries = {e1, e2}
    NoEntry = NoEntry
    RingCap = 2
    OutCap = 1
    MaxEvents = 3
INVARIANT ReadersSound
PROPERTIES ImplementsContract EventsReachWatcher
