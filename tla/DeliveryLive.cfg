\* One worker, fan-out to an inbox that can be signed for and one that cannot, a fault.
SPECIFICATION FairSpec
CONSTANTS
    Activities = {a1}
    Inboxes = {i1, i2}
    BadInboxes = {i2}
    Workers = {w1}
    MaxAttempts = 2
    MaxSubmissions = 1
    MaxFaults = 1
PROPERTY QueueDrains
