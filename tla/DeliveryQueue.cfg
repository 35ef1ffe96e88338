\* Two workers racing for the rows of one inbox, with faults.
SPECIFICATION Spec
CONSTANTS
    Activities = {a1}
    Inboxes = {i1}
    BadInboxes = {}
    Workers = {w1, w2}
    MaxAttempts = 2
    MaxSubmissions = 2
    MaxFaults = 1
SYMMETRY DeliverySymmetry
INVARIANTS NoRowLost PostsBounded OutcomeRecorded
