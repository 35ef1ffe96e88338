\* Two pumps, two subscriptions, one retry; the breaker opens at two failures.
SPECIFICATION FairSpec
CONSTANTS
    Pumps = {p1, p2}
    Subs = {s1, s2}
    Notes = {n1}
    Matches <- MCMatches
    MaxRetries = 1
    Threshold = 2
    MaxEvents = 5
INVARIANTS FailuresBounded
PROPERTIES OpenUntilReset RoundsSettle
