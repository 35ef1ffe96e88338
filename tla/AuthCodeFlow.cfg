\* Token requests race for a code while keys are rotated and pruned.
SPECIFICATION Spec
CONSTANTS
    Accounts = {a1}
    Clients = {c1, c2}
    Redirects = {u1}
    Verifiers = {v1, v2}
    Jkts = {j1}
    SessionIds = {s1}
    Browsers = {b1}
    Requests = {r1, r2}
    SessionTTL = 1
    CodeTTL = 1
    TokenTTL = 1
    Retention = 2
    NoOne = NoOne
    MaxTime = 2
    MaxCodes = 1
    MaxKeys = 3
    MaxCalls = 2
INVARIANTS CodeSpentOnce TokenMatchesGrant LiveTokenVerifies
