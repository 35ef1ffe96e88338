SPECIFICATION Spec
CONSTANTS
    Workers = {w1, w2}
    Inputs <- LinkInputs
    FirstStores <- Stores
    MaxRequests = 3
INVARIANT LinkedAclDecides
CHECK_DEADLOCK FALSE
