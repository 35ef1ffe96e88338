\* Two requests at a time, three in all, on a pod with and without an ACL.
SPECIFICATION Spec
CONSTANTS
    Workers = {w1, w2}
    Inputs <- AclInputs
    FirstStores <- Stores
    MaxRequests = 3
INVARIANTS NearestAclDecides
PROPERTIES FrozenWithoutAcl UndisturbedPatch
CHECK_DEADLOCK FALSE
