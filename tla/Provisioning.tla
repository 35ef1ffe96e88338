---------------------------- MODULE Provisioning ----------------------------
(***************************************************************************)
(* provision.rs: provision_pod seeds a pod by a sequence of puts, may fail   *)
(* or crash after any of them and is then run again; QuotaTracker counts the *)
(* bytes callers reserve in one atomic word.  What a put stores depends on   *)
(* its path and the plan only, so the pod maps a path to the plan.           *)
(***************************************************************************)
EXTENDS Chains, FiniteSetsExt

CONSTANTS
    Plans,           \* [containers, stray, acl]: extra containers, whether one of them
                     \* has no trailing slash, whether there is a root ACL
    Provisioners,    \* runs of provision_pod that can be in flight together
    MaxProvisions,   \* bound: runs
    Reservers,       \* holders of a reservation
    Sizes,           \* sizes they reserve
    TrackerQuotas,   \* what may be configured: None or Some(quota)
    InitialUses,     \* bytes in use when the tracker is made: 0, or what it is told
    Word,            \* values of the counter, 2^64
    MaxReserves      \* bound: calls of reserve

ASSUME ProvisionAssumption ==
    /\ {MaxProvisions, MaxReserves} \subseteq Nat /\ Plans # {}
    /\ IsFiniteSet(Reservers) /\ Reservers # {}
    /\ Word \in Nat \ {0} /\ Sizes # {}
    /\ Sizes \subseteq 1..(Word - 1) /\ InitialUses \subseteq 0..(Word - 1)
    /\ \A q \in TrackerQuotas : q \subseteq 0..(Word - 1)

VARIABLES
    provisioning,   \* run -> [plan, containers, todo]: what is left to put
    pod,            \* path -> the plan whose put came last
    provisions,
    planned,        \* history: plans of all runs so far
    finished,       \* history: plans of the runs that returned Ok
    trackerQuota,   \* quota_bytes
    used,           \* used_bytes
    stock,          \* history: what is left of the bytes the tracker started with
    reserving,      \* holder -> a size that passed the check and is not added yet
    held,           \* holder -> what it has reserved
    reserves

provisionVars == <<provisioning, pod, provisions, planned, finished>>
trackerVars == <<trackerQuota, used, stock, reserving, held, reserves>>

----------------------------------------------------------------------------
(* provision_pod.                                                          *)

DefaultContainers == {"/", "/profile/", "/settings/"}
Meta(c) == [meta |-> TRUE, of |-> c]
Doc(x) == [meta |-> FALSE, of |-> x]
RootAcl == Doc("/.acl")
TypeIndexes == {Doc("/settings/publicTypeIndex.jsonld"), Doc("/settings/privateTypeIndex.jsonld")}

\* The puts after the containers.  No put is made for a root ACL the plan lacks.
Documents(plan) == <<Doc("/profile/card")>> \o (IF plan.acl THEN <<RootAcl>> ELSE <<>>)
    \o <<Doc("/settings/publicTypeIndex.jsonld"), Doc("/settings/privateTypeIndex.jsonld"),
         Doc("/settings/publicTypeIndex.jsonld.acl")>>

PodPaths == {Meta(c) : c \in DefaultContainers \cup UNION {p.containers : p \in Plans}}
            \cup UNION {{Documents(p)[i] : i \in DOMAIN Documents(p)} : p \in Plans}

ProvisionInit ==
    /\ provisioning = [r \in Provisioners |-> None]
    /\ pod = [x \in PodPaths |-> None]
    /\ provisions = 0 /\ planned = {} /\ finished = {}

ProvisionStart(r, plan) ==
    /\ provisioning[r] = None /\ provisions < MaxProvisions
    /\ provisioning' = [provisioning EXCEPT ![r] = Some([plan |-> plan, todo |-> Documents(plan),
           containers |-> DefaultContainers \cup plan.containers])]
    /\ provisions' = provisions + 1 /\ planned' = planned \cup {plan}
    /\ UNCHANGED <<pod, finished>>

\* Mutation of PutContainer: a container that is there means the pod is seeded.
PutContainerOrReturn(r, c) ==
    /\ \E run \in provisioning[r] :
        /\ c \in run.containers
        /\ provisioning' = [provisioning EXCEPT ![r] =
               IF pod[Meta(c)] # None THEN None ELSE Some([run EXCEPT !.containers = @ \ {c}])]
        /\ finished' = finished \cup {p \in {run.plan} : pod[Meta(c)] # None}
        /\ pod' = [pod EXCEPT ![Meta(c)] = Some([body |-> "{}"])]
    /\ UNCHANGED <<provisions, planned>>
\* One container's sidecar.  The code sorts the containers; here they come in any
\* order, as no property tells the orders apart.  No backend reports that the
\* sidecar exists already: a later run writes it again.
PutContainer(r, c) ==
    /\ \E run \in provisioning[r] :
        /\ c \in run.containers
        /\ provisioning' = [provisioning EXCEPT ![r] = Some([run EXCEPT !.containers = @ \ {c}])]
        /\ pod' = [pod EXCEPT ![Meta(c)] = Some([body |-> "{}"])]
    /\ UNCHANGED <<provisions, planned, finished>>

\* The document puts, in their order; the last one returns Ok.  The loop over
\* the containers ends with an error at one without a trailing slash.
PutDocument(r) ==
    /\ \E run \in provisioning[r] :
        /\ run.containers = {} /\ ~run.plan.stray
        /\ pod' = [pod EXCEPT ![Head(run.todo)] = Some(run.plan)]
        /\ provisioning' = [provisioning EXCEPT ![r] =
               IF Len(run.todo) = 1 THEN None ELSE Some([run EXCEPT !.todo = Tail(@)])]
        /\ finished' = IF Len(run.todo) = 1 THEN finished \cup {run.plan} ELSE finished
    /\ UNCHANGED <<provisions, planned>>

\* A put fails, a container is refused, or the process stops: the run ends and
\* what it wrote stays.
ProvisionEnds(r) ==
    /\ provisioning[r] # None
    /\ provisioning' = [provisioning EXCEPT ![r] = None]
    /\ UNCHANGED <<pod, provisions, planned, finished>>

----------------------------------------------------------------------------
(* QuotaTracker.                                                           *)

\* new, and with_initial_used: the bytes in use may be any number, also more than
\* the quota.
TrackerInit ==
    /\ trackerQuota \in TrackerQuotas
    /\ stock \in InitialUses /\ used = stock /\ reserves = 0
    /\ reserving = [h \in Reservers |-> 0] /\ held = [h \in Reservers |-> 0]

SaturatingAdd(a, b) == Min({a + b, Word - 1})

\* reserve, the test: a refusal changes nothing
Fits(size) == \A q \in trackerQuota : SaturatingAdd(used, size) <= q
ReserveCheck(h, size) ==
    /\ reserves < MaxReserves /\ reserving[h] = 0 /\ held[h] = 0
    /\ reserves' = reserves + 1
    /\ reserving' = [reserving EXCEPT ![h] = IF Fits(size) THEN size ELSE 0]
    /\ UNCHANGED <<trackerQuota, used, stock, held>>

\* reserve, the fetch_add after it
ReserveAdd(h) ==
    /\ reserving[h] # 0
    /\ used' = (used + reserving[h]) % Word
    /\ held' = [held EXCEPT ![h] = reserving[h]]
    /\ reserving' = [reserving EXCEPT ![h] = 0]
    /\ UNCHANGED <<trackerQuota, stock, reserves>>

\* release, of what was reserved before
Release(h) ==
    /\ held[h] # 0
    /\ used' = (used - held[h]) % Word
    /\ held' = [held EXCEPT ![h] = 0]
    /\ UNCHANGED <<trackerQuota, stock, reserves, reserving>>

\* release, of bytes that were there from the start
ReleaseStock(size) ==
    /\ size <= stock
    /\ used' = (used - size) % Word
    /\ stock' = stock - size
    /\ UNCHANGED <<trackerQuota, reserves, reserving, held>>

----------------------------------------------------------------------------

ProvisionNext == \E r \in Provisioners :
    \/ \E p \in Plans : ProvisionStart(r, p)
    \/ \E x \in PodPaths : x.meta /\ PutContainer(r, x.of)
    \/ PutDocument(r) \/ ProvisionEnds(r)

TrackerNext ==
    \/ \E h \in Reservers : (\E s \in Sizes : ReserveCheck(h, s)) \/ ReserveAdd(h) \/ Release(h)
    \/ \E s \in Sizes : ReleaseStock(s)

\* provision_pod stops anywhere and is run again, also while a run is still at
\* work.  If all runs were for one plan, a run that returned Ok leaves the whole
\* seed; and no type index is there before the root ACL of a plan that has one.
ProvisionResumes ==
    /\ \A plan \in Plans : planned = {plan} /\ plan \in finished =>
           /\ \A c \in DefaultContainers \cup plan.containers : pod[Meta(c)] # None
           /\ \A i \in DOMAIN Documents(plan) : pod[Documents(plan)[i]] = Some(plan)
    /\ \A x \in TypeIndexes : \A plan \in pod[x] : plan.acl => pod[RootAcl] # None

\* The units that the holders have, one by one.
Units(amount) == UNION {{h} \X (1..amount[h]) : h \in Reservers}

\* reserve tests the counter and adds in two steps.  The counter is what is left
\* of the bytes it started with and the sum of what is held, whatever wraps.  A
\* tracker that started above its quota admits nothing until releases bring the
\* bytes it started with down to the quota; any other passes the quota by at most
\* what the other holders can have had under way at one time.
TrackerOvershoot ==
    /\ used = (stock + Cardinality(Units(held))) % Word
    /\ \A q \in trackerQuota :
           IF stock > q THEN used = stock
           ELSE used <= q + (Cardinality(Reservers) - 1) * Min({q, Max(Sizes)})

\* Seeding a pod and counting what is stored in it.
ProvisioningSound == ProvisionResumes /\ TrackerOvershoot
=============================================================================
