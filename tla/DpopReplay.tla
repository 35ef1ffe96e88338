----------------------------- MODULE DpopReplay -----------------------------
(***************************************************************************)
(* DPoP proof verification with the jti replay cache                        *)
(* (solid-pod-rs/src/oidc/mod.rs and oidc/replay.rs).                       *)
(*                                                                         *)
(* A request first passes verify_dpop_proof_core, which is synchronous and  *)
(* ends with the iat tolerance check, then calls check_and_record, which    *)
(* reads Instant::now() BEFORE it awaits the mutex of the cache.  The two   *)
(* halves are the actions Submit and CheckAndRecord; any number of other    *)
(* requests, sweeps of the evictor and clock ticks may come between them.   *)
(***************************************************************************)
EXTENDS Integers, FiniteSets, LruCache

CONSTANTS
    Jtis,      \* proofs, named by their jti claim (one iat each)
    Tasks,     \* concurrent requests
    Evictors,  \* background evictor tasks: {} when spawn_evictor is not used
    TTL,       \* ttl of the cache
    MaxSize,   \* max_size of the cache, clamped to at least 1
    Skew,      \* iat tolerance of verify_dpop_proof
    MaxWait,   \* bound: longest time between Instant::now() and the lock
    MaxTime    \* bound: the clock stops here

\* with_config clamps max_size to 1; a TTL of 0 would turn detection off.
ASSUME ReplayAssumption ==
    /\ TTL \in Nat \ {0} /\ MaxSize \in Nat \ {0}
    /\ Skew \in Nat /\ MaxWait \in Nat /\ MaxTime \in Nat

NoTime == -1
ASSUME NoTimeAssumption == NoTime \notin Nat

VARIABLES
    clock,
    iat,         \* iat claim of each proof
    seen,        \* LruCache<String, Instant>: first-seen instant or NoTime
    order,       \* LruCache recency list
    inflight,    \* requests between Instant::now() and the mutex
    sweeps,      \* evict_expired calls between Instant::now() and the mutex
    lastAccept,  \* history: instant of the last acceptance of each jti
    dropped,     \* history: jtis dropped by capacity since that acceptance
    since,       \* history: other jtis accepted since that acceptance
    gaps         \* history: distances between acceptances of one jti that no
                 \* capacity eviction separates

vars == <<clock, iat, seen, order, inflight, sweeps, lastAccept, dropped,
          since, gaps>>

Saturating(a, b) == IF a >= b THEN a - b ELSE 0

\* How far the instant of an accepted request may lie behind the evictor's.
Slack == IF Evictors = {} THEN 0 ELSE MaxWait

\* The cache, the requests and the sweeps in flight are what their types say;
\* no request carries an instant before the start.
TypeOK ==
    /\ clock \in Nat
    /\ iat \in [Jtis -> Nat]
    /\ seen \in [Jtis -> Nat \cup {NoTime}]
    /\ inflight \subseteq [task : Tasks, jti : Jtis, now : Nat]
    /\ sweeps \subseteq [task : Evictors, now : Nat]
    /\ lastAccept \in [Jtis -> Nat \cup {NoTime}]
    /\ dropped \subseteq Jtis
    /\ gaps \subseteq Int

Init ==
    /\ clock = 0
    /\ iat \in [Jtis -> 0..MaxTime]
    /\ seen = [j \in Jtis |-> NoTime]
    /\ order = <<>>
    /\ inflight = {}
    /\ sweeps = {}
    /\ lastAccept = [j \in Jtis |-> NoTime]
    /\ dropped = {}
    /\ since = [j \in Jtis |-> {}]
    /\ gaps = {}

-----------------------------------------------------------------------------
\* Mutant of IatWithinTolerance: one side within tolerance is enough.
IatEitherSide(j, now) ==
    \/ Saturating(now, iat[j]) <= Skew
    \/ Saturating(iat[j], now) <= Skew

\* verify_dpop_proof_core refuses a proof outside the tolerance on either side.
IatWithinTolerance(j, now) ==
    /\ Saturating(now, iat[j]) <= Skew
    /\ Saturating(iat[j], now) <= Skew

\* A proof passes the core checks and check_and_record reads the clock.  A
\* proof that fails a core check returns here and never reaches the cache.
Submit(t, j) ==
    /\ \A r \in inflight : r.task # t
    /\ IatWithinTolerance(j, clock)
    /\ inflight' = inflight \cup {[task |-> t, jti |-> j, now |-> clock]}
    /\ UNCHANGED <<clock, iat, seen, order, sweeps, lastAccept, dropped, since,
                   gaps>>

\* The jti is known and its age, as the request saw the clock, is below the TTL.
Replayed(j, now) == seen[j] # NoTime /\ Saturating(now, seen[j]) < TTL

\* Mutant of Put: an entry that is still there keeps its old instant.
PutKeepsOldInstant(j, now) ==
    LET victims == LruVictims(order, j, MaxSize)
    IN  /\ seen' = [k \in Jtis |-> IF k = j /\ seen[k] = NoTime THEN now
                                   ELSE IF k \in victims THEN NoTime
                                   ELSE seen[k]]
        /\ order' = LruPut(order, j, MaxSize)
        /\ dropped' = {k \in Jtis \ {j} : k \in dropped \cup victims}

\* put: record the jti, dropping the least recently recorded one at capacity.
Put(j, now) ==
    LET victims == LruVictims(order, j, MaxSize)
    IN  /\ seen' = [k \in Jtis |-> IF k = j THEN now
                                   ELSE IF k \in victims THEN NoTime
                                   ELSE seen[k]]
        /\ order' = LruPut(order, j, MaxSize)
        /\ dropped' = {k \in Jtis \ {j} : k \in dropped \cup victims}

\* History of an acceptance: not code, what the properties are stated over.
RecordAcceptance(j, now) ==
    /\ lastAccept' = [lastAccept EXCEPT ![j] = now]
    /\ since' = [k \in Jtis |-> IF k = j THEN {} ELSE since[k] \cup {j}]
    /\ gaps' = IF lastAccept[j] = NoTime \/ j \in dropped THEN gaps
               ELSE gaps \cup {now - lastAccept[j]}

\* Mutant of CheckAndRecord: looking a replayed jti up promotes it (get, not peek).
CheckAndPromote(r) ==
    /\ inflight' = inflight \ {r}
    /\ UNCHANGED <<clock, iat, sweeps>>
    /\ \/ /\ Replayed(r.jti, r.now)
          /\ order' = LruPut(order, r.jti, MaxSize)
          /\ UNCHANGED <<seen, lastAccept, dropped, since, gaps>>
       \/ /\ ~Replayed(r.jti, r.now)
          /\ Put(r.jti, r.now)
          /\ RecordAcceptance(r.jti, r.now)

\* Mutant of CheckAndRecord: a replay refreshes the entry's instant.
CheckAndRefresh(r) ==
    /\ inflight' = inflight \ {r}
    /\ UNCHANGED <<clock, iat, sweeps>>
    /\ \/ /\ Replayed(r.jti, r.now)
          /\ seen' = [seen EXCEPT ![r.jti] = r.now]
          /\ UNCHANGED <<order, lastAccept, dropped, since, gaps>>
       \/ /\ ~Replayed(r.jti, r.now)
          /\ Put(r.jti, r.now)
          /\ RecordAcceptance(r.jti, r.now)

\* The critical section of check_and_record, with the clock read before it.
CheckAndRecord(r) ==
    /\ inflight' = inflight \ {r}
    /\ UNCHANGED <<clock, iat, sweeps>>
    /\ \/ /\ Replayed(r.jti, r.now)
          /\ UNCHANGED <<seen, order, lastAccept, dropped, since, gaps>>
       \/ /\ ~Replayed(r.jti, r.now)
          /\ Put(r.jti, r.now)
          /\ RecordAcceptance(r.jti, r.now)

\* evict_expired reads the clock, then waits for the mutex.
StartSweep(e) ==
    /\ \A s \in sweeps : s.task # e
    /\ sweeps' = sweeps \cup {[task |-> e, now |-> clock]}
    /\ UNCHANGED <<clock, iat, seen, order, inflight, lastAccept, dropped,
                   since, gaps>>

Expired(now) == {j \in Jtis : seen[j] # NoTime /\ Saturating(now, seen[j]) >= TTL}

\* The critical section of evict_expired.
EvictExpired(s) ==
    /\ sweeps' = sweeps \ {s}
    /\ seen' = [j \in Jtis |-> IF j \in Expired(s.now) THEN NoTime ELSE seen[j]]
    /\ order' = LruPop(order, Expired(s.now))
    /\ UNCHANGED <<clock, iat, inflight, lastAccept, dropped, since, gaps>>

\* Time passes, but no request waits for the mutex longer than MaxWait.
Tick ==
    /\ clock < MaxTime
    /\ \A r \in inflight : clock - r.now < MaxWait
    /\ clock' = clock + 1
    /\ UNCHANGED <<iat, seen, order, inflight, sweeps, lastAccept, dropped,
                   since, gaps>>

Next ==
    \/ \E t \in Tasks, j \in Jtis : Submit(t, j)
    \/ \E r \in inflight : CheckAndRecord(r)
    \/ \E e \in Evictors : StartSweep(e)
    \/ \E s \in sweeps : EvictExpired(s)
    \/ Tick

Spec == Init /\ [][Next]_vars
-----------------------------------------------------------------------------
\* Invariant 1 of replay.rs, with the precision the code has: two acceptances
\* of a jti that capacity did not drop in between are TTL apart, less the time
\* a request may hold its clock reading while the evictor overtakes it.
AcceptancesTtlApart == \A g \in gaps : g >= TTL - Slack

\* A proof is accepted anew, after the cache forgot it, only inside the window
\* that verify_dpop_proof allows for its iat: two skews wide.
ReacceptedInIatWindow == \A g \in gaps : g <= 2 * Skew

\* What the module's first paragraph asks for: a proof whose jti was accepted
\* is not accepted again at any instant at which its iat is still tolerated.
AcceptedOnce == gaps = {}

\* Invariant 4 and the capacity-driven replay window: the cache is bounded, its
\* recency list names exactly its entries, and a jti is forgotten early only
\* after MaxSize other jtis were accepted since.
CapacityWindow ==
    /\ Len(order) <= MaxSize
    /\ LruKeys(order) = {j \in Jtis : seen[j] # NoTime}
    /\ \A j \in dropped : Cardinality(since[j]) >= MaxSize

\* Invariants 2 and 3: whatever verdict a request gets, an acceptance of its
\* jti less than TTL older justifies it, so nothing is refused on the word of
\* an expired, tampered or refreshed entry.
NoFalseReplay ==
    [][\A r \in inflight \ inflight' :
          /\ lastAccept'[r.jti] # NoTime
          /\ \/ lastAccept'[r.jti] = r.now
             \/ r.now - lastAccept'[r.jti] < TTL]_vars
=============================================================================
