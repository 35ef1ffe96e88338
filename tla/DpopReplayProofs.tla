-------------------------- MODULE DpopReplayProofs --------------------------
(***************************************************************************)
(* Proofs about DpopReplay, for every set of proofs and requests, every TTL,*)
(* tolerance, capacity and lock wait.                                       *)
(***************************************************************************)
EXTENDS DpopReplay, FiniteSetTheorems, SequenceTheorems, TLAPS

\* Clock readings taken before a lock are never ahead of the clock, and those
\* of requests lag it by at most MaxWait and lie in the iat window.
ReadingsLag ==
    /\ \A r \in inflight : /\ r.now <= clock
                           /\ clock - r.now <= MaxWait
                           /\ r.now - iat[r.jti] <= Skew
                           /\ iat[r.jti] - r.now <= Skew
    /\ \A s \in sweeps : s.now <= clock

\* An entry is the last acceptance of its jti.  A jti that was accepted and is
\* not in the cache was dropped by capacity, or swept once the TTL was over.
EntriesAreAcceptances ==
    \A j \in Jtis :
        /\ seen[j] # NoTime => seen[j] = lastAccept[j] /\ j \notin dropped
        /\ (seen[j] = NoTime /\ lastAccept[j] # NoTime /\ j \notin dropped)
               => Evictors # {} /\ lastAccept[j] + TTL <= clock

\* Acceptances happen inside the iat window of the proof.
AcceptedInWindow ==
    \A j \in Jtis : lastAccept[j] # NoTime =>
        /\ lastAccept[j] - iat[j] <= Skew
        /\ iat[j] - lastAccept[j] <= Skew

\* Distances between acceptances are bounded from both sides.
GapsBounded == \A g \in gaps : g >= TTL - Slack /\ g <= 2 * Skew

ReplayInv ==
    /\ TypeOK
    /\ ReadingsLag
    /\ EntriesAreAcceptances
    /\ AcceptedInWindow
    /\ GapsBounded

\* Type correctness of the verifier's and the cache's state.
THEOREM ReplayTypeCorrect == Spec => []TypeOK
<1>1. Init => TypeOK
  BY ReplayAssumption DEF Init, TypeOK, NoTime
<1>2. ASSUME TypeOK, [Next]_vars PROVE TypeOK'
  <2> USE <1>2, ReplayAssumption DEF TypeOK, NoTime
  <2>1. ASSUME NEW t \in Tasks, NEW j \in Jtis, Submit(t, j) PROVE TypeOK'
    BY <2>1 DEF Submit
  <2>2. ASSUME NEW r \in inflight, CheckAndRecord(r) PROVE TypeOK'
    <3>1. r.jti \in Jtis /\ r.now \in Nat
      OBVIOUS
    <3>2. CASE Replayed(r.jti, r.now)
      BY <2>2, <3>2 DEF CheckAndRecord
    <3>3. CASE ~Replayed(r.jti, r.now)
      <4>1. Put(r.jti, r.now) /\ RecordAcceptance(r.jti, r.now)
        BY <2>2, <3>3 DEF CheckAndRecord
      <4>2. seen' \in [Jtis -> Nat \cup {NoTime}] /\ dropped' \subseteq Jtis
        BY <3>1, <4>1 DEF Put
      <4>3. lastAccept' \in [Jtis -> Nat \cup {NoTime}]
        BY <3>1, <4>1 DEF RecordAcceptance
      <4>4. gaps' \subseteq Int
        <5>1. r.now - lastAccept[r.jti] \in Int
          BY <3>1
        <5>2. gaps' = gaps \/ gaps' = gaps \cup {r.now - lastAccept[r.jti]}
          BY <4>1 DEF RecordAcceptance
        <5>3. QED BY <5>1, <5>2
      <4>5. QED BY <2>2, <4>2, <4>3, <4>4 DEF CheckAndRecord
    <3>4. QED BY <3>2, <3>3
  <2>3. ASSUME NEW e \in Evictors, StartSweep(e) PROVE TypeOK'
    BY <2>3 DEF StartSweep
  <2>4. ASSUME NEW s \in sweeps, EvictExpired(s) PROVE TypeOK'
    BY <2>4 DEF EvictExpired
  <2>5. CASE Tick
    BY <2>5 DEF Tick
  <2>6. CASE UNCHANGED vars
    BY <2>6 DEF vars
  <2>7. QED BY <2>1, <2>2, <2>3, <2>4, <2>5, <2>6 DEF Next
<1>3. QED BY <1>1, <1>2, PTL DEF Spec

\* The inductive invariant holds at the start.
LEMMA ReplayInvInit == Init => ReplayInv
  BY ReplayAssumption DEF Init, ReplayInv, TypeOK, NoTime, ReadingsLag,
     EntriesAreAcceptances, AcceptedInWindow, GapsBounded

\* Every step of a request, a sweep or the clock keeps it.
LEMMA ReplayInvStep == ReplayInv /\ [Next]_vars /\ TypeOK' => ReplayInv'
<1> SUFFICES ASSUME ReplayInv, [Next]_vars, TypeOK' PROVE ReplayInv'
  OBVIOUS
<1> USE ReplayAssumption DEF ReplayInv, TypeOK, NoTime
<1>1. ASSUME NEW t \in Tasks, NEW j \in Jtis, Submit(t, j) PROVE ReplayInv'
  <2>1. ReadingsLag'
    BY <1>1 DEF Submit, ReadingsLag, IatWithinTolerance, Saturating
  <2>2. EntriesAreAcceptances' /\ AcceptedInWindow' /\ GapsBounded'
    BY <1>1 DEF Submit, EntriesAreAcceptances, AcceptedInWindow, GapsBounded
  <2>3. QED BY <2>1, <2>2
<1>2. ASSUME NEW r \in inflight, CheckAndRecord(r) PROVE ReplayInv'
  <2>1. ReadingsLag'
    BY <1>2 DEF CheckAndRecord, ReadingsLag
  <2>2. CASE Replayed(r.jti, r.now)
    BY <1>2, <2>1, <2>2 DEF CheckAndRecord, EntriesAreAcceptances,
       AcceptedInWindow, GapsBounded
  <2>3. CASE ~Replayed(r.jti, r.now)
    <3>1. /\ Put(r.jti, r.now) /\ RecordAcceptance(r.jti, r.now)
          /\ UNCHANGED <<clock, iat>>
      BY <1>2, <2>3 DEF CheckAndRecord
    <3>2. EntriesAreAcceptances'
      BY <3>1 DEF EntriesAreAcceptances, Put, RecordAcceptance
    <3>3. AcceptedInWindow'
      BY <3>1 DEF AcceptedInWindow, ReadingsLag, RecordAcceptance
    <3>4. GapsBounded'
      <4> DEFINE j == r.jti
      <4>1. CASE lastAccept[j] = NoTime \/ j \in dropped
        BY <3>1, <4>1 DEF GapsBounded, RecordAcceptance
      <4>2. CASE lastAccept[j] # NoTime /\ j \notin dropped
        <5>1. /\ r.now - lastAccept[j] >= TTL - Slack
              /\ r.now - lastAccept[j] <= 2 * Skew
          <6>1. r.now - lastAccept[j] <= 2 * Skew
            BY <4>2 DEF AcceptedInWindow, ReadingsLag
          <6>2. CASE seen[j] # NoTime
            BY <2>3, <4>2, <6>1, <6>2 DEF Replayed, Saturating, Slack,
               EntriesAreAcceptances
          <6>3. CASE seen[j] = NoTime
            BY <4>2, <6>1, <6>3 DEF EntriesAreAcceptances, Slack, ReadingsLag
          <6>4. QED BY <6>2, <6>3
        <5>2. gaps' = gaps \cup {r.now - lastAccept[j]}
          BY <3>1, <4>2 DEF RecordAcceptance
        <5>3. QED BY <5>1, <5>2 DEF GapsBounded
      <4>3. QED BY <4>1, <4>2
    <3>5. QED BY <2>1, <3>2, <3>3, <3>4
  <2>4. QED BY <2>2, <2>3
<1>3. ASSUME NEW e \in Evictors, StartSweep(e) PROVE ReplayInv'
  BY <1>3 DEF StartSweep, ReadingsLag, EntriesAreAcceptances,
     AcceptedInWindow, GapsBounded
<1>4. ASSUME NEW s \in sweeps, EvictExpired(s) PROVE ReplayInv'
  <2>1. ReadingsLag' /\ AcceptedInWindow' /\ GapsBounded'
    BY <1>4 DEF EvictExpired, ReadingsLag, AcceptedInWindow, GapsBounded
  <2>2. s.task \in Evictors /\ s.now \in Nat /\ s.now <= clock
    BY DEF ReadingsLag
  <2>3. EntriesAreAcceptances'
    BY <1>4, <2>2 DEF EvictExpired, Expired, Saturating, EntriesAreAcceptances
  <2>4. QED BY <2>1, <2>3
<1>5. CASE Tick
  BY <1>5 DEF Tick, ReadingsLag, EntriesAreAcceptances, AcceptedInWindow,
     GapsBounded
<1>6. CASE UNCHANGED vars
  BY <1>6 DEF vars, ReadingsLag, EntriesAreAcceptances, AcceptedInWindow,
     GapsBounded
<1>7. QED BY <1>1, <1>2, <1>3, <1>4, <1>5, <1>6 DEF Next

\* The cache, the history and the readings in flight stay related as ReplayInv
\* says, for every TTL, cache size, skew and set of requests.
THEOREM ReplayInvariant == Spec => []ReplayInv
  BY ReplayInvInit, ReplayInvStep, ReplayTypeCorrect, PTL DEF Spec

\* check_and_record accepts a jti twice only TTL apart (less the lock wait when
\* an evictor runs), unless capacity dropped it in between.
THEOREM AcceptancesAreTtlApart == Spec => []AcceptancesTtlApart
<1>1. ReplayInv => AcceptancesTtlApart
  BY DEF ReplayInv, GapsBounded, AcceptancesTtlApart
<1>2. QED BY <1>1, ReplayInvariant, PTL

\* verify_dpop_proof accepts a jti anew only within two skews of the last time,
\* unless capacity dropped it in between.
THEOREM ReacceptedOnlyInWindow == Spec => []ReacceptedInIatWindow
<1>1. ReplayInv => ReacceptedInIatWindow
  BY DEF ReplayInv, GapsBounded, ReacceptedInIatWindow
<1>2. QED BY <1>1, ReplayInvariant, PTL

\* With a TTL above twice the iat tolerance (plus the slack of the evictor),
\* verify_dpop_proof accepts no proof twice.
THEOREM ProofAcceptedOnce ==
  ASSUME TTL > 2 * Skew + Slack
  PROVE  Spec => []AcceptedOnce
<1>1. ReplayInv => AcceptedOnce
  BY ReplayAssumption DEF ReplayInv, TypeOK, GapsBounded, AcceptedOnce, Slack
<1>2. QED BY <1>1, ReplayInvariant, PTL

\* Every verdict of check_and_record is justified by an acceptance of the same
\* jti less than TTL older, so a genuine proof is never taken for a replay.
THEOREM VerdictsJustified == Spec => NoFalseReplay
<1>1. ReplayInv /\ [Next]_vars =>
        [\A r \in inflight \ inflight' :
          /\ lastAccept'[r.jti] # NoTime
          /\ \/ lastAccept'[r.jti] = r.now
             \/ r.now - lastAccept'[r.jti] < TTL]_vars
  <2> SUFFICES ASSUME ReplayInv, Next, NEW r \in inflight \ inflight'
               PROVE  /\ lastAccept'[r.jti] # NoTime
                      /\ \/ lastAccept'[r.jti] = r.now
                         \/ r.now - lastAccept'[r.jti] < TTL
    BY DEF vars
  <2> USE ReplayAssumption DEF ReplayInv, TypeOK, NoTime
  <2>1. CheckAndRecord(r)
    BY DEF Next, Submit, CheckAndRecord, StartSweep, EvictExpired, Tick
  <2>2. CASE Replayed(r.jti, r.now)
    BY <2>1, <2>2 DEF CheckAndRecord, Replayed, Saturating,
       EntriesAreAcceptances, Put, RecordAcceptance
  <2>3. CASE ~Replayed(r.jti, r.now)
    BY <2>1, <2>3 DEF CheckAndRecord, RecordAcceptance
  <2>4. QED BY <2>2, <2>3
<1>2. QED BY <1>1, ReplayInvariant, PTL DEF NoFalseReplay, Spec

-----------------------------------------------------------------------------
(* What is kept of a sequence, here the recency list.                      *)

\* A set of naturals has a least member.
LEMMA LeastOf ==
    ASSUME NEW S, S # {}, S \subseteq Nat PROVE \E i \in S : \A j \in S : i <= j
<1>1. PICK R : R = OpToRel(<, Nat)
  OBVIOUS
<1>2. \A i, j \in Nat : <<j, i>> \in R <=> j < i
  BY <1>1 DEF OpToRel
<1>3. \E i \in S : \A j \in S : ~(<<j, i>> \in R)
  BY <1>1, WFMin, NatLessThanWellFounded
<1>4. PICK i \in S : \A j \in S : ~(<<j, i>> \in R)
  BY <1>3
<1>5. \A j \in S : i \in Nat /\ j \in Nat /\ ~(j < i)
  BY <1>2, <1>4
<1>6. \A j \in S : i <= j
  BY <1>5
<1> QED BY <1>6

\* A set of places in a sequence is finite.
LEMMA PlacesFinite ==
    ASSUME NEW b \in Nat, NEW K, \A x \in K : x \in 1..b
    PROVE IsFiniteSet(K)
<1>1. K \in SUBSET Nat /\ \A x \in K : x <= b
  OBVIOUS
<1> QED BY <1>1, FS_BoundedSetOfNaturals

\* Going one place on, the rank grows by one exactly at a place of the set.
LEMMA RankGrows ==
    ASSUME NEW b \in Nat, NEW K, \A x \in K : x \in 1..b, NEW i \in Nat
    PROVE /\ IsFiniteSet(K) /\ Rank(K, i) \in Nat /\ Rank(K, i) <= Cardinality(K)
          /\ Rank(K, i + 1) = IF i + 1 \in K THEN Rank(K, i) + 1 ELSE Rank(K, i)
<1>1. IsFiniteSet(K)
  BY PlacesFinite
<1>2. PICK S : S = {j \in K : j <= i}
  OBVIOUS
<1>3. PICK T : T = {j \in K : j <= i + 1}
  OBVIOUS
<1>4. S \in SUBSET K /\ i + 1 \notin S
  BY <1>2
<1>5. IsFiniteSet(S) /\ Cardinality(S) \in Nat /\ Cardinality(S) <= Cardinality(K)
  BY <1>1, <1>4, FS_Subset, FS_CardinalityType
<1>6. CASE i + 1 \in K
  <2>1. T = S \cup {i + 1}
    BY <1>2, <1>3, <1>6
  <2>2. Cardinality(T) = Cardinality(S) + 1
    BY <1>4, <1>5, <2>1, FS_AddElement
  <2> QED BY <1>1, <1>2, <1>3, <1>5, <1>6, <2>2 DEF Rank
<1>7. CASE i + 1 \notin K
  <2>1. T = S
    BY <1>2, <1>3, <1>7
  <2> QED BY <1>1, <1>2, <1>3, <1>5, <1>7, <2>1 DEF Rank
<1> QED BY <1>6, <1>7

\* Hence every number up to the size of the set is the rank of one of its places ...
LEMMA RankIsMet ==
    ASSUME NEW b \in Nat, NEW K, \A x \in K : x \in 1..b, NEW n \in 1..Cardinality(K)
    PROVE \E i \in K : Rank(K, i) = n
<1>1. IsFiniteSet(K) /\ Cardinality(K) \in Nat
  BY PlacesFinite, FS_CardinalityType
<1>2. Rank(K, b) = Cardinality(K)
  <2>1. {j \in K : j <= b} = K
    OBVIOUS
  <2> QED BY <2>1 DEF Rank
<1>3. Rank(K, 0) = 0
  <2>1. {j \in K : j <= 0} = {}
    OBVIOUS
  <2> QED BY <2>1, FS_EmptySet DEF Rank
<1>4. PICK U : U = {i \in Nat : Rank(K, i) >= n}
  OBVIOUS
<1>5. b \in U /\ U \subseteq Nat /\ U # {}
  BY <1>1, <1>2, <1>4
<1>6. PICK i \in U : \A j \in U : i <= j
  BY <1>5, LeastOf
<1>7. i \in Nat /\ Rank(K, i) >= n /\ i # 0
  BY <1>1, <1>3, <1>4, <1>6
<1>8. PICK h \in Nat : i = h + 1
  <2>1. i - 1 \in Nat /\ i = (i - 1) + 1
    BY <1>7
  <2> QED BY <2>1
<1>9. ~(Rank(K, h) >= n) /\ Rank(K, h) \in Nat
  BY <1>4, <1>6, <1>8, RankGrows
<1>10. Rank(K, h + 1) = IF h + 1 \in K THEN Rank(K, h) + 1 ELSE Rank(K, h)
  BY <1>8, RankGrows
<1>11. i \in K /\ Rank(K, i) = n
  BY <1>1, <1>7, <1>8, <1>9, <1>10
<1> QED BY <1>11

\* ... and of one only: the CHOOSE of Thinned has a single choice.
LEMMA RankIsOnce ==
    ASSUME NEW b \in Nat, NEW K, \A x \in K : x \in 1..b, NEW i \in K, NEW j \in K,
           Rank(K, i) = Rank(K, j)
    PROVE i = j
<1>1. ASSUME NEW x \in K, NEW y \in K, x < y PROVE Rank(K, x) # Rank(K, y)
  <2>1. PICK S, T : S = {z \in K : z <= x} /\ T = {z \in K : z <= y}
    OBVIOUS
  <2>2. S \in SUBSET T /\ y \in T /\ y \notin S
    BY <1>1, <2>1
  <2>3. IsFiniteSet(T)
    BY <2>1, PlacesFinite
  <2>4. Cardinality(S) # Cardinality(T)
    BY <2>2, <2>3, FS_Subset
  <2> QED BY <2>1, <2>4 DEF Rank
<1>2. i \in Nat /\ j \in Nat /\ (i < j \/ j < i \/ i = j)
  OBVIOUS
<1> QED BY <1>1, <1>2

\* A kept element stands at its rank.
LEMMA ThinnedAt ==
    ASSUME NEW b \in Nat, NEW P, \A x \in P : x \in 1..b, NEW seq, NEW i \in P
    PROVE /\ Rank(P, i) \in 1..Cardinality(P)
          /\ Thinned(seq, P)[Rank(P, i)] = seq[i]
<1>1. PICK h \in Nat : i = h + 1 /\ i \in Nat
  <2>1. i - 1 \in Nat /\ i = (i - 1) + 1 /\ i \in Nat
    OBVIOUS
  <2> QED BY <2>1
<1>2. Rank(P, i) \in Nat /\ Rank(P, i) <= Cardinality(P) /\ IsFiniteSet(P)
  BY <1>1, RankGrows
<1>3. Rank(P, i) = Rank(P, h) + 1 /\ Rank(P, h) \in Nat
  BY <1>1, RankGrows
<1>4. Rank(P, i) \in 1..Cardinality(P) /\ Cardinality(P) \in Nat
  BY <1>1, <1>2, <1>3, FS_CardinalityType
<1>5. PICK n : n = Rank(P, i)
  OBVIOUS
<1>6. PICK j : j = CHOOSE x \in P : Rank(P, x) = n
  OBVIOUS
<1>7. j \in P /\ Rank(P, j) = n
  BY <1>5, <1>6
<1>8. j = i
  BY <1>5, <1>7, RankIsOnce
<1>9. Thinned(seq, P)[n] = seq[j]
  BY <1>4, <1>5, <1>6 DEF Thinned
<1> QED BY <1>4, <1>5, <1>8, <1>9

\* Every element that is left was kept.
LEMMA ThinnedFrom ==
    ASSUME NEW b \in Nat, NEW P, \A x \in P : x \in 1..b, NEW seq, NEW n \in 1..Cardinality(P)
    PROVE \E i \in P : Rank(P, i) = n /\ Thinned(seq, P)[n] = seq[i]
<1>1. PICK i \in P : Rank(P, i) = n
  BY RankIsMet
<1>2. Thinned(seq, P)[n] = seq[i]
  BY <1>1, ThinnedAt
<1> QED BY <1>1, <1>2

\* What is left is a sequence, as long as there are places kept.
LEMMA ThinnedSeq ==
    ASSUME NEW T, NEW seq \in Seq(T), NEW P, P \subseteq DOMAIN seq
    PROVE /\ IsFiniteSet(P) /\ Cardinality(P) \in Nat /\ \A x \in P : x \in 1..Len(seq)
          /\ Thinned(seq, P) \in Seq(T) /\ Len(Thinned(seq, P)) = Cardinality(P)
<1>1. Len(seq) \in Nat /\ \A x \in P : x \in 1..Len(seq)
  BY LenProperties
<1>2. IsFiniteSet(P) /\ Cardinality(P) \in Nat
  BY <1>1, PlacesFinite, FS_CardinalityType
<1>3. ASSUME NEW n \in 1..Cardinality(P) PROVE Thinned(seq, P)[n] \in T
  <2>1. PICK i \in P : Thinned(seq, P)[n] = seq[i]
    BY <1>1, ThinnedFrom
  <2> QED BY <1>1, <2>1, ElementOfSeq
<1>4. \E f : Thinned(seq, P) = [n \in 1..Cardinality(P) |-> f[n]]
  <2>1. PICK f : f = [n \in 1..Cardinality(P) |-> seq[CHOOSE i \in P : Rank(P, i) = n]]
    OBVIOUS
  <2>2. f = [n \in 1..Cardinality(P) |-> f[n]]
    BY <2>1
  <2>3. Thinned(seq, P) = f
    BY <2>1, Zenon DEF Thinned
  <2> QED BY <2>2, <2>3
<1>5. Thinned(seq, P) \in [1..Cardinality(P) -> T]
  BY <1>3, <1>4
<1>6. Thinned(seq, P) \in Seq(T)
  BY <1>2, <1>5, SeqDef
<1>7. DOMAIN Thinned(seq, P) = 1..Cardinality(P)
  BY <1>5
<1>8. Len(Thinned(seq, P)) = Cardinality(P)
  BY <1>2, <1>6, <1>7, LenProperties
<1> QED BY <1>1, <1>2, <1>6, <1>8

\* Ranks follow the places.
LEMMA RankOrders ==
    ASSUME NEW b \in Nat, NEW K, \A x \in K : x \in 1..b, NEW i \in K, NEW j \in K,
           Rank(K, i) < Rank(K, j)
    PROVE i < j
<1>1. ASSUME j <= i PROVE FALSE
  <2>1. PICK S, T : S = {z \in K : z <= j} /\ T = {z \in K : z <= i}
    OBVIOUS
  <2>2. S \in SUBSET T
    BY <1>1, <2>1
  <2>3. IsFiniteSet(T) /\ \A x \in T : x \in 1..b
    BY <2>1, PlacesFinite
  <2>4. Cardinality(S) <= Cardinality(T) /\ Cardinality(T) \in Nat /\ Cardinality(S) \in Nat
    BY <2>2, <2>3, FS_Subset, FS_CardinalityType
  <2> QED BY <2>1, <2>4 DEF Rank
<1> QED BY <1>1

-----------------------------------------------------------------------------
(* The capacity of the cache.                                              *)

\* Removing keys from the recency list keeps the order of the others.
LEMMA PopKeepsOrder ==
    ASSUME NEW T, NEW list \in Seq(T), NEW S
    PROVE /\ LruPop(list, S) \in Seq(T) /\ Len(LruPop(list, S)) <= Len(list)
          /\ LruKeys(LruPop(list, S)) = LruKeys(list) \ S
          /\ (\E i \in DOMAIN list : list[i] \in S) => Len(LruPop(list, S)) < Len(list)
          /\ \A m, n \in DOMAIN LruPop(list, S) : m < n =>
                 \E i, j \in DOMAIN list : /\ i < j /\ LruPop(list, S)[m] = list[i]
                                           /\ LruPop(list, S)[n] = list[j]
<1>1. PICK P : P = {i \in DOMAIN list : list[i] \notin S}
  OBVIOUS
<1>2. PICK new : new = LruPop(list, S)
  OBVIOUS
<1>3. P \subseteq DOMAIN list /\ new = Thinned(list, P)
  BY <1>1, <1>2 DEF LruPop
<1>4. PICK b \in Nat : b = Len(list) /\ DOMAIN list = 1..b
  BY LenProperties
<1>5. /\ IsFiniteSet(P) /\ Cardinality(P) \in Nat /\ \A x \in P : x \in 1..b
      /\ new \in Seq(T) /\ Len(new) = Cardinality(P)
  BY <1>3, <1>4, ThinnedSeq
<1>6. DOMAIN new = 1..Cardinality(P) /\ b \in Nat /\ \A x \in P : x \in 1..b
  BY <1>4, <1>5, LenProperties
<1>7. ASSUME NEW n \in 1..Cardinality(P) PROVE \E i \in P : Rank(P, i) = n /\ new[n] = list[i]
  <2>1. \E i \in P : Rank(P, i) = n /\ Thinned(list, P)[n] = list[i]
    BY <1>6, ThinnedFrom
  <2> QED BY <1>3, <2>1
<1>8. ASSUME NEW i \in P PROVE Rank(P, i) \in 1..Cardinality(P) /\ new[Rank(P, i)] = list[i]
  <2>1. Rank(P, i) \in 1..Cardinality(P) /\ Thinned(list, P)[Rank(P, i)] = list[i]
    BY <1>6, ThinnedAt
  <2> QED BY <1>3, <2>1
<1>9. LruKeys(new) = LruKeys(list) \ S
  <2>1. \A k : k \in LruKeys(new) <=> \E n \in 1..Cardinality(P) : k = new[n]
    BY <1>5 DEF LruKeys
  <2>2. \A k : k \in LruKeys(list) <=> \E i \in DOMAIN list : k = list[i]
    BY <1>4 DEF LruKeys
  <2>3. \A k : k \in LruKeys(new) <=> \E i \in P : k = list[i]
    BY <1>7, <1>8, <2>1
  <2> QED BY <1>1, <2>2, <2>3
<1>10. IsFiniteSet(DOMAIN list) /\ Cardinality(DOMAIN list) = b
  <2>1. 1 \in Int /\ b \in Int
    OBVIOUS
  <2>2. IsFiniteSet(1..b) /\ Cardinality(1..b) = b
    BY <2>1, FS_Interval
  <2> QED BY <1>4, <2>2
<1>11. P \in SUBSET DOMAIN list
  BY <1>3
<1>12. Cardinality(P) <= b /\ (Cardinality(P) = b => P = DOMAIN list)
  BY <1>10, <1>11, FS_Subset
<1>13. (\E i \in DOMAIN list : list[i] \in S) => Len(new) < b
  BY <1>1, <1>5, <1>12
<1>14. ASSUME NEW m \in DOMAIN new, NEW n \in DOMAIN new, m < n
       PROVE \E i, j \in DOMAIN list : i < j /\ new[m] = list[i] /\ new[n] = list[j]
  <2>1. PICK i \in P : Rank(P, i) = m /\ new[m] = list[i]
    BY <1>6, <1>7
  <2>2. PICK j \in P : Rank(P, j) = n /\ new[n] = list[j]
    BY <1>6, <1>7
  <2>3. Rank(P, i) < Rank(P, j)
    BY <1>14, <2>1, <2>2
  <2>4. i < j
    BY <1>6, <2>3, RankOrders
  <2> QED BY <1>3, <2>1, <2>2, <2>4
<1> QED BY <1>2, <1>4, <1>5, <1>9, <1>12, <1>13, <1>14

\* The recency list names the entries, oldest acceptance first: whoever stands behind another was
\* accepted after it.  A dropped jti was overtaken by as many as the cache holds.
ListSound ==
    /\ order \in Seq(Jtis) /\ Len(order) <= MaxSize
    /\ LruKeys(order) = {j \in Jtis : seen[j] # NoTime}
    /\ \A p, q \in DOMAIN order : p < q => order[p] # order[q] /\ order[q] \in since[order[p]]
SinceSound ==
    /\ DOMAIN since = Jtis /\ \A j \in Jtis : IsFiniteSet(since[j])
    /\ \A j \in dropped : j \in Jtis /\ Cardinality(since[j]) >= MaxSize
CapacityInv == ListSound /\ SinceSound

\* The empty cache.
LEMMA CapacityInitial == Init => CapacityInv
<1> SUFFICES ASSUME Init PROVE CapacityInv
  OBVIOUS
<1>1. order = <<>> /\ seen = [j \in Jtis |-> NoTime] /\ since = [j \in Jtis |-> {}] /\ dropped = {}
  BY DEF Init
<1>2. LruKeys(order) = {}
  <2>1. Len(<<>>) = 0 /\ 1..0 = {}
    OBVIOUS
  <2> QED BY <1>1, <2>1 DEF LruKeys
<1>3. order \in Seq(Jtis) /\ Len(order) = 0 /\ DOMAIN order = {}
  BY <1>1
<1>4. ListSound
  BY <1>1, <1>2, <1>3, ReplayAssumption DEF ListSound
<1>5. SinceSound
  BY <1>1, FS_EmptySet DEF SinceSound
<1> QED BY <1>4, <1>5 DEF CapacityInv

\* A sweep shortens the list.
LEMMA SweepKeeps ==
    ASSUME CapacityInv, NEW s, EvictExpired(s)
    PROVE CapacityInv'
<1>1. PICK gone, new : gone = Expired(s.now) /\ new = LruPop(order, gone)
  OBVIOUS
<1>2. /\ seen' = [j \in Jtis |-> IF j \in gone THEN NoTime ELSE seen[j]] /\ order' = new
      /\ dropped' = dropped /\ since' = since
  BY <1>1 DEF EvictExpired
<1>3. order \in Seq(Jtis) /\ Len(order) <= MaxSize /\ MaxSize \in Nat
  BY ReplayAssumption DEF CapacityInv, ListSound
<1>4. /\ new \in Seq(Jtis) /\ Len(new) <= Len(order) /\ LruKeys(new) = LruKeys(order) \ gone
      /\ \A m, n \in DOMAIN new : m < n =>
             \E i, j \in DOMAIN order : i < j /\ new[m] = order[i] /\ new[n] = order[j]
  BY <1>1, <1>3, PopKeepsOrder
<1>5. Len(new) <= MaxSize
  <2>1. Len(new) \in Nat /\ Len(order) \in Nat
    BY <1>3, <1>4, LenProperties
  <2> QED BY <1>3, <1>4, <2>1
<1>6. LruKeys(new) = {j \in Jtis : seen'[j] # NoTime}
  BY <1>2, <1>4 DEF CapacityInv, ListSound
<1>7. ASSUME NEW p \in DOMAIN new, NEW q \in DOMAIN new, p < q
      PROVE new[p] # new[q] /\ new[q] \in since[new[p]]
  BY <1>4, <1>7 DEF CapacityInv, ListSound
<1>8. ListSound'
  BY <1>2, <1>4, <1>5, <1>6, <1>7 DEF ListSound
<1>9. SinceSound'
  BY <1>2 DEF CapacityInv, SinceSound
<1> QED BY <1>8, <1>9 DEF CapacityInv

\* An acceptance moves its jti to the end of the list, behind everything it comes after; what a
\* full cache drops for it has the rest of the list and the new jti accepted since.
LEMMA PutKeeps ==
    ASSUME CapacityInv, NEW j \in Jtis, NEW now \in Nat, Put(j, now), RecordAcceptance(j, now)
    PROVE CapacityInv'
<1>1. PICK victims, gone, new :
        /\ victims = LruVictims(order, j, MaxSize) /\ gone = victims \cup {j}
        /\ new = LruPop(order, gone)
  OBVIOUS
<1>2. /\ seen' = [k \in Jtis |-> IF k = j THEN now ELSE IF k \in victims THEN NoTime ELSE seen[k]]
      /\ order' = Append(new, j)
      /\ dropped' = {k \in Jtis \ {j} : k \in dropped \cup victims}
      /\ since' = [k \in Jtis |-> IF k = j THEN {} ELSE since[k] \cup {j}]
  BY <1>1 DEF Put, LruPut, RecordAcceptance
<1>3. /\ order \in Seq(Jtis) /\ Len(order) <= MaxSize /\ MaxSize \in Nat \ {0} /\ Len(order) \in Nat
      /\ DOMAIN order = 1..Len(order)
      /\ LruKeys(order) = {k \in Jtis : seen[k] # NoTime}
      /\ \A p, q \in DOMAIN order : p < q => order[p] # order[q] /\ order[q] \in since[order[p]]
      /\ \A k \in Jtis : IsFiniteSet(since[k])
      /\ \A k \in dropped : k \in Jtis /\ Cardinality(since[k]) >= MaxSize
  BY ReplayAssumption, LenProperties DEF CapacityInv, ListSound, SinceSound
<1>4. /\ new \in Seq(Jtis) /\ Len(new) <= Len(order) /\ LruKeys(new) = LruKeys(order) \ gone
      /\ (\E i \in DOMAIN order : order[i] \in gone) => Len(new) < Len(order)
      /\ \A m, n \in DOMAIN new : m < n =>
             \E i, h \in DOMAIN order : i < h /\ new[m] = order[i] /\ new[n] = order[h]
  <2>1. order \in Seq(Jtis)
    BY <1>3
  <2>2. new = LruPop(order, gone)
    BY <1>1
  <2> QED BY <2>1, <2>2, PopKeepsOrder
<1>5. Len(new) \in Nat /\ DOMAIN new = 1..Len(new) /\ \A n \in DOMAIN new : new[n] \in Jtis
  BY <1>4, LenProperties, ElementOfSeq
<1>6. victims = IF j \in LruKeys(order) \/ Len(order) < MaxSize THEN {} ELSE {order[1]}
  BY <1>1, <1>3 DEF LruVictims
<1>7. Len(new) < MaxSize
  <2>1. CASE j \in LruKeys(order)
    <3>1. \E i \in DOMAIN order : order[i] \in gone
      BY <1>1, <1>3, <2>1 DEF LruKeys
    <3> QED BY <1>3, <1>4, <1>5, <3>1
  <2>2. CASE Len(order) < MaxSize
    BY <1>3, <1>4, <1>5, <2>2
  <2>3. CASE j \notin LruKeys(order) /\ ~(Len(order) < MaxSize)
    <3>1. 1 \in DOMAIN order /\ order[1] \in gone
      BY <1>1, <1>3, <1>6, <2>3
    <3> QED BY <1>3, <1>4, <1>5, <3>1
  <2> QED BY <2>1, <2>2, <2>3
<1>8. /\ order' \in Seq(Jtis) /\ Len(order') = Len(new) + 1 /\ DOMAIN order' = 1..(Len(new) + 1)
      /\ \A n \in DOMAIN new : order'[n] = new[n]
      /\ order'[Len(new) + 1] = j
  BY <1>2, <1>4, <1>5, AppendProperties
<1>9. \A n \in DOMAIN order' : n \in DOMAIN new \/ n = Len(new) + 1
  BY <1>5, <1>8
<1>10. \A n \in DOMAIN new : n \in DOMAIN order' /\ new[n] # j
  <2>1. \A n \in DOMAIN new : n \in DOMAIN order'
    BY <1>5, <1>8
  <2>2. \A n \in DOMAIN new : new[n] \in LruKeys(new)
    BY <1>5 DEF LruKeys
  <2> QED BY <1>1, <1>4, <2>1, <2>2
<1>11. LruKeys(order') = {k \in Jtis : seen'[k] # NoTime}
  <2>1. \A k : k \in LruKeys(order') <=> k \in LruKeys(new) \/ k = j
    <3>1. \A k : k \in LruKeys(order') <=> \E n \in DOMAIN order' : k = order'[n]
      BY <1>8 DEF LruKeys
    <3>2. \A k : k \in LruKeys(new) <=> \E n \in DOMAIN new : k = new[n]
      BY <1>5 DEF LruKeys
    <3>3. Len(new) + 1 \in DOMAIN order'
      BY <1>5, <1>8
    <3> QED BY <1>8, <1>9, <1>10, <3>1, <3>2, <3>3
  <2>2. \A k \in Jtis : seen'[k] # NoTime <=> k = j \/ (k \notin victims /\ seen[k] # NoTime)
    BY <1>2, NoTimeAssumption
  <2>3. \A k : k \in LruKeys(new) <=> k \in Jtis /\ seen[k] # NoTime /\ k \notin victims /\ k # j
    <3>1. LruKeys(new) = {k \in Jtis : seen[k] # NoTime} \ (victims \cup {j})
      BY <1>1, <1>3, <1>4
    <3> QED BY <3>1
  <2>4. \A k : k \in LruKeys(order') <=> k \in Jtis /\ seen'[k] # NoTime
    BY <2>1, <2>2, <2>3
  <2> QED BY <2>4
<1>12. ASSUME NEW p \in DOMAIN order', NEW q \in DOMAIN order', p < q
       PROVE order'[p] # order'[q] /\ order'[q] \in since'[order'[p]]
  <2>1. p \in DOMAIN new
    BY <1>5, <1>8, <1>9, <1>12
  <2>2. order'[p] = new[p] /\ new[p] \in Jtis /\ new[p] # j
    BY <1>5, <1>8, <1>10, <2>1
  <2>3. since'[new[p]] = since[new[p]] \cup {j}
    BY <1>2, <2>2
  <2>4. CASE q = Len(new) + 1
    BY <1>8, <2>2, <2>3, <2>4
  <2>5. CASE q \in DOMAIN new
    <3>1. order'[q] = new[q]
      BY <1>8, <2>5
    <3>2. PICK i, h \in DOMAIN order : i < h /\ new[p] = order[i] /\ new[q] = order[h]
      BY <1>4, <1>12, <2>1, <2>5
    <3> QED BY <1>3, <2>2, <2>3, <3>1, <3>2
  <2> QED BY <1>9, <2>4, <2>5
<1>13. ListSound'
  BY <1>3, <1>5, <1>7, <1>8, <1>11, <1>12 DEF ListSound
<1>14. \A k \in Jtis : IsFiniteSet(since'[k])
  BY <1>2, <1>3, FS_EmptySet, FS_AddElement
<1>15. ASSUME NEW k \in dropped' PROVE k \in Jtis /\ Cardinality(since'[k]) >= MaxSize
  <2>1. k \in Jtis /\ k # j /\ (k \in dropped \/ k \in victims)
    BY <1>2, <1>15
  <2>2. since'[k] = since[k] \cup {j} /\ IsFiniteSet(since'[k])
    BY <1>2, <1>14, <2>1
  <2>3. CASE k \in dropped
    <3>1. since[k] \in SUBSET since'[k]
      BY <2>2
    <3>2. Cardinality(since[k]) <= Cardinality(since'[k])
      BY <2>2, <3>1, FS_Subset
    <3>3. Cardinality(since[k]) \in Nat /\ Cardinality(since'[k]) \in Nat
      BY <1>3, <2>1, <2>2, FS_CardinalityType
    <3> QED BY <1>3, <2>1, <2>3, <3>2, <3>3
  <2>4. CASE k \in victims
    <3>1. k = order[1] /\ Len(order) = MaxSize /\ j \notin LruKeys(order)
      <4>1. j \notin LruKeys(order) /\ ~(Len(order) < MaxSize) /\ k = order[1]
        BY <1>6, <2>4
      <4>2. Len(order) \in Nat /\ MaxSize \in Nat /\ Len(order) <= MaxSize
        BY <1>3
      <4> QED BY <4>1, <4>2
    <3>2. PICK f : f = [n \in 1..MaxSize |-> IF n < MaxSize THEN order[n + 1] ELSE j]
      OBVIOUS
    <3>3. ASSUME NEW n \in 1..MaxSize, n < MaxSize
          PROVE n + 1 \in DOMAIN order /\ f[n] = order[n + 1] /\ f[n] \in since'[k] /\ f[n] # j
      <4>1. n + 1 \in DOMAIN order /\ 1 \in DOMAIN order /\ 1 < n + 1
        BY <1>3, <3>1, <3>3
      <4>2. f[n] = order[n + 1]
        BY <3>2, <3>3
      <4>3. order[n + 1] \in since[order[1]]
        BY <1>3, <4>1
      <4>4. order[n + 1] \in LruKeys(order)
        BY <1>3, <4>1 DEF LruKeys
      <4> QED BY <2>2, <3>1, <4>1, <4>2, <4>3, <4>4
    <3>4. MaxSize \in 1..MaxSize /\ f[MaxSize] = j /\ j \in since'[k]
      BY <1>3, <2>2, <3>2
    <3>5. \A n \in 1..MaxSize : n < MaxSize \/ n = MaxSize
      BY <1>3
    <3>6. f \in [1..MaxSize -> since'[k]]
      BY <3>2, <3>3, <3>4, <3>5
    <3>7. ASSUME NEW m \in 1..MaxSize, NEW n \in 1..MaxSize, m < n PROVE f[m] # f[n]
      <4>1. m < MaxSize
        BY <1>3, <3>7
      <4>2. CASE n = MaxSize
        BY <3>3, <3>4, <4>1, <4>2
      <4>3. CASE n < MaxSize
        <5>1. m + 1 < n + 1
          BY <3>7
        <5> QED BY <1>3, <3>3, <4>1, <4>3, <5>1
      <4> QED BY <3>5, <4>2, <4>3
    <3>8. \A m, n \in 1..MaxSize : f[m] = f[n] => m = n
      <4>1. \A m, n \in 1..MaxSize : m < n \/ n < m \/ m = n
        OBVIOUS
      <4> QED BY <3>7, <4>1
    <3>9. f \in Injection(1..MaxSize, since'[k])
      BY <3>6, <3>8 DEF Injection, IsInjective
    <3>10. Cardinality(1..MaxSize) <= Cardinality(since'[k])
      BY <2>2, <3>9, FS_Injection
    <3>11. Cardinality(1..MaxSize) = MaxSize
      <4>1. MaxSize \in Int /\ 1 \in Int
        BY <1>3
      <4>2. Cardinality(1..MaxSize) = IF 1 > MaxSize THEN 0 ELSE MaxSize - 1 + 1
        BY <4>1, FS_Interval
      <4> QED BY <1>3, <4>2
    <3>12. Cardinality(since'[k]) \in Nat
      BY <2>2, FS_CardinalityType
    <3> QED BY <1>3, <2>1, <3>10, <3>11, <3>12
  <2> QED BY <2>1, <2>3, <2>4
<1>16. SinceSound'
  BY <1>2, <1>14, <1>15 DEF SinceSound
<1> QED BY <1>13, <1>16 DEF CapacityInv

\* A refused replay, a request or a sweep under way and the clock leave the list alone.
LEMMA CapacitySteps == TypeOK /\ CapacityInv /\ [Next]_vars => CapacityInv'
<1> SUFFICES ASSUME TypeOK, CapacityInv, [Next]_vars PROVE CapacityInv'
  OBVIOUS
<1>1. ASSUME UNCHANGED <<seen, order, dropped, since>> PROVE CapacityInv'
  BY <1>1 DEF CapacityInv, ListSound, SinceSound
<1>2. ASSUME NEW r \in inflight, CheckAndRecord(r) PROVE CapacityInv'
  <2>1. r.jti \in Jtis /\ r.now \in Nat
    BY DEF TypeOK
  <2>2. CASE Replayed(r.jti, r.now)
    BY <1>1, <1>2, <2>2 DEF CheckAndRecord
  <2>3. CASE ~Replayed(r.jti, r.now)
    <3>1. Put(r.jti, r.now) /\ RecordAcceptance(r.jti, r.now)
      BY <1>2, <2>3 DEF CheckAndRecord
    <3> QED BY <2>1, <3>1, PutKeeps
  <2> QED BY <2>2, <2>3
<1>3. ASSUME NEW t \in Tasks, NEW j \in Jtis, Submit(t, j) PROVE CapacityInv'
  BY <1>1, <1>3 DEF Submit
<1>4. ASSUME NEW e \in Evictors, StartSweep(e) PROVE CapacityInv'
  BY <1>1, <1>4 DEF StartSweep
<1>5. CASE Tick
  BY <1>1, <1>5 DEF Tick
<1>6. CASE UNCHANGED vars
  BY <1>1, <1>6 DEF vars
<1> QED BY <1>2, <1>3, <1>4, <1>5, <1>6, SweepKeeps DEF Next

\* The replay cache holds at most max_size entries, its recency list names exactly them, and
\* capacity makes it forget a jti only after max_size other jtis were accepted since: for every
\* capacity, TTL, number of requests and of evictors, and any delays between clock and lock.
THEOREM CapacityWindowHolds == Spec => []CapacityWindow
<1>1. CapacityInv => CapacityWindow
  BY DEF CapacityInv, ListSound, SinceSound, CapacityWindow
<1> QED BY <1>1, CapacityInitial, CapacitySteps, ReplayTypeCorrect, PTL DEF Spec
=============================================================================
