--------------------------- MODULE ServicesProofs ---------------------------
(***************************************************************************)
(* Proofs about the services around the pod, for every value of the           *)
(* constants.  The services share no state, so a step of Services is a step   *)
(* or a stutter of each of them and each is proved on its own.                *)
(***************************************************************************)
EXTENDS Services, FiniteSetTheorems, SequenceTheorems, TLAPS

----------------------------------------------------------------------------
(* A step of the system, seen by one service.                               *)

LEMMA SceneSteps ==
    ASSUME [Next]_vars
    PROVE /\ [CeremonyNext]_ceremonyVars
          /\ [KeyNext]_keyVars
          /\ [QuotaNext]_quotaVars
          /\ [InboxNext]_inboxVars
          /\ [RelayNext]_relayVars
          /\ [LegacyNext]_legacyVars
          /\ [SessionNext]_sessionVars
          /\ [GitNext]_gitVars
          /\ [ProvisionNext]_provisionVars
          /\ [TrackerNext]_trackerVars
          /\ [SignInNext]_signInVars
<1>1. CASE UNCHANGED vars
  BY <1>1 DEF vars
<1>2. CASE Next
  <2> USE DEF OthersRest
  <2>1. [CeremonyNext]_ceremonyVars
    BY <1>2 DEF Next
  <2>2. [KeyNext]_keyVars
    BY <1>2 DEF Next
  <2>3. [QuotaNext]_quotaVars
    BY <1>2 DEF Next
  <2>4. [InboxNext]_inboxVars
    BY <1>2 DEF Next
  <2>5. [RelayNext]_relayVars
    BY <1>2 DEF Next
  <2>6. [LegacyNext]_legacyVars
    BY <1>2 DEF Next
  <2>7. [SessionNext]_sessionVars
    BY <1>2 DEF Next
  <2>8. [GitNext]_gitVars
    BY <1>2 DEF Next
  <2>9. [ProvisionNext]_provisionVars
    BY <1>2 DEF Next
  <2>10. [TrackerNext]_trackerVars
    BY <1>2 DEF Next
  <2>11. [SignInNext]_signInVars
    BY <1>2 DEF Next
  <2> QED BY <2>1, <2>2, <2>3, <2>4, <2>5, <2>6, <2>7, <2>8, <2>9, <2>10, <2>11
<1> QED BY <1>1, <1>2

----------------------------------------------------------------------------
(* Optional values and chains.                                             *)

LEMMA TheOneIsIn == ASSUME NEW S, S # {} PROVE TheOne(S) \in S
BY DEF TheOne

LEMMA TheOneOfSome == ASSUME NEW e PROVE TheOne(Some(e)) = e
BY TheOneIsIn DEF Some

LEMMA AddedAtMostOne ==
    ASSUME NEW S, IsFiniteSet(S), NEW e
    PROVE /\ IsFiniteSet(S \cup {e}) /\ Cardinality(S \cup {e}) \in Nat
          /\ Cardinality(S \cup {e}) <= Cardinality(S) + 1
<1>1. PICK T : T = S \cup {e}
  OBVIOUS
<1>2. CASE e \in S
  <2>1. T = S
    BY <1>1, <1>2
  <2>2. Cardinality(S) \in Nat
    BY FS_CardinalityType
  <2>3. IsFiniteSet(T) /\ Cardinality(T) \in Nat /\ Cardinality(T) <= Cardinality(S) + 1
    BY <2>1, <2>2
  <2> QED BY <1>1, <2>3
<1>3. CASE e \notin S
  <2>1. Cardinality(S) \in Nat
    BY FS_CardinalityType
  <2>2. IsFiniteSet(T) /\ Cardinality(T) = Cardinality(S) + 1
    BY <1>1, <1>3, FS_AddElement
  <2> QED BY <1>1, <2>1, <2>2
<1> QED BY <1>2, <1>3

LEMMA LeastOf ==
    ASSUME NEW S, S # {}, S \subseteq Nat PROVE \E i \in S : \A j \in S : i <= j
<1>1. PICK R : R = OpToRel(<, Nat)
  OBVIOUS
<1>2. \A i, j \in Nat : <<j, i>> \in R <=> j < i
  BY <1>1 DEF OpToRel
<1>3. \E i \in S : \A j \in S : ~(<<j, i>> \in R)
  BY <1>1, WFMin, NatLessThanWellFounded
<1>4. PICK i \in S : \A j \in S : ~(<<j, i>> \in R)
  BY <1>3
<1>5. \A j \in S : i \in Nat /\ j \in Nat /\ ~(j < i)
  BY <1>2, <1>4
<1>6. \A j \in S : i <= j
  BY <1>5
<1> QED BY <1>6

\* A bounded set of numbers has a largest.
LEMMA GreatestOf ==
    ASSUME NEW b \in Nat, NEW S, S # {}, \A x \in S : x \in 1..b
    PROVE Max(S) \in S /\ \A y \in S : Max(S) >= y
<1>1. PICK U : U = {n \in Nat : \A y \in S : y <= n}
  OBVIOUS
<1>2. U # {} /\ U \subseteq Nat
  BY <1>1
<1>3. PICK m \in U : \A n \in U : m <= n
  BY <1>2, LeastOf
<1>4. m \in S
  <2>1. ASSUME m \notin S PROVE FALSE
    <3>1. \A y \in S : y < m
      BY <1>1, <2>1
    <3>2. m - 1 \in Nat /\ \A y \in S : y <= m - 1
      BY <1>1, <3>1
    <3>3. m - 1 \in U /\ m \in Nat
      BY <1>1, <3>2
    <3> QED BY <1>3, <3>3
  <2> QED BY <2>1
<1>5. \A y \in S : m >= y
  BY <1>1
<1>6. \E x \in S : \A y \in S : x >= y
  BY <1>4, <1>5
<1> QED BY <1>6, Zenon DEF Max

\* What a chain comes to is the result of one of its tests, or the default.
LEMMA ChainComesTo ==
    ASSUME NEW r, NEW chain, DOMAIN chain \subseteq Nat
    PROVE FirstOf(chain, r) = r \/ \E i \in DOMAIN chain : FirstOf(chain, r) = chain[i][1]
<1> DEFINE met == {i \in DOMAIN chain : chain[i][2]}
           first == CHOOSE i \in met : \A j \in met : i <= j
<1>1. FirstOf(chain, r) = IF met = {} THEN r ELSE chain[first][1]
  BY DEF FirstOf
<1>2. met \subseteq Nat /\ met \subseteq DOMAIN chain
  OBVIOUS
<1> HIDE DEF met
<1>3. met # {} => \E i \in met : \A j \in met : i <= j
  BY <1>2, LeastOf
<1>4. met # {} => first \in met
  BY <1>3
<1> QED BY <1>1, <1>2, <1>4

\* A chain of tests none of which results in r comes to r only if no test holds.
LEMMA ChainFallsThrough ==
    ASSUME NEW r, NEW chain, DOMAIN chain \subseteq Nat,
           \A i \in DOMAIN chain : chain[i][1] # r,
           FirstOf(chain, r) = r
    PROVE \A i \in DOMAIN chain : ~chain[i][2]
<1> DEFINE met == {i \in DOMAIN chain : chain[i][2]}
           first == CHOOSE i \in met : \A j \in met : i <= j
<1>1. ASSUME met # {} PROVE FALSE
  <2>1. met \subseteq Nat /\ met \subseteq DOMAIN chain
    OBVIOUS
  <2>2. FirstOf(chain, r) = chain[first][1]
    BY <1>1 DEF FirstOf
  <2> HIDE DEF met
  <2>3. \E i \in met : \A j \in met : i <= j
    BY <1>1, <2>1, LeastOf
  <2>4. first \in met
    BY <2>3
  <2> QED BY <2>1, <2>2, <2>4
<1> QED BY <1>1

----------------------------------------------------------------------------
(* What is kept of a sequence.                                             *)

\* A set of places in a sequence is finite.
LEMMA PlacesFinite ==
    ASSUME NEW b \in Nat, NEW K, \A x \in K : x \in 1..b
    PROVE IsFiniteSet(K)
<1>1. K \in SUBSET Nat /\ \A x \in K : x <= b
  OBVIOUS
<1> QED BY <1>1, FS_BoundedSetOfNaturals

\* Going one place on, the rank grows by one exactly at a place of the set.
LEMMA RankGrows ==
    ASSUME NEW b \in Nat, NEW K, \A x \in K : x \in 1..b, NEW i \in Nat
    PROVE /\ IsFiniteSet(K) /\ Rank(K, i) \in Nat /\ Rank(K, i) <= Cardinality(K)
          /\ Rank(K, i + 1) = IF i + 1 \in K THEN Rank(K, i) + 1 ELSE Rank(K, i)
<1>1. IsFiniteSet(K)
  BY PlacesFinite
<1>2. PICK S : S = {j \in K : j <= i}
  OBVIOUS
<1>3. PICK T : T = {j \in K : j <= i + 1}
  OBVIOUS
<1>4. S \in SUBSET K /\ i + 1 \notin S
  BY <1>2
<1>5. IsFiniteSet(S) /\ Cardinality(S) \in Nat /\ Cardinality(S) <= Cardinality(K)
  BY <1>1, <1>4, FS_Subset, FS_CardinalityType
<1>6. CASE i + 1 \in K
  <2>1. T = S \cup {i + 1}
    BY <1>2, <1>3, <1>6
  <2>2. Cardinality(T) = Cardinality(S) + 1
    BY <1>4, <1>5, <2>1, FS_AddElement
  <2> QED BY <1>1, <1>2, <1>3, <1>5, <1>6, <2>2 DEF Rank
<1>7. CASE i + 1 \notin K
  <2>1. T = S
    BY <1>2, <1>3, <1>7
  <2> QED BY <1>1, <1>2, <1>3, <1>5, <1>7, <2>1 DEF Rank
<1> QED BY <1>6, <1>7

\* Hence every number up to the size of the set is the rank of one of its places ...
LEMMA RankIsMet ==
    ASSUME NEW b \in Nat, NEW K, \A x \in K : x \in 1..b, NEW n \in 1..Cardinality(K)
    PROVE \E i \in K : Rank(K, i) = n
<1>1. IsFiniteSet(K) /\ Cardinality(K) \in Nat
  BY PlacesFinite, FS_CardinalityType
<1>2. Rank(K, b) = Cardinality(K)
  <2>1. {j \in K : j <= b} = K
    OBVIOUS
  <2> QED BY <2>1 DEF Rank
<1>3. Rank(K, 0) = 0
  <2>1. {j \in K : j <= 0} = {}
    OBVIOUS
  <2> QED BY <2>1, FS_EmptySet DEF Rank
<1>4. PICK U : U = {i \in Nat : Rank(K, i) >= n}
  OBVIOUS
<1>5. b \in U /\ U \subseteq Nat /\ U # {}
  BY <1>1, <1>2, <1>4
<1>6. PICK i \in U : \A j \in U : i <= j
  BY <1>5, LeastOf
<1>7. i \in Nat /\ Rank(K, i) >= n /\ i # 0
  BY <1>1, <1>3, <1>4, <1>6
<1>8. PICK h \in Nat : i = h + 1
  <2>1. i - 1 \in Nat /\ i = (i - 1) + 1
    BY <1>7
  <2> QED BY <2>1
<1>9. ~(Rank(K, h) >= n) /\ Rank(K, h) \in Nat
  BY <1>4, <1>6, <1>8, RankGrows
<1>10. Rank(K, h + 1) = IF h + 1 \in K THEN Rank(K, h) + 1 ELSE Rank(K, h)
  BY <1>8, RankGrows
<1>11. i \in K /\ Rank(K, i) = n
  BY <1>1, <1>7, <1>8, <1>9, <1>10
<1> QED BY <1>11

\* ... and of one only: the CHOOSE of Thinned has a single choice.
LEMMA RankIsOnce ==
    ASSUME NEW b \in Nat, NEW K, \A x \in K : x \in 1..b, NEW i \in K, NEW j \in K,
           Rank(K, i) = Rank(K, j)
    PROVE i = j
<1>1. ASSUME NEW x \in K, NEW y \in K, x < y PROVE Rank(K, x) # Rank(K, y)
  <2>1. PICK S, T : S = {z \in K : z <= x} /\ T = {z \in K : z <= y}
    OBVIOUS
  <2>2. S \in SUBSET T /\ y \in T /\ y \notin S
    BY <1>1, <2>1
  <2>3. IsFiniteSet(T)
    BY <2>1, PlacesFinite
  <2>4. Cardinality(S) # Cardinality(T)
    BY <2>2, <2>3, FS_Subset
  <2> QED BY <2>1, <2>4 DEF Rank
<1>2. i \in Nat /\ j \in Nat /\ (i < j \/ j < i \/ i = j)
  OBVIOUS
<1> QED BY <1>1, <1>2

\* A kept element stands at its rank.
LEMMA ThinnedAt ==
    ASSUME NEW b \in Nat, NEW P, \A x \in P : x \in 1..b, NEW seq, NEW i \in P
    PROVE /\ Rank(P, i) \in 1..Cardinality(P)
          /\ Thinned(seq, P)[Rank(P, i)] = seq[i]
<1>1. PICK h \in Nat : i = h + 1 /\ i \in Nat
  <2>1. i - 1 \in Nat /\ i = (i - 1) + 1 /\ i \in Nat
    OBVIOUS
  <2> QED BY <2>1
<1>2. Rank(P, i) \in Nat /\ Rank(P, i) <= Cardinality(P) /\ IsFiniteSet(P)
  BY <1>1, RankGrows
<1>3. Rank(P, i) = Rank(P, h) + 1 /\ Rank(P, h) \in Nat
  BY <1>1, RankGrows
<1>4. Rank(P, i) \in 1..Cardinality(P) /\ Cardinality(P) \in Nat
  BY <1>1, <1>2, <1>3, FS_CardinalityType
<1>5. PICK n : n = Rank(P, i)
  OBVIOUS
<1>6. PICK j : j = CHOOSE x \in P : Rank(P, x) = n
  OBVIOUS
<1>7. j \in P /\ Rank(P, j) = n
  BY <1>5, <1>6
<1>8. j = i
  BY <1>5, <1>7, RankIsOnce
<1>9. Thinned(seq, P)[n] = seq[j]
  BY <1>4, <1>5, <1>6 DEF Thinned
<1> QED BY <1>4, <1>5, <1>8, <1>9

\* Every element that is left was kept.
LEMMA ThinnedFrom ==
    ASSUME NEW b \in Nat, NEW P, \A x \in P : x \in 1..b, NEW seq, NEW n \in 1..Cardinality(P)
    PROVE \E i \in P : Rank(P, i) = n /\ Thinned(seq, P)[n] = seq[i]
<1>1. PICK i \in P : Rank(P, i) = n
  BY RankIsMet
<1>2. Thinned(seq, P)[n] = seq[i]
  BY <1>1, ThinnedAt
<1> QED BY <1>1, <1>2

\* What is left is a sequence, as long as there are places kept.
LEMMA ThinnedSeq ==
    ASSUME NEW T, NEW seq \in Seq(T), NEW P, P \subseteq DOMAIN seq
    PROVE /\ IsFiniteSet(P) /\ Cardinality(P) \in Nat /\ \A x \in P : x \in 1..Len(seq)
          /\ Thinned(seq, P) \in Seq(T) /\ Len(Thinned(seq, P)) = Cardinality(P)
<1>1. Len(seq) \in Nat /\ \A x \in P : x \in 1..Len(seq)
  BY LenProperties
<1>2. IsFiniteSet(P) /\ Cardinality(P) \in Nat
  BY <1>1, PlacesFinite, FS_CardinalityType
<1>3. ASSUME NEW n \in 1..Cardinality(P) PROVE Thinned(seq, P)[n] \in T
  <2>1. PICK i \in P : Thinned(seq, P)[n] = seq[i]
    BY <1>1, ThinnedFrom
  <2> QED BY <1>1, <2>1, ElementOfSeq
<1>4. \E f : Thinned(seq, P) = [n \in 1..Cardinality(P) |-> f[n]]
  <2>1. PICK f : f = [n \in 1..Cardinality(P) |-> seq[CHOOSE i \in P : Rank(P, i) = n]]
    OBVIOUS
  <2>2. f = [n \in 1..Cardinality(P) |-> f[n]]
    BY <2>1
  <2>3. Thinned(seq, P) = f
    BY <2>1, Zenon DEF Thinned
  <2> QED BY <2>2, <2>3
<1>5. Thinned(seq, P) \in [1..Cardinality(P) -> T]
  BY <1>3, <1>4
<1>6. Thinned(seq, P) \in Seq(T)
  BY <1>2, <1>5, SeqDef
<1>7. DOMAIN Thinned(seq, P) = 1..Cardinality(P)
  BY <1>5
<1>8. Len(Thinned(seq, P)) = Cardinality(P)
  BY <1>2, <1>6, <1>7, LenProperties
<1> QED BY <1>1, <1>2, <1>6, <1>8

----------------------------------------------------------------------------
(* Ceremonies.                                                             *)

CeremonyKinds == {"schnorr", "register", "authenticate"}
Drawings == [kind : CeremonyKinds, account : Accounts, at : Nat]
Asserted == [kind : CeremonyKinds, account : Accounts, challenge : Nat, at : Nat]

CeremonyShape ==
    /\ ceremonyTime \in Nat /\ drawn \in Seq(Drawings) /\ successes \in Seq(Asserted)
    /\ DOMAIN challenges = Accounts /\ DOMAIN registering = Accounts
    /\ DOMAIN authenticating = Accounts /\ DOMAIN credentials = Accounts
    /\ DOMAIN verifying = CeremonyTasks

\* n was drawn for this kind of ceremony of this account
DrawnFor(n, kind, a) ==
    n \in 1..Len(drawn) /\ drawn[n].kind = kind /\ drawn[n].account = a

\* a ceremony in flight holds a challenge of its own kind and account
MapsOwn ==
    \A a \in Accounts :
        /\ \A n \in challenges[a] : DrawnFor(n, "schnorr", a)
        /\ \A r \in registering[a] : DrawnFor(r.challenge, "register", a)
        /\ \A r \in authenticating[a] : DrawnFor(r.challenge, "authenticate", a)

IsOpen(n) ==
    \E a \in Accounts :
        \/ n \in challenges[a]
        \/ \E r \in registering[a] : r.challenge = n
        \/ \E r \in authenticating[a] : r.challenge = n

\* a challenge that is being verified has left the maps and has one verifier
VerifiersOwn ==
    \A t \in CeremonyTasks : \A v \in verifying[t] :
        /\ v.kind \in CeremonyKinds
        /\ DrawnFor(v.challenge, v.kind, v.account) /\ ~IsOpen(v.challenge)
        /\ \A u \in CeremonyTasks : \A w \in verifying[u] :
              w.challenge = v.challenge => t = u

\* and one that was asserted is neither in a map nor being verified
SpentIsGone ==
    \A i \in DOMAIN successes :
        /\ successes[i].challenge \in 1..Len(drawn)
        /\ ~IsOpen(successes[i].challenge)
        /\ \A t \in CeremonyTasks : \A v \in verifying[t] :
              v.challenge # successes[i].challenge

CredentialsFinite == \A a \in Accounts : IsFiniteSet(credentials[a])

CeremonyInv ==
    /\ CeremonyShape /\ MapsOwn /\ VerifiersOwn /\ SpentIsGone
    /\ CredentialsFinite /\ CeremoniesSpentOnce

LEMMA CeremonyInitial == CeremonyInit => CeremonyInv
<1> SUFFICES ASSUME CeremonyInit PROVE CeremonyInv
  OBVIOUS
<1> USE DEF CeremonyInit, None
<1>1. /\ drawn \in Seq(Drawings) /\ successes \in Seq(Asserted)
      /\ DOMAIN successes = {}
  BY EmptySeq
<1>2. CeremonyShape /\ MapsOwn /\ VerifiersOwn /\ SpentIsGone
  BY <1>1 DEF CeremonyShape, MapsOwn, VerifiersOwn, SpentIsGone
<1>3. CredentialsFinite
  BY FS_EmptySet DEF CredentialsFinite
<1>4. CeremoniesSpentOnce
  <2>1. ASSUME NEW a \in Accounts
        PROVE Cardinality(credentials[a]) <= Cardinality({i \in DOMAIN successes :
                  successes[i].kind = "register" /\ successes[i].account = a})
    <3>1. credentials[a] = {} /\ {i \in DOMAIN successes :
              successes[i].kind = "register" /\ successes[i].account = a} = {}
      BY <1>1
    <3>2. Cardinality({}) = 0
      BY FS_EmptySet
    <3> QED BY <3>1, <3>2
  <2> QED BY <1>1, <2>1 DEF CeremoniesSpentOnce
<1> QED BY <1>2, <1>3, <1>4 DEF CeremonyInv

\* A challenge is drawn and at most it enters the maps.
LEMMA DrawKeepsCeremonies ==
    ASSUME CeremonyInv, NEW kind \in CeremonyKinds, NEW a \in Accounts, Draw(kind, a),
           UNCHANGED <<ceremonyTime, credentials, verifying, successes>>,
           DOMAIN challenges' = Accounts, DOMAIN registering' = Accounts,
           DOMAIN authenticating' = Accounts,
           \A b \in Accounts : \A m \in challenges'[b] :
               m \in challenges[b] \/ (kind = "schnorr" /\ b = a /\ m = Len(drawn')),
           \A b \in Accounts : \A r \in registering'[b] :
               r \in registering[b] \/ (kind = "register" /\ b = a /\ r.challenge = Len(drawn')),
           \A b \in Accounts : \A r \in authenticating'[b] :
               r \in authenticating[b] \/ (kind = "authenticate" /\ b = a /\ r.challenge = Len(drawn'))
    PROVE CeremonyInv'
<1> DEFINE n == Len(drawn)
<1>1. /\ CeremonyShape /\ MapsOwn /\ VerifiersOwn /\ SpentIsGone
      /\ CredentialsFinite /\ CeremoniesSpentOnce
  BY DEF CeremonyInv
<1>2. [kind |-> kind, account |-> a, at |-> ceremonyTime] \in Drawings
  BY <1>1 DEF CeremonyShape, Drawings
<1>3. /\ n \in Nat /\ drawn' \in Seq(Drawings) /\ Len(drawn') = n + 1
      /\ \A m \in 1..n : drawn'[m] = drawn[m]
      /\ drawn'[n + 1].kind = kind /\ drawn'[n + 1].account = a
  BY <1>1, <1>2, AppendProperties, LenProperties DEF CeremonyShape, Draw
<1> HIDE DEF n
<1>4. \A m, k, b : DrawnFor(m, k, b) => DrawnFor(m, k, b)' /\ m \in 1..n
  BY <1>3 DEF DrawnFor, n
<1>5. \A m : m = Len(drawn') => DrawnFor(m, kind, a)'
  BY <1>3 DEF DrawnFor
<1>6. CeremonyShape'
  BY <1>1, <1>3 DEF CeremonyShape
<1>7. MapsOwn'
  BY <1>1, <1>3, <1>4, <1>5 DEF MapsOwn
<1>8. \A m : IsOpen(m)' => IsOpen(m) \/ m = n + 1
  BY <1>3 DEF IsOpen
<1>9. VerifiersOwn'
  <2>1. \A t \in CeremonyTasks : \A v \in verifying[t] :
            /\ v.kind \in CeremonyKinds /\ DrawnFor(v.challenge, v.kind, v.account)
            /\ ~IsOpen(v.challenge) /\ v.challenge \in 1..n
    BY <1>1, <1>4 DEF VerifiersOwn
  <2>2. \A t \in CeremonyTasks : \A v \in verifying[t] :
            DrawnFor(v.challenge, v.kind, v.account)' /\ ~IsOpen(v.challenge)'
    BY <1>3, <1>4, <1>8, <2>1
  <2> QED BY <1>1, <2>1, <2>2 DEF VerifiersOwn
<1>10. SpentIsGone'
  <2>1. \A i \in DOMAIN successes :
            successes[i].challenge \in 1..n /\ ~IsOpen(successes[i].challenge)
    BY <1>1 DEF SpentIsGone, n
  <2>2. \A i \in DOMAIN successes :
            successes[i].challenge \in 1..(n + 1) /\ ~IsOpen(successes[i].challenge)'
    BY <1>3, <1>8, <2>1
  <2> QED BY <1>1, <1>3, <2>2 DEF SpentIsGone
<1>11. CredentialsFinite'
  BY <1>1 DEF CredentialsFinite
<1>12. CeremoniesSpentOnce'
  <2>1. \A i \in DOMAIN successes : drawn'[successes[i].challenge] = drawn[successes[i].challenge]
    BY <1>1, <1>3 DEF SpentIsGone, n
  <2> QED BY <1>1, <2>1 DEF CeremoniesSpentOnce
<1> QED BY <1>6, <1>7, <1>9, <1>10, <1>11, <1>12 DEF CeremonyInv

\* A verification takes a ceremony out of the maps.
LEMMA TakeKeepsCeremonies ==
    ASSUME CeremonyInv, NEW t \in CeremonyTasks, Free(t), NEW r, r.kind \in CeremonyKinds,
           verifying' = [verifying EXCEPT ![t] = Some(r)],
           DrawnFor(r.challenge, r.kind, r.account),
           IsOpen(r.challenge), ~IsOpen(r.challenge)',
           UNCHANGED <<ceremonyTime, drawn, credentials, successes>>,
           DOMAIN challenges' = Accounts, DOMAIN registering' = Accounts,
           DOMAIN authenticating' = Accounts,
           \A b \in Accounts : /\ challenges'[b] \subseteq challenges[b]
                               /\ registering'[b] \subseteq registering[b]
                               /\ authenticating'[b] \subseteq authenticating[b]
    PROVE CeremonyInv'
<1>1. /\ CeremonyShape /\ MapsOwn /\ VerifiersOwn /\ SpentIsGone
      /\ CredentialsFinite /\ CeremoniesSpentOnce
  BY DEF CeremonyInv
<1>2. \A m : IsOpen(m)' => IsOpen(m)
  BY DEF IsOpen
<1>3. \A m, k, b : DrawnFor(m, k, b)' <=> DrawnFor(m, k, b)
  BY DEF DrawnFor
<1>4. CeremonyShape' /\ MapsOwn'
  BY <1>1, <1>3 DEF CeremonyShape, MapsOwn
<1>5. /\ verifying'[t] = {r}
      /\ \A u \in CeremonyTasks \ {t} : verifying'[u] = verifying[u]
  BY <1>1 DEF CeremonyShape, Some
<1>6. \A u \in CeremonyTasks : \A v \in verifying[u] : v.challenge # r.challenge
  BY <1>1 DEF VerifiersOwn
<1>7. VerifiersOwn'
  <2>1. ASSUME NEW u \in CeremonyTasks, NEW v \in verifying'[u]
        PROVE /\ v.kind \in CeremonyKinds
              /\ DrawnFor(v.challenge, v.kind, v.account)' /\ ~IsOpen(v.challenge)'
              /\ \A s \in CeremonyTasks : \A w \in verifying'[s] :
                    w.challenge = v.challenge => u = s
    <3>1. CASE u = t
      BY <1>3, <1>5, <1>6, <2>1, <3>1
    <3>2. CASE u # t
      <4>1. v \in verifying[u]
        BY <1>5, <2>1, <3>2
      <4>2. /\ v.kind \in CeremonyKinds
            /\ DrawnFor(v.challenge, v.kind, v.account) /\ ~IsOpen(v.challenge)
            /\ \A s \in CeremonyTasks : \A w \in verifying[s] : w.challenge = v.challenge => u = s
        BY <1>1, <4>1 DEF VerifiersOwn
      <4>3. v.challenge # r.challenge
        BY <1>6, <4>1
      <4>4. \A s \in CeremonyTasks : \A w \in verifying'[s] : w.challenge = v.challenge => u = s
        BY <1>5, <4>2, <4>3
      <4> QED BY <1>2, <1>3, <4>2, <4>4
    <3> QED BY <3>1, <3>2
  <2> QED BY <2>1 DEF VerifiersOwn
<1>8. SpentIsGone'
  <2>1. \A i \in DOMAIN successes :
            /\ successes[i].challenge # r.challenge
            /\ ~IsOpen(successes[i].challenge)'
    BY <1>1, <1>2 DEF SpentIsGone
  <2> QED BY <1>1, <1>5, <2>1 DEF SpentIsGone
<1>9. CredentialsFinite' /\ CeremoniesSpentOnce'
  BY <1>1 DEF CredentialsFinite, CeremoniesSpentOnce
<1> QED BY <1>4, <1>7, <1>8, <1>9 DEF CeremonyInv

\* An assertion succeeds with a challenge that left the maps earlier.
LEMMA SuccessKeepsCeremonies ==
    ASSUME CeremonyInv, NEW t \in CeremonyTasks, NEW v \in verifying[t],
           v.kind = "schnorr" => SchnorrVerdict(v) = "ok",
           verifying' = [verifying EXCEPT ![t] = None],
           successes' = Append(successes, [kind |-> v.kind, account |-> v.account,
                                           challenge |-> v.challenge, at |-> ceremonyTime]),
           credentials' = IF v.kind = "register"
                          THEN [credentials EXCEPT ![v.account] = @ \cup {v.cred}] ELSE credentials,
           UNCHANGED <<ceremonyTime, drawn, challenges, registering, authenticating>>
    PROVE CeremonyInv'
<1> DEFINE n == Len(successes)
           s == [kind |-> v.kind, account |-> v.account,
                 challenge |-> v.challenge, at |-> ceremonyTime]
           Mine(q, a) == {i \in DOMAIN q : q[i].kind = "register" /\ q[i].account = a}
<1>1. /\ CeremonyShape /\ MapsOwn /\ VerifiersOwn /\ SpentIsGone
      /\ CredentialsFinite /\ CeremoniesSpentOnce
  BY DEF CeremonyInv
<1>2. /\ v.kind \in CeremonyKinds /\ ~IsOpen(v.challenge)
      /\ v.challenge \in 1..Len(drawn) /\ drawn[v.challenge].kind = v.kind
      /\ drawn[v.challenge].account = v.account /\ drawn[v.challenge] \in Drawings
      /\ \A u \in CeremonyTasks : \A w \in verifying[u] : w.challenge = v.challenge => t = u
  <2>1. \A m \in 1..Len(drawn) : drawn[m] \in Drawings
    BY <1>1, LenProperties DEF CeremonyShape
  <2> QED BY <1>1, <2>1 DEF VerifiersOwn, DrawnFor
<1>3. v.account \in Accounts /\ drawn[v.challenge].at \in Nat /\ v.challenge \in Nat
  BY <1>2 DEF Drawings
<1>4. s \in Asserted
  BY <1>1, <1>2, <1>3 DEF Asserted, CeremonyShape
<1>5. /\ n \in Nat /\ DOMAIN successes = 1..n
      /\ successes' \in Seq(Asserted) /\ DOMAIN successes' = 1..(n + 1)
      /\ \A i \in 1..n : successes'[i] = successes[i]
      /\ successes'[n + 1] = s
  BY <1>1, <1>4, AppendProperties, LenProperties DEF CeremonyShape
<1>6. s.kind = v.kind /\ s.account = v.account /\ s.challenge = v.challenge /\ s.at = ceremonyTime
  OBVIOUS
<1> HIDE DEF n, s
<1>7. \A i \in 1..n : successes[i].challenge # v.challenge
  BY <1>1, <1>5 DEF SpentIsGone
<1>8. /\ verifying'[t] = {}
      /\ \A u \in CeremonyTasks \ {t} : verifying'[u] = verifying[u]
  BY <1>1 DEF CeremonyShape, None
<1>9. \A m : IsOpen(m)' <=> IsOpen(m)
  BY DEF IsOpen
<1>10. CeremonyShape' /\ MapsOwn'
  BY <1>1, <1>5 DEF CeremonyShape, MapsOwn, DrawnFor
<1>11. VerifiersOwn'
  BY <1>1, <1>8, <1>9 DEF VerifiersOwn, DrawnFor
<1>12. SpentIsGone'
  <2>1. ASSUME NEW i \in 1..(n + 1)
        PROVE /\ successes'[i].challenge \in 1..Len(drawn)
              /\ ~IsOpen(successes'[i].challenge)
              /\ \A u \in CeremonyTasks : \A w \in verifying'[u] :
                    w.challenge # successes'[i].challenge
    <3>1. CASE i = n + 1
      BY <1>2, <1>5, <1>6, <1>8, <3>1
    <3>2. CASE i \in 1..n
      BY <1>1, <1>5, <1>8, <3>2 DEF SpentIsGone
    <3> QED BY <1>5, <3>1, <3>2
  <2> QED BY <1>5, <2>1 DEF SpentIsGone, IsOpen
<1>13. CredentialsFinite'
  <2>1. ASSUME NEW a \in Accounts PROVE IsFiniteSet(credentials'[a])
    <3>1. credentials'[a] = credentials[a] \/ credentials'[a] = credentials[a] \cup {v.cred}
      BY <1>1, <1>3 DEF CeremonyShape
    <3>2. IsFiniteSet(credentials[a])
      BY <1>1 DEF CredentialsFinite
    <3>3. IsFiniteSet(credentials[a] \cup {v.cred})
      BY <3>2, AddedAtMostOne
    <3> QED BY <3>1, <3>2, <3>3, Zenon
  <2> QED BY <2>1 DEF CredentialsFinite
<1>14. ASSUME NEW i \in 1..(n + 1), NEW j \in 1..(n + 1),
              successes'[i].challenge = successes'[j].challenge
       PROVE i = j
  BY <1>1, <1>5, <1>6, <1>7, <1>14 DEF CeremoniesSpentOnce
<1>15. ASSUME NEW i \in 1..(n + 1)
       PROVE /\ drawn[successes'[i].challenge].kind = successes'[i].kind
             /\ drawn[successes'[i].challenge].account = successes'[i].account
             /\ successes'[i].kind = "schnorr" =>
                   successes'[i].at - drawn[successes'[i].challenge].at <= ChallengeTtl
  <2>1. CASE i \in 1..n
    BY <1>1, <1>5, <2>1 DEF CeremoniesSpentOnce
  <2>2. CASE i = n + 1
    <3>1. v.kind = "schnorr" => ~(ceremonyTime - drawn[v.challenge].at > ChallengeTtl)
      <4> SUFFICES ASSUME SchnorrVerdict(v) = "ok"
                   PROVE ~(ceremonyTime - drawn[v.challenge].at > ChallengeTtl)
        OBVIOUS
      <4> DEFINE chain == <<
              <<"expired", ceremonyTime - drawn[v.challenge].at > ChallengeTtl>>,
              <<"parse", v.signed = Garbage>>,
              <<"bad signature", v.signed # Digest(v.challenge, v.account, v.key)>>>>
      <4>1. FirstOf(chain, "ok") = "ok"
        BY DEF SchnorrVerdict
      <4>2. DOMAIN chain = 1..3 /\ \A j \in 1..3 : chain[j][1] # "ok"
        OBVIOUS
      <4>3. chain[1][2] = (ceremonyTime - drawn[v.challenge].at > ChallengeTtl)
        OBVIOUS
      <4> HIDE DEF chain
      <4>4. DOMAIN chain \subseteq Nat /\ \A j \in DOMAIN chain : chain[j][1] # "ok"
        BY <4>2
      <4>5. \A j \in DOMAIN chain : ~chain[j][2]
        BY <4>1, <4>4, ChainFallsThrough
      <4>6. ~chain[1][2]
        BY <4>2, <4>5
      <4> QED BY <4>3, <4>6
    <3>2. ceremonyTime \in Nat
      BY <1>1 DEF CeremonyShape
    <3> QED BY <1>2, <1>3, <1>5, <1>6, <2>2, <3>1, <3>2, CeremonyAssumption
  <2> QED BY <1>5, <2>1, <2>2
<1>16. ASSUME NEW a \in Accounts
       PROVE Cardinality(credentials'[a]) <= Cardinality(Mine(successes', a))
  <2>1. Cardinality(credentials[a]) <= Cardinality(Mine(successes, a)) /\ IsFiniteSet(credentials[a])
    BY <1>1 DEF CeremoniesSpentOnce, CredentialsFinite
  <2>2. Mine(successes', a) = Mine(successes, a) \cup
            (IF v.kind = "register" /\ v.account = a THEN {n + 1} ELSE {})
    BY <1>5, <1>6
  <2>3. IsFiniteSet(Mine(successes, a)) /\ n + 1 \notin Mine(successes, a)
    <3>1. Mine(successes, a) \subseteq 1..n /\ IsFiniteSet(1..n)
      BY <1>5, FS_Interval
    <3> QED BY <1>5, <3>1, FS_Subset
  <2> HIDE DEF Mine
  <2>4. /\ Cardinality(Mine(successes, a)) \in Nat /\ Cardinality(credentials[a]) \in Nat
        /\ Cardinality(Mine(successes, a) \cup {n + 1}) = Cardinality(Mine(successes, a)) + 1
    BY <2>1, <2>3, FS_CardinalityType, FS_AddElement
  <2>5. CASE v.kind = "register" /\ v.account = a
    <3>1. /\ credentials'[a] = credentials[a] \cup {v.cred}
          /\ Mine(successes', a) = Mine(successes, a) \cup {n + 1}
      BY <1>1, <1>3, <2>2, <2>5 DEF CeremonyShape
    <3>2. PICK C : C = credentials[a] \cup {v.cred}
      OBVIOUS
    <3>3. Cardinality(C) \in Nat /\ Cardinality(C) <= Cardinality(credentials[a]) + 1
      BY <2>1, <3>2, AddedAtMostOne
    <3>4. credentials'[a] = C
      BY <3>1, <3>2
    <3>5. PICK M : M = Mine(successes, a) \cup {n + 1}
      OBVIOUS
    <3>6. Cardinality(M) = Cardinality(Mine(successes, a)) + 1
      BY <2>4, <3>5, Zenon
    <3>7. Mine(successes', a) = M
      BY <3>1, <3>5, Zenon
    <3>8. Cardinality(C) <= Cardinality(M)
      BY <2>1, <2>4, <3>3, <3>6
    <3> QED BY <3>4, <3>7, <3>8, Zenon
  <2>6. CASE ~(v.kind = "register" /\ v.account = a)
    <3>1. credentials'[a] = credentials[a] /\ Mine(successes', a) = Mine(successes, a)
      BY <1>1, <1>3, <2>2, <2>6 DEF CeremonyShape
    <3> QED BY <2>1, <3>1
  <2> QED BY <2>5, <2>6
<1>17. CeremoniesSpentOnce'
  BY <1>5, <1>14, <1>15, <1>16 DEF CeremoniesSpentOnce
<1> QED BY <1>10, <1>11, <1>12, <1>13, <1>17 DEF CeremonyInv

LEMMA CeremonySteps == CeremonyInv /\ [CeremonyNext]_ceremonyVars => CeremonyInv'
<1> SUFFICES ASSUME CeremonyInv, [CeremonyNext]_ceremonyVars PROVE CeremonyInv'
  OBVIOUS
<1>0. /\ CeremonyShape /\ MapsOwn /\ VerifiersOwn /\ SpentIsGone
      /\ CredentialsFinite /\ CeremoniesSpentOnce
  BY DEF CeremonyInv
<1>1. ASSUME NEW a \in Accounts, IssueChallenge(a) PROVE CeremonyInv'
  <2>1. /\ Draw("schnorr", a) /\ challenges' = [challenges EXCEPT ![a] = {Len(drawn')}]
        /\ UNCHANGED <<ceremonyTime, registering, authenticating, credentials, verifying, successes>>
    BY <1>1 DEF IssueChallenge, Some
  <2>2. "schnorr" \in CeremonyKinds
    BY DEF CeremonyKinds
  <2> QED BY <1>0, <2>1, <2>2, DrawKeepsCeremonies DEF CeremonyShape
<1>2. ASSUME NEW a \in Accounts, RegistrationOptions(a) PROVE CeremonyInv'
  <2>1. /\ Draw("register", a)
        /\ registering' = [registering EXCEPT ![a] =
               {[challenge |-> Len(drawn'), exclude |-> credentials[a]]}]
        /\ UNCHANGED <<ceremonyTime, challenges, authenticating, credentials, verifying, successes>>
    BY <1>2 DEF RegistrationOptions, Some
  <2>2. "register" \in CeremonyKinds
    BY DEF CeremonyKinds
  <2> QED BY <1>0, <2>1, <2>2, DrawKeepsCeremonies DEF CeremonyShape
<1>3. ASSUME NEW a \in Accounts, AuthenticationOptions(a) PROVE CeremonyInv'
  <2>1. /\ Draw("authenticate", a)
        /\ authenticating' = [authenticating EXCEPT ![a] =
               {[challenge |-> Len(drawn'), allow |-> credentials[a]]}]
        /\ UNCHANGED <<ceremonyTime, challenges, registering, credentials, verifying, successes>>
    BY <1>3 DEF AuthenticationOptions, Some
  <2>2. "authenticate" \in CeremonyKinds
    BY DEF CeremonyKinds
  <2> QED BY <1>0, <2>1, <2>2, DrawKeepsCeremonies DEF CeremonyShape
<1>4. ASSUME NEW t \in CeremonyTasks, NEW a \in Accounts, NEW k, NEW s, TakeChallenge(t, a, k, s)
      PROVE CeremonyInv'
  <2>1. PICK r : r = [kind |-> "schnorr", account |-> a, challenge |-> TheOne(challenges[a]),
                      key |-> k, signed |-> s]
    OBVIOUS
  <2>2. /\ Free(t) /\ r.challenge \in challenges[a] /\ r.kind = "schnorr" /\ r.account = a
        /\ challenges' = [challenges EXCEPT ![a] = {}]
        /\ verifying' = [verifying EXCEPT ![t] = Some(r)]
        /\ UNCHANGED <<ceremonyTime, drawn, registering, authenticating, credentials, successes>>
    BY <1>4, <2>1, TheOneIsIn DEF TakeChallenge, Remove, Drop, None
  <2>3. /\ r.kind \in CeremonyKinds /\ IsOpen(r.challenge)
        /\ DrawnFor(r.challenge, r.kind, r.account)
    BY <1>0, <2>2 DEF MapsOwn, IsOpen, CeremonyKinds
  <2>4. ~IsOpen(r.challenge)'
    BY <1>0, <2>2 DEF MapsOwn, IsOpen, DrawnFor, CeremonyShape
  <2> QED BY <1>0, <2>2, <2>3, <2>4, TakeKeepsCeremonies DEF CeremonyShape
<1>5. ASSUME NEW t \in CeremonyTasks, NEW a \in Accounts, NEW c, NEW s, TakeRegistration(t, a, c, s)
      PROVE CeremonyInv'
  <2>1. PICK r : r = [kind |-> "register", account |-> a, state |-> TheOne(registering[a]),
                      challenge |-> TheOne(registering[a]).challenge, cred |-> c, signed |-> s]
    OBVIOUS
  <2>2. /\ Free(t) /\ r.kind = "register" /\ r.account = a
        /\ \E x \in registering[a] : x.challenge = r.challenge
        /\ registering' = [registering EXCEPT ![a] = {}]
        /\ verifying' = [verifying EXCEPT ![t] = Some(r)]
        /\ UNCHANGED <<ceremonyTime, drawn, challenges, authenticating, credentials, successes>>
    BY <1>5, <2>1, TheOneIsIn DEF TakeRegistration, Remove, Drop, None
  <2>3. /\ r.kind \in CeremonyKinds /\ IsOpen(r.challenge)
        /\ DrawnFor(r.challenge, r.kind, r.account)
    BY <1>0, <2>2 DEF MapsOwn, IsOpen, CeremonyKinds
  <2>4. ~IsOpen(r.challenge)'
    BY <1>0, <2>2 DEF MapsOwn, IsOpen, DrawnFor, CeremonyShape
  <2> QED BY <1>0, <2>2, <2>3, <2>4, TakeKeepsCeremonies DEF CeremonyShape
<1>6. ASSUME NEW t \in CeremonyTasks, NEW c, NEW s, TakeAuthentication(t, c, s) PROVE CeremonyInv'
  <2>1. PICK a \in Accounts :
            /\ authenticating[a] # None
            /\ authenticating' = Remove(authenticating, a)
            /\ verifying' = [verifying EXCEPT ![t] =
                   Some([kind |-> "authenticate", account |-> a, state |-> TheOne(authenticating[a]),
                         challenge |-> TheOne(authenticating[a]).challenge, cred |-> c,
                         signed |-> s])]
    BY <1>6 DEF TakeAuthentication
  <2>2. PICK r : r = [kind |-> "authenticate", account |-> a, state |-> TheOne(authenticating[a]),
                      challenge |-> TheOne(authenticating[a]).challenge, cred |-> c, signed |-> s]
    OBVIOUS
  <2>3. /\ Free(t) /\ r.kind = "authenticate" /\ r.account = a
        /\ \E x \in authenticating[a] : x.challenge = r.challenge
        /\ authenticating' = [authenticating EXCEPT ![a] = {}]
        /\ verifying' = [verifying EXCEPT ![t] = Some(r)]
        /\ UNCHANGED <<ceremonyTime, drawn, challenges, registering, credentials, successes>>
    BY <1>6, <2>1, <2>2, TheOneIsIn DEF TakeAuthentication, Remove, Drop, None
  <2>4. /\ r.kind \in CeremonyKinds /\ IsOpen(r.challenge)
        /\ DrawnFor(r.challenge, r.kind, r.account)
    BY <1>0, <2>3 DEF MapsOwn, IsOpen, CeremonyKinds
  <2>5. ~IsOpen(r.challenge)'
    BY <1>0, <2>3 DEF MapsOwn, IsOpen, DrawnFor, CeremonyShape
  <2> QED BY <1>0, <2>3, <2>4, <2>5, TakeKeepsCeremonies DEF CeremonyShape
<1>7. ASSUME NEW t \in CeremonyTasks, FinishVerification(t) PROVE CeremonyInv'
  <2>1. PICK v \in verifying[t] : v = TheOne(verifying[t])
    BY <1>7, TheOneIsIn DEF FinishVerification, Free, None
  <2>2. /\ verifying' = [verifying EXCEPT ![t] = None]
        /\ UNCHANGED <<ceremonyTime, drawn, challenges, registering, authenticating>>
    BY <1>7 DEF FinishVerification
  <2>3. CASE UNCHANGED <<successes, credentials>>
    <3>1. \A u \in CeremonyTasks : verifying'[u] \subseteq verifying[u]
      BY <1>0, <2>2 DEF CeremonyShape, None
    <3>2. CeremonyShape' /\ MapsOwn' /\ CredentialsFinite' /\ CeremoniesSpentOnce'
      BY <1>0, <2>2, <2>3 DEF CeremonyShape, MapsOwn, DrawnFor, CredentialsFinite, CeremoniesSpentOnce
    <3>3. VerifiersOwn' /\ SpentIsGone'
      BY <1>0, <2>2, <2>3, <3>1 DEF VerifiersOwn, SpentIsGone, DrawnFor, IsOpen
    <3> QED BY <3>2, <3>3 DEF CeremonyInv
  <2>4. CASE ~UNCHANGED <<successes, credentials>>
    <3>1. /\ v.kind = "schnorr" => SchnorrVerdict(v) = "ok"
          /\ successes' = Append(successes, [kind |-> v.kind, account |-> v.account,
                                             challenge |-> v.challenge, at |-> ceremonyTime])
          /\ credentials' = IF v.kind = "register"
                            THEN [credentials EXCEPT ![v.account] = @ \cup {v.cred}] ELSE credentials
      BY <1>7, <2>1, <2>4 DEF FinishVerification
    <3> QED BY <2>2, <3>1, SuccessKeepsCeremonies
  <2> QED BY <2>3, <2>4
<1>8. ASSUME CeremonyTick \/ UNCHANGED ceremonyVars PROVE CeremonyInv'
  <2>1. /\ ceremonyTime' \in Nat /\ UNCHANGED verifying
        /\ UNCHANGED <<drawn, challenges, registering, authenticating, credentials, successes>>
    BY <1>0, <1>8 DEF CeremonyTick, ceremonyVars, CeremonyShape
  <2>2. CeremonyShape' /\ MapsOwn' /\ CredentialsFinite' /\ CeremoniesSpentOnce'
    BY <1>0, <2>1 DEF CeremonyShape, MapsOwn, DrawnFor, CredentialsFinite, CeremoniesSpentOnce
  <2>3. VerifiersOwn' /\ SpentIsGone'
    BY <1>0, <2>1 DEF VerifiersOwn, SpentIsGone, DrawnFor, IsOpen
  <2> QED BY <2>2, <2>3 DEF CeremonyInv
<1> QED BY <1>1, <1>2, <1>3, <1>4, <1>5, <1>6, <1>7, <1>8 DEF CeremonyNext

\* However verifications overlap with each other and with new challenges, no
\* challenge is good for two assertions, an assertion counts only for the
\* account and kind its challenge was drawn for, a Schnorr one only within its
\* lifetime, and no credential is registered without a successful ceremony.
THEOREM CeremonyChallengesSpentOnce == Spec => []CeremoniesSpentOnce
<1>1. CeremonyInv => CeremoniesSpentOnce
  BY DEF CeremonyInv
<1>2. CeremonyInv /\ [Next]_vars => CeremonyInv'
  BY SceneSteps, CeremonySteps
<1>3. Init => CeremonyInv
  BY CeremonyInitial DEF Init
<1> QED BY <1>1, <1>2, <1>3, PTL DEF Spec

----------------------------------------------------------------------------
(* Key rollover.                                                           *)

KeyShape ==
    /\ keyTime \in Nat /\ active \in 1..MaxKeys
    /\ retired \subseteq (1..(active - 1)) \X Nat
    /\ withdrawn \in [1..MaxKeys -> SUBSET (0..keyTime)]
    /\ DOMAIN fetches = Fetches

\* a key is retired once, and what is published or still to come was never withdrawn
RetiredOnce == \A e, f \in retired : e[1] = f[1] => e = f
PublishedStays ==
    /\ \A e \in retired : withdrawn[e[1]] = None
    /\ \A k \in active..MaxKeys : withdrawn[k] = None

\* an answer under way was published after its request was sent
AnswersKnow ==
    \A f \in Fetches :
        /\ fetches[f].at \in {"jwks", "answer"} =>
              fetches[f].since \in Nat /\ fetches[f].since <= keyTime
        /\ fetches[f].at = "answer" =>
              /\ fetches[f].keys \subseteq 1..MaxKeys
              /\ \A k \in fetches[f].keys : \A t \in withdrawn[k] : t >= fetches[f].since

\* a cached set is no older than its stamp less one request
CacheKnows ==
    \A c \in cache :
        /\ c.fetched \in Nat /\ c.fetched <= keyTime /\ c.keys \subseteq 1..MaxKeys
        /\ \A k \in c.keys : \A t \in withdrawn[k] : t >= c.fetched - FetchTimeout

KeyInv == KeyShape /\ RetiredOnce /\ PublishedStays /\ AnswersKnow /\ CacheKnows

LEMMA KeyInitial == KeyInit => KeyInv
BY KeyAssumption
DEF KeyInit, KeyInv, KeyShape, RetiredOnce, PublishedStays, AnswersKnow, CacheKnows,
    NoFetch, None

LEMMA KeySteps == KeyInv /\ [KeyNext]_keyVars => KeyInv'
<1> SUFFICES ASSUME KeyInv, [KeyNext]_keyVars PROVE KeyInv'
  OBVIOUS
<1> USE KeyAssumption DEF KeyInv, KeyShape, None
<1>1. CASE Rotate
  <2>1. KeyShape' /\ RetiredOnce'
    BY <1>1 DEF Rotate, RetiredOnce
  <2>2. PublishedStays'
    BY <1>1 DEF Rotate, PublishedStays
  <2>3. AnswersKnow' /\ CacheKnows'
    BY <1>1 DEF Rotate, AnswersKnow, CacheKnows
  <2> QED BY <2>1, <2>2, <2>3
<1>2. CASE PruneExpired
  <2> DEFINE kept == {e \in retired : keyTime - e[2] < Retention}
             gone == {e[1] : e \in retired \ kept}
  <2>1. /\ retired' = kept
        /\ withdrawn' = [k \in 1..MaxKeys |-> IF k \in gone THEN {keyTime} ELSE withdrawn[k]]
        /\ UNCHANGED <<keyTime, active, fetches, cache>>
    BY <1>2 DEF PruneExpired, Some
  <2>2. \A e \in kept : e \in retired /\ e[1] \notin gone
    BY DEF RetiredOnce
  <2>3. gone \subseteq 1..(active - 1)
    OBVIOUS
  <2> HIDE DEF kept, gone
  <2>4. \A k \in 1..MaxKeys : \A t \in withdrawn'[k] : t \in withdrawn[k] \/ t = keyTime
    BY <2>1
  <2>5. KeyShape' /\ RetiredOnce'
    BY <2>1, <2>2 DEF RetiredOnce
  <2>6. PublishedStays'
    BY <2>1, <2>2, <2>3 DEF PublishedStays
  <2>7. AnswersKnow' /\ CacheKnows'
    BY <2>1, <2>4 DEF AnswersKnow, CacheKnows
  <2> QED BY <2>5, <2>6, <2>7
<1>3. CASE KeyTick
  <2>1. KeyShape' /\ RetiredOnce' /\ PublishedStays'
    BY <1>3 DEF KeyTick, RetiredOnce, PublishedStays
  <2>2. AnswersKnow' /\ CacheKnows'
    BY <1>3 DEF KeyTick, AnswersKnow, CacheKnows
  <2> QED BY <2>1, <2>2
<1>4. ASSUME NEW f \in Fetches,
             FetchStart(f) \/ FetchConfig(f) \/ FetchFails(f)
      PROVE KeyInv'
  <2>1. KeyShape' /\ RetiredOnce' /\ PublishedStays' /\ CacheKnows'
    BY <1>4 DEF FetchStart, FetchConfig, FetchFails, RetiredOnce, PublishedStays, CacheKnows
  <2>2. AnswersKnow'
    BY <1>4 DEF FetchStart, FetchConfig, FetchFails, NoFetch, AnswersKnow
  <2> QED BY <2>1, <2>2
<1>5. ASSUME NEW f \in Fetches, IssuerAnswers(f) PROVE KeyInv'
  <2>1. KeyShape' /\ RetiredOnce' /\ PublishedStays' /\ CacheKnows'
    BY <1>5 DEF IssuerAnswers, RetiredOnce, PublishedStays, CacheKnows
  <2>2. PublicDocument \subseteq 1..MaxKeys /\ \A k \in PublicDocument : withdrawn[k] = {}
    BY DEF PublicDocument, PublishedStays
  <2>3. AnswersKnow'
    BY <1>5, <2>2 DEF IssuerAnswers, AnswersKnow
  <2> QED BY <2>1, <2>3
<1>6. ASSUME NEW f \in Fetches, FetchJwks(f) PROVE KeyInv'
  <2>1. KeyShape' /\ RetiredOnce' /\ PublishedStays'
    BY <1>6 DEF FetchJwks, RetiredOnce, PublishedStays
  <2>2. AnswersKnow'
    BY <1>6 DEF FetchJwks, NoFetch, AnswersKnow
  <2>3. CacheKnows'
    <3>1. /\ fetches[f].since \in Nat /\ keyTime - fetches[f].since <= FetchTimeout
          /\ fetches[f].keys \subseteq 1..MaxKeys
          /\ \A k \in fetches[f].keys : \A t \in withdrawn[k] : t >= fetches[f].since
          /\ cache' = {[fetched |-> keyTime, keys |-> fetches[f].keys]}
          /\ UNCHANGED <<keyTime, withdrawn>>
      BY <1>6 DEF FetchJwks, AnswersKnow, Some
    <3> QED BY <3>1 DEF CacheKnows
  <2> QED BY <2>1, <2>2, <2>3
<1>7. CASE UNCHANGED keyVars
  BY <1>7 DEF keyVars, RetiredOnce, PublishedStays, AnswersKnow, CacheKnows
<1> QED BY <1>1, <1>2, <1>3, <1>4, <1>5, <1>6, <1>7 DEF KeyNext

\* No key set served from the cache holds a key the issuer withdrew longer ago
\* than the lifetime of an entry and one request, however fetches overlap.
THEOREM StaleKeysAreBounded == Spec => []StaleKeysBounded
<1>1. KeyInv => StaleKeysBounded
  BY KeyAssumption DEF KeyInv, KeyShape, CacheKnows, StaleKeysBounded, CacheGet
<1>2. KeyInv /\ [Next]_vars => KeyInv'
  BY SceneSteps, KeySteps
<1>3. Init => KeyInv
  BY KeyInitial DEF Init
<1> QED BY <1>1, <1>2, <1>3, PTL DEF Spec

----------------------------------------------------------------------------
(* Inbox.                                                                  *)

InboxShape ==
    /\ effects \in Seq(Activities)
    /\ DOMAIN handling = InboxTasks
    /\ \A t \in InboxTasks : handling[t] \subseteq Activities

\* an activity whose effect is due is recorded, is due once and has not had it
EffectsDue ==
    \A t \in InboxTasks : \A a \in handling[t] :
        /\ a.id \in inboxRows
        /\ \A i \in DOMAIN effects : effects[i].id # a.id
        /\ \A u \in InboxTasks : \A b \in handling[u] : a.id = b.id => t = u

EffectsRecorded == \A i \in DOMAIN effects : effects[i].id \in inboxRows

InboxInv == InboxShape /\ EffectsDue /\ EffectsRecorded /\ InboxAppliedOnce

LEMMA InboxInitial == InboxInit => InboxInv
<1> SUFFICES ASSUME InboxInit PROVE InboxInv
  OBVIOUS
<1>1. effects \in Seq(Activities) /\ DOMAIN effects = {}
  BY EmptySeq DEF InboxInit
<1> QED BY <1>1
  DEF InboxInit, InboxInv, InboxShape, EffectsDue, EffectsRecorded, InboxAppliedOnce, None, Some

\* Any step that leaves effects, followers and what is accepted alone.
LEMMA QuietInboxStep ==
    ASSUME InboxInv, UNCHANGED <<effects, followers>>,
           DOMAIN following' = DOMAIN following,
           \A p \in DOMAIN following : following'[p] = Some(TRUE) => following[p] = Some(TRUE)
    PROVE InboxAppliedOnce'
<1>1. InboxAppliedOnce /\ effects' = effects /\ followers' = followers
  BY DEF InboxInv
<1>2. \A i, j \in DOMAIN effects' : effects'[i].id = effects'[j].id => i = j
  BY <1>1 DEF InboxAppliedOnce
<1>3. ASSUME NEW p \in followers'
      PROVE \E i \in DOMAIN effects' :
               /\ effects'[i].type = "Follow" /\ <<effects'[i].local, effects'[i].actor>> = p
               /\ \A j \in i + 1..Len(effects') :
                     ~(IsUndo(effects'[j]) /\ <<effects'[j].local, effects'[j].actor>> = p)
  BY <1>1, <1>3 DEF InboxAppliedOnce
<1>4. ASSUME NEW p \in DOMAIN following', following'[p] = Some(TRUE)
      PROVE \E i \in DOMAIN effects' :
               IsAccept(effects'[i]) /\ <<effects'[i].local, effects'[i].target>> = p
  BY <1>1, <1>4 DEF InboxAppliedOnce
<1> QED BY <1>2, <1>3, <1>4 DEF InboxAppliedOnce, IsUndo, IsAccept

\* The effect of an activity that is due.
LEMMA EffectKeepsInbox ==
    ASSUME InboxInv, NEW t \in InboxTasks, ApplyEffect(t) PROVE InboxInv'
<1> USE DEF InboxInv, InboxShape
<1> DEFINE a == TheOne(handling[t])
           them == <<a.local, a.actor>>
           asked == <<a.local, a.target>>
<1>1. /\ a \in handling[t] /\ a \in Activities
      /\ handling' = [handling EXCEPT ![t] = {}]
      /\ followers' = IF a.type = "Follow" THEN followers \cup {them}
                      ELSE IF IsUndo(a) THEN followers \ {them} ELSE followers
      /\ following' = IF IsAccept(a) /\ asked \in DOMAIN following /\ following[asked] # None
                      THEN [following EXCEPT ![asked] = Some(TRUE)] ELSE following
      /\ effects' = IF HasEffect(a) THEN Append(effects, a) ELSE effects
      /\ UNCHANGED inboxRows
  BY TheOneIsIn DEF ApplyEffect, None
<1> HIDE DEF a
<1>2. CASE ~HasEffect(a)
  <2>1. UNCHANGED <<effects, followers, following>>
    BY <1>1, <1>2 DEF HasEffect
  <2>2. InboxAppliedOnce'
    BY <2>1, QuietInboxStep
  <2>3. InboxShape' /\ EffectsDue' /\ EffectsRecorded'
    BY <1>1, <2>1 DEF EffectsDue, EffectsRecorded
  <2> QED BY <2>2, <2>3
<1>3. CASE HasEffect(a)
  <2> DEFINE n == Len(effects)
  <2>1. /\ n \in Nat /\ DOMAIN effects = 1..n
        /\ effects' = Append(effects, a) /\ effects' \in Seq(Activities)
        /\ Len(effects') = n + 1 /\ DOMAIN effects' = 1..(n + 1)
        /\ \A i \in 1..n : effects'[i] = effects[i]
        /\ effects'[n + 1] = a
    BY <1>1, <1>3, AppendProperties, LenProperties
  <2> HIDE DEF n
  <2>2. InboxShape'
    BY <1>1, <2>1
  <2>3. /\ a.id \in inboxRows
        /\ \A i \in 1..n : effects[i].id # a.id
        /\ \A u \in InboxTasks \ {t} : \A b \in handling[u] : b.id # a.id
    BY <1>1, <2>1 DEF EffectsDue
  <2>4. EffectsDue' /\ EffectsRecorded'
    BY <1>1, <2>1, <2>3 DEF EffectsDue, EffectsRecorded
  <2>5. \A i, j \in DOMAIN effects' : effects'[i].id = effects'[j].id => i = j
    BY <2>1, <2>3 DEF InboxAppliedOnce
  <2>6. ASSUME NEW p \in followers'
        PROVE \E i \in DOMAIN effects' :
                 /\ effects'[i].type = "Follow" /\ <<effects'[i].local, effects'[i].actor>> = p
                 /\ \A j \in i + 1..Len(effects') :
                       ~(IsUndo(effects'[j]) /\ <<effects'[j].local, effects'[j].actor>> = p)
    <3>1. CASE a.type = "Follow" /\ p = them
      <4>1. n + 1 \in DOMAIN effects' /\ (n + 1) + 1..Len(effects') = {}
        BY <2>1
      <4> QED BY <2>1, <3>1, <4>1
    <3>2. CASE ~(a.type = "Follow" /\ p = them)
      <4>1. p \in followers /\ ~(IsUndo(a) /\ p = them)
        BY <1>1, <2>6, <3>2 DEF IsUndo
      <4>2. PICK i \in 1..n :
                /\ effects[i].type = "Follow" /\ <<effects[i].local, effects[i].actor>> = p
                /\ \A j \in i + 1..n :
                      ~(IsUndo(effects[j]) /\ <<effects[j].local, effects[j].actor>> = p)
        BY <2>1, <4>1 DEF InboxAppliedOnce, n
      <4>3. ASSUME NEW j \in i + 1..(n + 1)
            PROVE ~(IsUndo(effects'[j]) /\ <<effects'[j].local, effects'[j].actor>> = p)
        <5>1. CASE j = n + 1
          BY <2>1, <4>1, <5>1
        <5>2. CASE j \in i + 1..n
          BY <2>1, <4>2, <5>2
        <5> QED BY <2>1, <5>1, <5>2
      <4>4. i \in DOMAIN effects' /\ effects'[i] = effects[i]
        BY <2>1
      <4> QED BY <2>1, <4>2, <4>3, <4>4
    <3> QED BY <3>1, <3>2
  <2>7. ASSUME NEW p \in DOMAIN following', following'[p] = Some(TRUE)
        PROVE \E i \in DOMAIN effects' :
                 IsAccept(effects'[i]) /\ <<effects'[i].local, effects'[i].target>> = p
    <3>1. CASE IsAccept(a) /\ p = asked
      BY <2>1, <3>1
    <3>2. CASE ~(IsAccept(a) /\ p = asked)
      <4>1. p \in DOMAIN following /\ following[p] = Some(TRUE)
        BY <1>1, <2>7, <3>2
      <4>2. PICK i \in 1..n :
                IsAccept(effects[i]) /\ <<effects[i].local, effects[i].target>> = p
        BY <2>1, <4>1 DEF InboxAppliedOnce
      <4>3. i \in DOMAIN effects' /\ effects'[i] = effects[i]
        BY <2>1
      <4> QED BY <4>2, <4>3
    <3> QED BY <3>1, <3>2
  <2>8. InboxAppliedOnce'
    BY <2>5, <2>6, <2>7 DEF InboxAppliedOnce, IsUndo, IsAccept
  <2> QED BY <2>2, <2>4, <2>8
<1> QED BY <1>2, <1>3

LEMMA InboxSteps == InboxInv /\ [InboxNext]_inboxVars => InboxInv'
<1> SUFFICES ASSUME InboxInv, [InboxNext]_inboxVars PROVE InboxInv'
  OBVIOUS
<1>1. ASSUME NEW l \in Locals, NEW r \in Remotes, AddFollowing(l, r) PROVE InboxInv'
  <2>1. /\ UNCHANGED <<handling, followers, inboxRows, effects>>
        /\ following' = [following EXCEPT ![<<l, r>>] = {FALSE}]
    BY <1>1 DEF AddFollowing, Some
  <2>2. /\ DOMAIN following' = DOMAIN following
        /\ \A p \in DOMAIN following : following'[p] = Some(TRUE) => following[p] = Some(TRUE)
    BY <2>1 DEF Some
  <2>3. InboxAppliedOnce'
    BY <2>1, <2>2, QuietInboxStep
  <2> QED BY <2>1, <2>3 DEF InboxInv, InboxShape, EffectsDue, EffectsRecorded
<1>2. ASSUME NEW t \in InboxTasks, NEW a \in Activities, HandleInbox(t, a) PROVE InboxInv'
  <2>1. UNCHANGED <<followers, following, effects>>
    BY <1>2 DEF HandleInbox
  <2>2. InboxAppliedOnce'
    BY <2>1, QuietInboxStep
  <2>3. CASE a.type # "" /\ IsNew(a)
    <3>1. /\ inboxRows' = inboxRows \cup {a.id} /\ a.id \notin inboxRows
          /\ handling' = [handling EXCEPT ![t] = {a}] /\ handling[t] = {}
      BY <1>2, <2>3 DEF HandleInbox, IsNew, Some, None
    <3>2. InboxShape' /\ EffectsRecorded'
      BY <2>1, <3>1 DEF InboxInv, InboxShape, EffectsRecorded
    <3>3. EffectsDue'
      BY <2>1, <3>1 DEF InboxInv, InboxShape, EffectsDue, EffectsRecorded
    <3> QED BY <2>2, <3>2, <3>3 DEF InboxInv
  <2>4. CASE ~(a.type # "" /\ IsNew(a))
    <3>1. UNCHANGED <<inboxRows, handling>>
      BY <1>2, <2>4 DEF HandleInbox
    <3> QED BY <2>1, <2>2, <3>1 DEF InboxInv, InboxShape, EffectsDue, EffectsRecorded
  <2> QED BY <2>3, <2>4
<1>3. ASSUME NEW t \in InboxTasks, EffectFails(t) PROVE InboxInv'
  <2>1. UNCHANGED <<followers, following, effects, inboxRows>>
    BY <1>3 DEF EffectFails
  <2>2. InboxAppliedOnce'
    BY <2>1, QuietInboxStep
  <2>3. InboxShape' /\ EffectsDue' /\ EffectsRecorded'
    BY <1>3, <2>1 DEF EffectFails, None, InboxInv, InboxShape, EffectsDue, EffectsRecorded
  <2> QED BY <2>2, <2>3 DEF InboxInv
<1>4. CASE InboxCrash
  <2>1. UNCHANGED <<followers, following, effects, inboxRows>>
    BY <1>4 DEF InboxCrash
  <2>2. InboxAppliedOnce'
    BY <2>1, QuietInboxStep
  <2>3. InboxShape' /\ EffectsDue' /\ EffectsRecorded'
    BY <1>4, <2>1 DEF InboxCrash, None, InboxInv, InboxShape, EffectsDue, EffectsRecorded
  <2> QED BY <2>2, <2>3 DEF InboxInv
<1>5. CASE UNCHANGED inboxVars
  <2>1. UNCHANGED <<handling, followers, following, effects, inboxRows>>
    BY <1>5 DEF inboxVars
  <2>2. InboxAppliedOnce'
    BY <2>1, QuietInboxStep
  <2> QED BY <2>1, <2>2 DEF InboxInv, InboxShape, EffectsDue, EffectsRecorded
<1> QED BY <1>1, <1>2, <1>3, <1>4, <1>5, EffectKeepsInbox DEF InboxNext

\* However often and in whatever overlap an activity is delivered, and wherever
\* the process stops between recording and effect, it takes effect at most once.
THEOREM InboxAppliesOnce == Spec => []InboxAppliedOnce
<1>1. InboxInv => InboxAppliedOnce
  BY DEF InboxInv
<1>2. InboxInv /\ [Next]_vars => InboxInv'
  BY SceneSteps, InboxSteps
<1>3. Init => InboxInv
  BY InboxInitial DEF Init
<1> QED BY <1>1, <1>2, <1>3, PTL DEF Spec

----------------------------------------------------------------------------
(* Quota.                                                                  *)

Usages == [used : Nat, limit : Nat]
TmpFiles == [name : QuotaTasks \X Nat, full : BOOLEAN]
QuotaSteps ==
    {NoOp} \cup [at : {"store", "record"}, delta : {1, -1}]
           \cup [at : {"open", "fill", "rename"}, use : Usages]
           \cup [at : {"sweep"}, todo : SUBSET TmpFiles, alone : BOOLEAN]
           \cup [at : {"scan"}, alone : BOOLEAN]
           \cup [at : {"limit"}, total : Nat]

QuotaShape ==
    /\ quotaTask \in [QuotaTasks -> QuotaSteps]
    /\ sidecar # None => sidecar = Some(TheOne(sidecar)) /\ TheOne(sidecar) \in Usages
    /\ tmpFiles \subseteq TmpFiles /\ IsFiniteSet(tmpFiles) /\ disk \in Nat
    /\ quotaCrashes \in Nat /\ quotaExact \in BOOLEAN

\* A file of this process belongs to a task at work on it; the others are
\* orphans, which a sweep has still to do and a scan does not meet.
Orphans == {f \in tmpFiles : f.name[2] # quotaCrashes}
FilesOwned ==
    /\ \A f \in tmpFiles : f.name[2] <= quotaCrashes
    /\ \A f \in tmpFiles : f \notin Orphans => quotaTask[f.name[1]].at \in {"fill", "rename"}
    /\ \A w \in QuotaTasks :
          /\ quotaTask[w].at = "sweep" => Orphans \subseteq quotaTask[w].todo
          /\ quotaTask[w].at = "scan" => Orphans = {}

\* While the count is exact one task is at work, and what it is about to do
\* keeps the count exact.
ExactProgress ==
    quotaExact =>
        /\ \A v, w \in QuotaTasks :
              quotaTask[v].at # "idle" /\ quotaTask[w].at # "idle" => v = w
        /\ Quiet => Effective.used = disk
        /\ \A w \in QuotaTasks :
              /\ quotaTask[w].at \in {"store", "sweep", "scan"} => Effective.used = disk
              /\ quotaTask[w].at = "record" => Effective.used + quotaTask[w].delta = disk
              /\ quotaTask[w].at = "limit" => quotaTask[w].total = disk
              /\ quotaTask[w].at \in {"open", "fill", "rename"} => quotaTask[w].use.used = disk
              /\ quotaTask[w].at = "fill" => [name |-> TmpName(w), full |-> FALSE] \in tmpFiles
              /\ quotaTask[w].at = "rename" => \E f \in tmpFiles : f.name = TmpName(w)

QuotaInv == QuotaShape /\ FilesOwned /\ ExactProgress

LEMMA QuotaInitial == QuotaInit => QuotaInv
<1> SUFFICES ASSUME QuotaInit PROVE QuotaInv
  OBVIOUS
<1>1. \A w \in QuotaTasks : quotaTask[w] = NoOp /\ quotaTask[w].at = "idle"
  BY DEF QuotaInit, NoOp
<1>2. sidecar # None => sidecar = Some(TheOne(sidecar)) /\ TheOne(sidecar) \in Usages
                        /\ TheOne(sidecar).used = 0
  BY TheOneIsIn DEF QuotaInit, Some, None, Usages
<1>3. QuotaShape
  BY <1>1, <1>2, FS_EmptySet DEF QuotaInit, QuotaShape, QuotaSteps
<1>4. FilesOwned
  BY <1>1 DEF QuotaInit, FilesOwned, Orphans
<1>5. Effective.used = 0
  BY <1>2 DEF Effective, Usages
<1>6. ExactProgress
  BY <1>1, <1>5 DEF ExactProgress, QuotaInit
<1> QED BY <1>3, <1>4, <1>6 DEF QuotaInv

\* What a task at each of its stages holds.
LEMMA QuotaStages ==
    ASSUME QuotaShape, NEW w \in QuotaTasks
    PROVE /\ quotaTask[w].at \in {"store", "record"} =>
                quotaTask[w] \in [at : {"store", "record"}, delta : {1, -1}]
          /\ quotaTask[w].at \in {"open", "fill", "rename"} =>
                quotaTask[w] \in [at : {"open", "fill", "rename"}, use : Usages]
          /\ quotaTask[w].at = "sweep" =>
                quotaTask[w] \in [at : {"sweep"}, todo : SUBSET TmpFiles, alone : BOOLEAN]
          /\ quotaTask[w].at = "scan" => quotaTask[w] \in [at : {"scan"}, alone : BOOLEAN]
          /\ quotaTask[w].at = "limit" => quotaTask[w] \in [at : {"limit"}, total : Nat]
BY DEF QuotaShape, QuotaSteps, NoOp

LEMMA EffectiveIsUsage ==
    ASSUME QuotaShape PROVE Effective \in Usages
BY QuotaAssumption DEF QuotaShape, Effective, Usages

\* A step of one task that starts nothing and leaves the files alone.
LEMMA TaskMovesOn ==
    ASSUME QuotaInv, NEW w \in QuotaTasks, NEW q \in QuotaSteps,
           quotaTask' = [quotaTask EXCEPT ![w] = q],
           quotaTask[w].at \notin {"fill", "rename"},
           q.at = "sweep" => tmpFiles \subseteq q.todo,
           q.at = "scan" => Orphans = {},
           disk' \in Nat, quotaExact' \in BOOLEAN,
           UNCHANGED <<sidecar, tmpFiles, quotaCrashes>>
    PROVE QuotaShape' /\ FilesOwned'
<1>1. QuotaShape /\ FilesOwned
  BY DEF QuotaInv
<1>2. /\ quotaTask' \in [QuotaTasks -> QuotaSteps]
      /\ quotaTask'[w] = q /\ \A v \in QuotaTasks \ {w} : quotaTask'[v] = quotaTask[v]
  BY <1>1 DEF QuotaShape
<1>3. QuotaShape'
  BY <1>1, <1>2 DEF QuotaShape
<1>4. Orphans' = Orphans /\ Orphans \subseteq tmpFiles
  BY DEF Orphans
<1>5. \A f \in tmpFiles : f.name[1] \in QuotaTasks
  BY <1>1 DEF QuotaShape, TmpFiles
<1>6. FilesOwned'
  BY <1>1, <1>2, <1>4, <1>5 DEF FilesOwned
<1> QED BY <1>3, <1>6

LEMMA CheckKeepsQuota ==
    ASSUME QuotaInv, NEW w \in QuotaTasks, NEW d \in {1, -1}, QuotaCheck(w, d) PROVE QuotaInv'
<1>1. QuotaShape /\ FilesOwned /\ ExactProgress
  BY DEF QuotaInv
<1>2. PICK q : q = [at |-> "store", delta |-> d]
  OBVIOUS
<1>3. /\ q.at = "store" /\ q \in QuotaSteps /\ quotaTask[w].at = "idle"
      /\ quotaTask' = [quotaTask EXCEPT ![w] = q] /\ quotaExact' = (quotaExact /\ Quiet)
      /\ UNCHANGED <<sidecar, tmpFiles, disk, quotaCrashes>>
  BY <1>2 DEF QuotaCheck, Begin, QuotaSteps
<1>4. QuotaShape' /\ FilesOwned'
  <2>1. disk' \in Nat /\ quotaExact' \in BOOLEAN
    BY <1>1, <1>3 DEF QuotaShape
  <2> QED BY <1>3, <2>1, TaskMovesOn
<1>5. ExactProgress'
  <2> SUFFICES ASSUME quotaExact, Quiet PROVE ExactProgress'
    BY <1>3 DEF ExactProgress
  <2>1. \A v \in QuotaTasks \ {w} : quotaTask'[v].at = "idle"
    BY <1>1, <1>3 DEF Quiet, QuotaShape
  <2>2. quotaTask'[w].at = "store"
    BY <1>1, <1>3 DEF QuotaShape
  <2>3. Effective'.used = disk'
    BY <1>1, <1>3 DEF ExactProgress, Effective
  <2> QED BY <2>1, <2>2, <2>3 DEF ExactProgress, Quiet
<1> QED BY <1>4, <1>5 DEF QuotaInv

LEMMA WriteKeepsQuota ==
    ASSUME QuotaInv, NEW w \in QuotaTasks, QuotaWrite(w) PROVE QuotaInv'
<1>1. QuotaShape /\ FilesOwned /\ ExactProgress
  BY DEF QuotaInv
<1> DEFINE delta == quotaTask[w].delta
           ok == disk + delta \in 0..MaxUnits
<1>2. /\ quotaTask[w].at = "store" /\ delta \in {1, -1} /\ disk \in Nat
      /\ quotaTask[w] \in [at : {"store", "record"}, delta : {1, -1}]
  BY <1>1, QuotaStages DEF QuotaWrite, QuotaShape
<1>3. PICK q : q = IF ok THEN [quotaTask[w] EXCEPT !.at = "record"] ELSE NoOp
  OBVIOUS
<1>4. /\ q \in QuotaSteps /\ q.at \in {"record", "idle"}
      /\ ok => q.at = "record" /\ q.delta = delta
      /\ ~ok => q.at = "idle"
  BY <1>2, <1>3 DEF QuotaSteps, NoOp
<1>5. /\ quotaTask' = [quotaTask EXCEPT ![w] = q]
      /\ disk' = IF ok THEN disk + delta ELSE disk
      /\ UNCHANGED <<sidecar, tmpFiles, quotaCrashes, quotaExact>>
  BY <1>3 DEF QuotaWrite
<1>6. disk' \in Nat /\ quotaExact' \in BOOLEAN
  BY <1>1, <1>2, <1>5 DEF QuotaShape
<1>7. QuotaShape' /\ FilesOwned'
  BY <1>2, <1>4, <1>5, <1>6, TaskMovesOn
<1>8. ExactProgress'
  <2> SUFFICES ASSUME quotaExact PROVE ExactProgress'
    BY <1>5 DEF ExactProgress
  <2>1. /\ \A v \in QuotaTasks \ {w} : quotaTask'[v] = quotaTask[v] /\ quotaTask[v].at = "idle"
        /\ quotaTask'[w] = q
    BY <1>1, <1>2, <1>5 DEF ExactProgress, QuotaShape
  <2>2. Effective' = Effective /\ Effective.used = disk
    BY <1>1, <1>2, <1>5 DEF ExactProgress, Effective
  <2>3. CASE ok
    BY <1>4, <1>5, <2>1, <2>2, <2>3 DEF ExactProgress, Quiet
  <2>4. CASE ~ok
    BY <1>4, <1>5, <2>1, <2>2, <2>4 DEF ExactProgress, Quiet
  <2> QED BY <2>3, <2>4
<1> QED BY <1>7, <1>8 DEF QuotaInv

LEMMA RecordKeepsQuota ==
    ASSUME QuotaInv, NEW w \in QuotaTasks, RecordRead(w) PROVE QuotaInv'
<1>1. QuotaShape /\ FilesOwned /\ ExactProgress
  BY DEF QuotaInv
<1> DEFINE sum == Effective.used + quotaTask[w].delta
<1>2. /\ quotaTask[w].at = "record" /\ quotaTask[w].delta \in {1, -1} /\ disk \in Nat
      /\ Effective.used \in Nat /\ Effective.limit \in Nat
  BY <1>1, QuotaStages, EffectiveIsUsage DEF RecordRead, QuotaShape, Usages
<1>3. PICK q : q = [at |-> "open", use |-> [used |-> IF sum < 0 THEN 0 ELSE sum,
                                             limit |-> Effective.limit]]
  OBVIOUS
<1>4. /\ q \in QuotaSteps /\ q.at = "open"
      /\ q.use.used = IF sum < 0 THEN 0 ELSE sum
  BY <1>2, <1>3 DEF QuotaSteps, Usages
<1>5. /\ quotaTask' = [quotaTask EXCEPT ![w] = q]
      /\ UNCHANGED <<sidecar, tmpFiles, disk, quotaCrashes, quotaExact>>
  BY <1>3 DEF RecordRead
<1>6. QuotaShape' /\ FilesOwned'
  <2>1. disk' \in Nat /\ quotaExact' \in BOOLEAN
    BY <1>1, <1>5 DEF QuotaShape
  <2> QED BY <1>2, <1>4, <1>5, <2>1, TaskMovesOn
<1>7. ExactProgress'
  <2> SUFFICES ASSUME quotaExact PROVE ExactProgress'
    BY <1>5 DEF ExactProgress
  <2>1. /\ \A v \in QuotaTasks \ {w} : quotaTask'[v] = quotaTask[v] /\ quotaTask[v].at = "idle"
        /\ quotaTask'[w] = q
    BY <1>1, <1>2, <1>5 DEF ExactProgress, QuotaShape
  <2>2. sum = disk
    BY <1>1, <1>2 DEF ExactProgress
  <2>3. q.use.used = disk
    BY <1>2, <1>4, <2>2
  <2> QED BY <1>4, <1>5, <2>1, <2>3 DEF ExactProgress, Quiet
<1> QED BY <1>6, <1>7 DEF QuotaInv

LEMMA ReconcileKeepsQuota ==
    ASSUME QuotaInv, NEW w \in QuotaTasks, Reconcile(w) PROVE QuotaInv'
<1>1. QuotaShape /\ FilesOwned /\ ExactProgress
  BY DEF QuotaInv
<1>2. PICK q : q = [at |-> "sweep", todo |-> tmpFiles, alone |-> Quiet]
  OBVIOUS
<1>3. /\ q.at = "sweep" /\ q.todo = tmpFiles /\ quotaTask[w].at = "idle"
      /\ quotaTask' = [quotaTask EXCEPT ![w] = q] /\ quotaExact' = (quotaExact /\ Quiet)
      /\ UNCHANGED <<sidecar, tmpFiles, disk, quotaCrashes>>
  BY <1>2 DEF Reconcile, Begin
<1>4. q \in QuotaSteps
  BY <1>1, <1>2 DEF QuotaSteps, QuotaShape, Quiet
<1>5. QuotaShape' /\ FilesOwned'
  <2>1. disk' \in Nat /\ quotaExact' \in BOOLEAN
    BY <1>1, <1>3 DEF QuotaShape
  <2> QED BY <1>3, <1>4, <2>1, TaskMovesOn
<1>6. ExactProgress'
  <2> SUFFICES ASSUME quotaExact, Quiet PROVE ExactProgress'
    BY <1>3 DEF ExactProgress
  <2>1. \A v \in QuotaTasks \ {w} : quotaTask'[v].at = "idle"
    BY <1>1, <1>3 DEF Quiet, QuotaShape
  <2>2. quotaTask'[w].at = "sweep"
    BY <1>1, <1>3 DEF QuotaShape
  <2>3. Effective'.used = disk'
    BY <1>1, <1>3 DEF ExactProgress, Effective
  <2> QED BY <2>1, <2>2, <2>3 DEF ExactProgress, Quiet
<1> QED BY <1>5, <1>6 DEF QuotaInv

LEMMA SweepKeepsQuota ==
    ASSUME QuotaInv, NEW w \in QuotaTasks, Sweep(w) PROVE QuotaInv'
<1>1. QuotaShape /\ FilesOwned /\ ExactProgress
  BY DEF QuotaInv
<1>2. /\ quotaTask[w].at = "sweep" /\ quotaTask[w].alone \in BOOLEAN
      /\ quotaTask[w] \in [at : {"sweep"}, todo : SUBSET TmpFiles, alone : BOOLEAN]
      /\ UNCHANGED <<sidecar, disk, quotaCrashes, quotaExact>>
  BY <1>1, QuotaStages DEF Sweep
<1>3. PICK q \in QuotaSteps :
          /\ quotaTask' = [quotaTask EXCEPT ![w] = q] /\ q.at \in {"sweep", "scan"}
          /\ tmpFiles' \subseteq tmpFiles
          /\ q.at = "sweep" => \A f \in tmpFiles' : f \in quotaTask[w].todo => f \in q.todo
          /\ q.at = "scan" => quotaTask[w].todo = {}
  <2>1. ASSUME NEW f \in quotaTask[w].todo,
               tmpFiles' = {g \in tmpFiles : g.name # f.name},
               quotaTask' = [quotaTask EXCEPT ![w].todo = quotaTask[w].todo \ {f}]
        PROVE \E q \in QuotaSteps :
                 /\ quotaTask' = [quotaTask EXCEPT ![w] = q] /\ q.at \in {"sweep", "scan"}
                 /\ tmpFiles' \subseteq tmpFiles
                 /\ q.at = "sweep" => \A g \in tmpFiles' : g \in quotaTask[w].todo => g \in q.todo
                 /\ q.at = "scan" => quotaTask[w].todo = {}
    <3>1. PICK q : q = [quotaTask[w] EXCEPT !.todo = quotaTask[w].todo \ {f}]
      OBVIOUS
    <3>2. q \in QuotaSteps /\ q.at = "sweep" /\ q.todo = quotaTask[w].todo \ {f}
      BY <1>2, <3>1 DEF QuotaSteps
    <3>3. quotaTask' = [quotaTask EXCEPT ![w] = q]
      BY <1>1, <2>1, <3>1 DEF QuotaShape
    <3> QED BY <2>1, <3>2, <3>3
  <2>2. ASSUME quotaTask[w].todo = {}, UNCHANGED tmpFiles,
               quotaTask' = [quotaTask EXCEPT ![w] = [at |-> "scan", alone |-> quotaTask[w].alone]]
        PROVE \E q \in QuotaSteps :
                 /\ quotaTask' = [quotaTask EXCEPT ![w] = q] /\ q.at \in {"sweep", "scan"}
                 /\ tmpFiles' \subseteq tmpFiles
                 /\ q.at = "sweep" => \A g \in tmpFiles' : g \in quotaTask[w].todo => g \in q.todo
                 /\ q.at = "scan" => quotaTask[w].todo = {}
    <3>1. PICK q : q = [at |-> "scan", alone |-> quotaTask[w].alone]
      OBVIOUS
    <3>2. q \in QuotaSteps /\ q.at = "scan"
      BY <1>2, <3>1 DEF QuotaSteps
    <3> QED BY <2>2, <3>1, <3>2
  <2> QED BY <2>1, <2>2 DEF Sweep
<1>4. /\ quotaTask' \in [QuotaTasks -> QuotaSteps]
      /\ quotaTask'[w] = q /\ \A v \in QuotaTasks \ {w} : quotaTask'[v] = quotaTask[v]
  BY <1>1, <1>3 DEF QuotaShape
<1>5. QuotaShape'
  <2>1. IsFiniteSet(tmpFiles')
    BY <1>1, <1>3, FS_Subset DEF QuotaShape
  <2> QED BY <1>1, <1>2, <1>3, <1>4, <2>1 DEF QuotaShape
<1>6. FilesOwned'
  <2>1. Orphans' \subseteq Orphans /\ Orphans' = {f \in tmpFiles' : f \in Orphans}
    BY <1>2, <1>3 DEF Orphans
  <2>2. \A f \in tmpFiles : f.name[1] \in QuotaTasks
    BY <1>1 DEF QuotaShape, TmpFiles
  <2>3. \A f \in tmpFiles' : f.name[2] <= quotaCrashes'
    BY <1>1, <1>2, <1>3 DEF FilesOwned
  <2>4. \A f \in tmpFiles' : f \notin Orphans' => quotaTask'[f.name[1]].at \in {"fill", "rename"}
    BY <1>1, <1>2, <1>3, <1>4, <2>1, <2>2 DEF FilesOwned
  <2>5. Orphans \subseteq quotaTask[w].todo
    BY <1>1, <1>2 DEF FilesOwned
  <2>6. \A v \in QuotaTasks :
          /\ quotaTask'[v].at = "sweep" => Orphans' \subseteq quotaTask'[v].todo
          /\ quotaTask'[v].at = "scan" => Orphans' = {}
    <3>1. /\ quotaTask'[w].at = "sweep" => Orphans' \subseteq quotaTask'[w].todo
          /\ quotaTask'[w].at = "scan" => Orphans' = {}
      BY <1>3, <1>4, <2>1, <2>5
    <3> QED BY <1>1, <1>4, <2>1, <3>1 DEF FilesOwned
  <2> QED BY <2>3, <2>4, <2>6 DEF FilesOwned
<1>7. ExactProgress'
  <2> SUFFICES ASSUME quotaExact PROVE ExactProgress'
    BY <1>2 DEF ExactProgress
  <2>1. \A v \in QuotaTasks \ {w} : quotaTask'[v] = quotaTask[v] /\ quotaTask[v].at = "idle"
    BY <1>1, <1>2, <1>4 DEF ExactProgress
  <2>2. Effective'.used = disk'
    BY <1>1, <1>2 DEF ExactProgress, Effective
  <2> QED BY <1>3, <1>4, <2>1, <2>2 DEF ExactProgress, Quiet
<1> QED BY <1>5, <1>6, <1>7 DEF QuotaInv

LEMMA ScanKeepsQuota ==
    ASSUME QuotaInv, NEW w \in QuotaTasks, Scan(w) PROVE QuotaInv'
<1>1. QuotaShape /\ FilesOwned /\ ExactProgress
  BY DEF QuotaInv
<1> DEFINE filled == {f \in tmpFiles : f.full}
<1>2. /\ quotaTask[w].at = "scan" /\ disk \in Nat
  BY <1>1 DEF Scan, QuotaShape
<1>3. Cardinality(filled) \in Nat
  <2>1. IsFiniteSet(filled)
    BY <1>1, FS_Subset DEF QuotaShape
  <2> QED BY <2>1, FS_CardinalityType
<1>4. PICK q : q = [at |-> "limit", total |-> disk + Cardinality(filled)]
  OBVIOUS
<1>5. quotaTask' = [quotaTask EXCEPT ![w] = q]
  BY <1>4 DEF Scan
<1>6. /\ quotaExact' \in BOOLEAN
      /\ quotaExact' => quotaExact \/ \A v \in QuotaTasks \ {w} : quotaTask[v].at = "idle"
      /\ UNCHANGED <<sidecar, tmpFiles, disk, quotaCrashes>>
  BY <1>1 DEF Scan, QuotaShape
<1>7. /\ q \in QuotaSteps /\ q.at = "limit"
      /\ q.total = disk + Cardinality(filled)
  <2> HIDE DEF filled
  <2> QED BY <1>2, <1>3, <1>4 DEF QuotaSteps
<1>8. QuotaShape' /\ FilesOwned'
  <2>1. disk' \in Nat
    BY <1>2, <1>6
  <2> QED BY <1>2, <1>5, <1>6, <1>7, <2>1, TaskMovesOn
<1>9. ExactProgress'
  <2> SUFFICES ASSUME quotaExact' PROVE ExactProgress'
    BY DEF ExactProgress
  <2>1. /\ \A v \in QuotaTasks \ {w} : quotaTask'[v] = quotaTask[v] /\ quotaTask[v].at = "idle"
        /\ quotaTask'[w] = q
    BY <1>1, <1>2, <1>5, <1>6 DEF ExactProgress, QuotaShape
  <2>2. tmpFiles = {}
    <3>1. \A v \in QuotaTasks : quotaTask[v].at \notin {"fill", "rename"}
      BY <1>2, <2>1
    <3>2. \A f \in tmpFiles : f.name[1] \in QuotaTasks
      BY <1>1 DEF QuotaShape, TmpFiles
    <3>3. Orphans = {} /\ \A f \in tmpFiles : f \in Orphans
      BY <1>1, <1>2, <3>1, <3>2 DEF FilesOwned
    <3> QED BY <3>3
  <2>3. Cardinality(filled) = 0
    <3>1. filled = {}
      BY <2>2
    <3> QED BY <3>1, FS_EmptySet, Zenon
  <2>4. q.total = disk
    BY <1>2, <1>7, <2>3
  <2> QED BY <1>6, <1>7, <2>1, <2>4 DEF ExactProgress, Quiet
<1> QED BY <1>8, <1>9 DEF QuotaInv

LEMMA LimitKeepsQuota ==
    ASSUME QuotaInv, NEW w \in QuotaTasks, ReadLimit(w) PROVE QuotaInv'
<1>1. QuotaShape /\ FilesOwned /\ ExactProgress
  BY DEF QuotaInv
<1>2. /\ quotaTask[w].at = "limit" /\ quotaTask[w].total \in Nat /\ disk \in Nat
      /\ Effective.limit \in Nat
  BY <1>1, QuotaStages, EffectiveIsUsage DEF ReadLimit, QuotaShape, Usages
<1>3. PICK q : q = [at |-> "open", use |-> [used |-> quotaTask[w].total, limit |-> Effective.limit]]
  OBVIOUS
<1>4. q \in QuotaSteps /\ q.at = "open" /\ q.use.used = quotaTask[w].total
  BY <1>2, <1>3 DEF QuotaSteps, Usages
<1>5. /\ quotaTask' = [quotaTask EXCEPT ![w] = q]
      /\ UNCHANGED <<sidecar, tmpFiles, disk, quotaCrashes, quotaExact>>
  BY <1>3 DEF ReadLimit
<1>6. QuotaShape' /\ FilesOwned'
  <2>1. disk' \in Nat /\ quotaExact' \in BOOLEAN
    BY <1>1, <1>5 DEF QuotaShape
  <2> QED BY <1>2, <1>4, <1>5, <2>1, TaskMovesOn
<1>7. ExactProgress'
  <2> SUFFICES ASSUME quotaExact PROVE ExactProgress'
    BY <1>5 DEF ExactProgress
  <2>1. /\ \A v \in QuotaTasks \ {w} : quotaTask'[v] = quotaTask[v] /\ quotaTask[v].at = "idle"
        /\ quotaTask'[w] = q
    BY <1>1, <1>2, <1>5 DEF ExactProgress, QuotaShape
  <2>2. q.use.used = disk
    BY <1>1, <1>2, <1>4 DEF ExactProgress
  <2> QED BY <1>4, <1>5, <2>1, <2>2 DEF ExactProgress, Quiet
<1> QED BY <1>6, <1>7 DEF QuotaInv

LEMMA FailedReconcileKeepsQuota ==
    ASSUME QuotaInv, NEW w \in QuotaTasks, ReconcileFails(w) PROVE QuotaInv'
<1>1. /\ quotaTask[w].at \in {"scan", "limit"} /\ quotaTask' = [quotaTask EXCEPT ![w] = NoOp]
      /\ quotaExact' = FALSE /\ UNCHANGED <<sidecar, tmpFiles, disk, quotaCrashes>>
  BY DEF ReconcileFails
<1>2. NoOp \in QuotaSteps /\ NoOp.at = "idle"
  BY DEF QuotaSteps, NoOp
<1>3. disk' \in Nat /\ quotaExact' \in BOOLEAN
  BY <1>1 DEF QuotaInv, QuotaShape
<1>4. QuotaShape' /\ FilesOwned'
  BY <1>1, <1>2, <1>3, TaskMovesOn
<1>5. ExactProgress'
  BY <1>1 DEF ExactProgress
<1> QED BY <1>4, <1>5 DEF QuotaInv

\* A step of one task on its own temporary file.
LEMMA TaskKeepsFiles ==
    ASSUME QuotaInv, NEW w \in QuotaTasks, NEW q \in QuotaSteps,
           quotaTask' = [quotaTask EXCEPT ![w] = q],
           q.at \in {"idle", "fill", "rename"},
           tmpFiles' \subseteq TmpFiles, IsFiniteSet(tmpFiles'),
           \A f \in tmpFiles' : f \in tmpFiles \/ f.name = TmpName(w),
           q.at = "idle" => \A f \in tmpFiles' : f.name # TmpName(w),
           sidecar' # None => sidecar' = Some(TheOne(sidecar')) /\ TheOne(sidecar') \in Usages,
           quotaExact' \in BOOLEAN, UNCHANGED <<disk, quotaCrashes>>
    PROVE QuotaShape' /\ FilesOwned'
<1>1. QuotaShape /\ FilesOwned
  BY DEF QuotaInv
<1>2. /\ quotaTask' \in [QuotaTasks -> QuotaSteps]
      /\ quotaTask'[w] = q /\ \A v \in QuotaTasks \ {w} : quotaTask'[v] = quotaTask[v]
  BY <1>1 DEF QuotaShape
<1>3. QuotaShape'
  BY <1>1, <1>2 DEF QuotaShape
<1>4. quotaCrashes \in Nat /\ TmpName(w)[1] = w /\ TmpName(w)[2] = quotaCrashes
  BY <1>1 DEF TmpName, QuotaShape
<1>5. Orphans' \subseteq Orphans
  BY <1>4 DEF Orphans
<1>6. \A f \in tmpFiles' : f.name \in QuotaTasks \X Nat
  BY DEF TmpFiles
<1>7. \A f \in tmpFiles' : f.name[2] <= quotaCrashes'
  BY <1>1, <1>4 DEF FilesOwned
<1>8. ASSUME NEW f \in tmpFiles', f \notin Orphans'
      PROVE quotaTask'[f.name[1]].at \in {"fill", "rename"}
  <2>1. f.name[1] \in QuotaTasks /\ f.name[2] = quotaCrashes
    BY <1>6, <1>8 DEF Orphans
  <2>2. CASE f.name[1] = w
    <3>1. f.name = TmpName(w)
      BY <1>6, <2>1, <2>2 DEF TmpName
    <3> QED BY <1>2, <2>2, <3>1
  <2>3. CASE f.name[1] # w
    <3>1. f \in tmpFiles /\ f \notin Orphans
      BY <1>4, <1>8, <2>1, <2>3 DEF Orphans
    <3>2. quotaTask[f.name[1]].at \in {"fill", "rename"}
      BY <1>1, <3>1 DEF FilesOwned
    <3> QED BY <1>2, <2>1, <2>3, <3>2
  <2> QED BY <2>2, <2>3
<1>9. \A v \in QuotaTasks :
          /\ quotaTask'[v].at = "sweep" => Orphans' \subseteq quotaTask'[v].todo
          /\ quotaTask'[v].at = "scan" => Orphans' = {}
  BY <1>1, <1>2, <1>5 DEF FilesOwned
<1> QED BY <1>3, <1>7, <1>8, <1>9 DEF FilesOwned

LEMMA FileStepsKeepQuota ==
    ASSUME QuotaInv, NEW w \in QuotaTasks, TmpOpen(w) \/ TmpFill(w) PROVE QuotaInv'
<1>1. QuotaShape /\ FilesOwned /\ ExactProgress
  BY DEF QuotaInv
<1>2. /\ quotaTask[w].at \in {"open", "fill"} /\ quotaTask[w].use \in Usages
      /\ quotaTask[w] \in [at : {"open", "fill", "rename"}, use : Usages]
      /\ UNCHANGED <<sidecar, disk, quotaCrashes, quotaExact>>
  BY <1>1, QuotaStages DEF TmpOpen, TmpFill
<1>3. PICK q : q = [quotaTask[w] EXCEPT !.at = IF TmpOpen(w) THEN "fill" ELSE "rename"]
  OBVIOUS
<1>4. /\ q \in QuotaSteps /\ q.use = quotaTask[w].use
      /\ q.at = IF TmpOpen(w) THEN "fill" ELSE "rename"
  BY <1>2, <1>3 DEF QuotaSteps
<1>5. quotaTask' = [quotaTask EXCEPT ![w] = q]
  BY <1>1, <1>3 DEF TmpOpen, TmpFill, QuotaShape
<1> DEFINE empty == [name |-> TmpName(w), full |-> FALSE]
           written == [name |-> TmpName(w), full |-> TRUE]
<1>6. empty \in TmpFiles /\ written \in TmpFiles /\ empty.name = TmpName(w) /\ written.name = TmpName(w)
  BY <1>1 DEF TmpName, TmpFiles, QuotaShape
<1>7. /\ TmpOpen(w) => tmpFiles' = tmpFiles \cup {empty}
      /\ ~TmpOpen(w) => tmpFiles' = IF empty \in tmpFiles
                                    THEN (tmpFiles \ {empty}) \cup {written} ELSE tmpFiles
  BY DEF TmpOpen, TmpFill
<1> HIDE DEF empty, written
<1>8. /\ tmpFiles' \subseteq tmpFiles \cup {empty, written}
      /\ tmpFiles' \subseteq TmpFiles
      /\ \A f \in tmpFiles' : f \in tmpFiles \/ f.name = TmpName(w)
  BY <1>1, <1>6, <1>7 DEF QuotaShape
<1>9. IsFiniteSet(tmpFiles')
  <2>1. IsFiniteSet(tmpFiles)
    BY <1>1 DEF QuotaShape
  <2>2. IsFiniteSet(tmpFiles \cup {empty})
    BY <2>1, FS_AddElement
  <2>3. IsFiniteSet((tmpFiles \cup {empty}) \cup {written})
    BY <2>2, FS_AddElement
  <2>4. tmpFiles' \subseteq (tmpFiles \cup {empty}) \cup {written}
    BY <1>8
  <2> QED BY <2>3, <2>4, FS_Subset
<1>10. QuotaShape' /\ FilesOwned'
  <2>1. /\ sidecar' # None => sidecar' = Some(TheOne(sidecar')) /\ TheOne(sidecar') \in Usages
        /\ quotaExact' \in BOOLEAN /\ q.at # "idle" /\ q.at \in {"idle", "fill", "rename"}
    BY <1>1, <1>2, <1>4 DEF QuotaShape
  <2> QED BY <1>2, <1>4, <1>5, <1>8, <1>9, <2>1, TaskKeepsFiles
<1>11. ExactProgress'
  <2> SUFFICES ASSUME quotaExact PROVE ExactProgress'
    BY <1>2 DEF ExactProgress
  <2>1. /\ \A v \in QuotaTasks \ {w} : quotaTask'[v] = quotaTask[v] /\ quotaTask[v].at = "idle"
        /\ quotaTask'[w] = q /\ q.use.used = disk
    BY <1>1, <1>2, <1>4, <1>5 DEF ExactProgress, QuotaShape
  <2>2. q.at = "fill" => empty \in tmpFiles'
    BY <1>4, <1>7
  <2>3. q.at = "rename" => \E f \in tmpFiles' : f.name = TmpName(w)
    <3>1. q.at = "rename" => quotaTask[w].at = "fill" /\ ~TmpOpen(w)
      BY <1>4 DEF TmpOpen, TmpFill
    <3>2. q.at = "rename" => empty \in tmpFiles
      BY <1>1, <3>1 DEF ExactProgress, empty
    <3> QED BY <1>6, <1>7, <3>1, <3>2
  <2>4. /\ q.at = "fill" => [name |-> <<w, quotaCrashes>>, full |-> FALSE] \in tmpFiles'
        /\ q.at = "rename" => \E f \in tmpFiles' : f.name = <<w, quotaCrashes>>
    BY <2>2, <2>3 DEF empty, TmpName
  <2>5. q.at \in {"fill", "rename"}
    BY <1>4
  <2>6. /\ \A u, v \in QuotaTasks : quotaTask'[u].at # "idle" /\ quotaTask'[v].at # "idle" => u = v
        /\ ~Quiet'
    BY <2>1, <2>5 DEF Quiet
  <2>7. ASSUME NEW v \in QuotaTasks
        PROVE /\ quotaTask'[v].at \notin {"store", "sweep", "scan", "record", "limit"}
              /\ quotaTask'[v].at \in {"open", "fill", "rename"} => quotaTask'[v].use.used = disk'
              /\ quotaTask'[v].at = "fill" =>
                    [name |-> <<v, quotaCrashes'>>, full |-> FALSE] \in tmpFiles'
              /\ quotaTask'[v].at = "rename" => \E f \in tmpFiles' : f.name = <<v, quotaCrashes'>>
    <3>1. CASE v = w
      BY <1>2, <2>1, <2>4, <2>5, <3>1
    <3>2. CASE v # w
      BY <2>1, <3>2
    <3> QED BY <3>1, <3>2
  <2> QED BY <2>6, <2>7 DEF ExactProgress, TmpName
<1> QED BY <1>10, <1>11 DEF QuotaInv

LEMMA LastStepsKeepQuota ==
    ASSUME QuotaInv, NEW w \in QuotaTasks, TmpFails(w) \/ Rename(w) PROVE QuotaInv'
<1>1. QuotaShape /\ FilesOwned /\ ExactProgress
  BY DEF QuotaInv
<1>2. /\ quotaTask[w].at \in {"fill", "rename"} /\ quotaTask[w].use \in Usages
      /\ quotaTask' = [quotaTask EXCEPT ![w] = NoOp]
      /\ tmpFiles' = {f \in tmpFiles : f.name # TmpName(w)}
      /\ UNCHANGED <<disk, quotaCrashes>>
  BY <1>1, QuotaStages DEF TmpFails, Rename
<1>3. NoOp \in QuotaSteps /\ NoOp.at = "idle"
  BY DEF QuotaSteps, NoOp
<1>4. sidecar' = sidecar \/ sidecar' = {quotaTask[w].use}
  BY DEF TmpFails, Rename, Some
<1>5. sidecar' # None => sidecar' = Some(TheOne(sidecar')) /\ TheOne(sidecar') \in Usages
  <2>1. CASE sidecar' = sidecar
    BY <1>1, <2>1 DEF QuotaShape
  <2>2. CASE sidecar' = {quotaTask[w].use}
    BY <1>2, <2>2, TheOneIsIn DEF Some
  <2> QED BY <1>4, <2>1, <2>2
<1>6. quotaExact' \in BOOLEAN
  BY <1>1 DEF TmpFails, Rename, QuotaShape
<1>7. QuotaShape' /\ FilesOwned'
  <2>1. tmpFiles' \subseteq tmpFiles /\ tmpFiles' \subseteq TmpFiles
    BY <1>1, <1>2 DEF QuotaShape
  <2>2. IsFiniteSet(tmpFiles')
    BY <1>1, <2>1, FS_Subset DEF QuotaShape
  <2>3. \A f \in tmpFiles' : f \in tmpFiles /\ f.name # TmpName(w)
    BY <1>2
  <2> QED BY <1>2, <1>3, <1>5, <1>6, <2>1, <2>2, <2>3, TaskKeepsFiles
<1>8. ExactProgress'
  <2> SUFFICES ASSUME quotaExact' PROVE ExactProgress'
    BY DEF ExactProgress
  <2>1. Rename(w) /\ quotaExact /\ quotaTask[w].at = "rename"
    BY DEF TmpFails, Rename
  <2>2. /\ \A v \in QuotaTasks \ {w} : quotaTask'[v] = quotaTask[v] /\ quotaTask[v].at = "idle"
        /\ quotaTask'[w] = NoOp /\ quotaTask[w].use.used = disk
        /\ \E f \in tmpFiles : f.name = TmpName(w)
    BY <1>1, <1>2, <2>1 DEF ExactProgress, QuotaShape
  <2>3. sidecar' = {quotaTask[w].use}
    BY <2>1, <2>2 DEF Rename, Some
  <2>4. Effective'.used = disk'
    <3>1. TheOne(sidecar') = quotaTask[w].use /\ sidecar' # None
      BY <2>3, TheOneIsIn DEF None
    <3> QED BY <1>2, <2>2, <3>1 DEF Effective, Usages
  <2>5. \A v \in QuotaTasks : quotaTask'[v].at = "idle"
    BY <1>3, <2>2
  <2> QED BY <2>4, <2>5 DEF ExactProgress, Quiet
<1> QED BY <1>7, <1>8 DEF QuotaInv

LEMMA QuotaKept == QuotaInv /\ [QuotaNext]_quotaVars => QuotaInv'
<1> SUFFICES ASSUME QuotaInv, [QuotaNext]_quotaVars PROVE QuotaInv'
  OBVIOUS
<1>1. CASE QuotaCrash
  <2>1. /\ quotaTask' = [w \in QuotaTasks |-> NoOp] /\ quotaExact' = FALSE
        /\ quotaCrashes' = quotaCrashes + 1
        /\ UNCHANGED <<sidecar, tmpFiles, disk>>
    BY <1>1 DEF QuotaCrash
  <2>2. QuotaShape' /\ ExactProgress'
    <3>1. NoOp \in QuotaSteps
      BY DEF QuotaSteps
    <3>2. quotaTask' \in [QuotaTasks -> QuotaSteps] /\ quotaCrashes' \in Nat
      BY <2>1, <3>1 DEF QuotaInv, QuotaShape
    <3> QED BY <2>1, <3>2 DEF QuotaInv, QuotaShape, ExactProgress
  <2>3. \A f \in tmpFiles : f.name[2] \in Nat /\ f.name[2] <= quotaCrashes
    BY DEF QuotaInv, QuotaShape, TmpFiles, FilesOwned
  <2>4. quotaCrashes \in Nat
    BY DEF QuotaInv, QuotaShape
  <2>5. Orphans' = tmpFiles' /\ \A f \in tmpFiles' : f.name[2] <= quotaCrashes'
    BY <2>1, <2>3, <2>4 DEF Orphans
  <2>6. \A w \in QuotaTasks : quotaTask'[w].at = "idle"
    BY <2>1 DEF NoOp
  <2>7. FilesOwned'
    BY <2>5, <2>6 DEF FilesOwned
  <2> QED BY <2>2, <2>7 DEF QuotaInv
<1>2. CASE UNCHANGED quotaVars
  BY <1>2 DEF QuotaInv, quotaVars, QuotaShape, FilesOwned, Orphans, ExactProgress, Quiet,
              Effective, TmpName
<1> QED BY <1>1, <1>2, CheckKeepsQuota, WriteKeepsQuota, RecordKeepsQuota, ReconcileKeepsQuota,
           SweepKeepsQuota, ScanKeepsQuota, LimitKeepsQuota, FailedReconcileKeepsQuota, FileStepsKeepQuota, LastStepsKeepQuota
        DEF QuotaNext

\* However checks, writes, records, reconciles and restarts interleave, the
\* recorded use is what is on disk whenever nothing is in flight and nothing
\* raced, failed or crashed since the start or the last reconcile that ran alone.
THEOREM RecordedUseConverges == Spec => []QuotaConverges
<1>1. QuotaInv => QuotaConverges
  BY DEF QuotaInv, ExactProgress, QuotaConverges
<1>2. QuotaInv /\ [Next]_vars => QuotaInv'
  BY SceneSteps, QuotaKept
<1>3. Init => QuotaInv
  BY QuotaInitial DEF Init
<1> QED BY <1>1, <1>2, <1>3, PTL DEF Spec

----------------------------------------------------------------------------
(* Nostr relay.                                                            *)

Stages == {<<>>, <<"send">>, <<"put", "send">>, <<"replace", "send">>}

RelayShape ==
    /\ ingesting \in [Publishers -> {NoIngest} \cup [event : Events, todo : Stages]]
    /\ stored \in Seq(Events) /\ live \in Seq(Events)
    /\ socket.cursor \in 0..Len(live)
    /\ DOMAIN socket = DOMAIN NoSocket

SameSlot(e, f) == HasSlot(e) /\ HasSlot(f) /\ Slot(e) = Slot(f)
Busy(p) == ingesting[p].todo # <<>>

\* two ingests of one slot have been noted, and one about to put has no rival
OverlapsNoted ==
    \A p, q \in Publishers :
        p # q /\ Busy(p) /\ Busy(q) /\ SameSlot(ingesting[p].event, ingesting[q].event)
            => Slot(ingesting[p].event) \in overlapped
PutsHaveRoom ==
    \A p \in Publishers :
        (ingesting[p].todo = <<"put", "send">> /\ HasSlot(ingesting[p].event)) =>
            \/ Slot(ingesting[p].event) \in overlapped
            \/ \A i \in DOMAIN stored : ~SameSlot(stored[i], ingesting[p].event)

\* a stored event was sent, is being ingested, or is ahead in the broadcast
Ahead(e) == \E k \in (socket.cursor + 1)..Len(live) : live[k] = e
NothingMissed ==
    (socket.sub # None /\ ~socket.lagged) =>
        \A i \in DOMAIN stored, j \in DOMAIN TheOne(socket.sub) :
            (Matches(TheOne(socket.sub)[j], stored[i]) /\ TheOne(socket.sub)[j].limit = None) =>
                \/ stored[i].id \in socket.sent \/ Ahead(stored[i])
                \/ \E p \in Publishers : Busy(p) /\ ingesting[p].event = stored[i]

RelayInv ==
    /\ RelayShape /\ OverlapsNoted /\ PutsHaveRoom
    /\ ReplaceableStoredOnce /\ NothingMissed

LEMMA PairConcat ==
    ASSUME NEW x, NEW y PROVE <<x>> \o <<y>> = <<x, y>>
<1>1. <<x>> \in Seq({x, y}) /\ <<y>> \in Seq({x, y}) /\ Len(<<x>>) = 1 /\ Len(<<y>>) = 1
  OBVIOUS
<1>2. <<x>> \o <<y>> \in Seq({x, y}) /\ Len(<<x>> \o <<y>>) = 2
  BY <1>1, ConcatProperties
<1>3. (<<x>> \o <<y>>)[1] = x /\ (<<x>> \o <<y>>)[2] = y
  BY <1>1, ConcatProperties
<1>4. <<x, y>> \in Seq({x, y}) /\ Len(<<x, y>>) = 2 /\ <<x, y>>[1] = x /\ <<x, y>>[2] = y
  OBVIOUS
<1> DEFINE s == <<x>> \o <<y>>
           t == <<x, y>>
<1>5. \A i \in 1..Len(s) : s[i] = t[i]
  BY <1>2, <1>3, <1>4
<1> HIDE DEF s, t
<1> QED BY <1>2, <1>4, <1>5, SeqEqual DEF s, t

LEMMA StageMoves ==
    /\ <<"send">> # <<>> /\ <<"put", "send">> # <<>> /\ <<"replace", "send">> # <<>>
    /\ <<"send">> # <<"put", "send">> /\ <<"replace", "send">> # <<"put", "send">>
    /\ Head(<<"send">>) = "send" /\ Head(<<"put", "send">>) = "put"
    /\ Head(<<"replace", "send">>) = "replace"
    /\ Tail(<<"send">>) = <<>> /\ Tail(<<"put", "send">>) = <<"send">>
    /\ Tail(<<"replace", "send">>) = <<"send">>
    /\ <<"put">> \o <<"send">> = <<"put", "send">>
<1>1. /\ <<"send">> # <<>> /\ <<"put", "send">> # <<>> /\ <<"replace", "send">> # <<>>
      /\ <<"send">> # <<"put", "send">> /\ <<"replace", "send">> # <<"put", "send">>
  OBVIOUS
<1>2. /\ Head(<<"send">>) = "send" /\ Head(<<"put", "send">>) = "put"
      /\ Head(<<"replace", "send">>) = "replace"
  OBVIOUS
<1>3. Tail(<<"send">>) = <<>>
  OBVIOUS
<1>4. Tail(<<"put", "send">>) = <<"send">> /\ Tail(<<"replace", "send">>) = <<"send">>
  OBVIOUS
<1>5. <<"put">> \o <<"send">> = <<"put", "send">>
  BY PairConcat
<1> QED BY <1>1, <1>2, <1>3, <1>4, <1>5

\* A publisher at work, and the one stage it can be at.
LEMMA StageOf ==
    ASSUME RelayShape, NEW p \in Publishers
    PROVE /\ Busy(p) => ingesting[p] \in [event : Events, todo : Stages]
          /\ At(p, "replace") => Busy(p) /\ ingesting[p].todo = <<"replace", "send">>
          /\ At(p, "put") => Busy(p) /\ ingesting[p].todo = <<"put", "send">>
          /\ At(p, "send") => Busy(p) /\ ingesting[p].todo = <<"send">>
<1>1. Busy(p) => ingesting[p] \in [event : Events, todo : Stages]
  BY DEF RelayShape, Busy, NoIngest
<1>2. \A stage : At(p, stage) => Busy(p) /\ Head(ingesting[p].todo) = stage
  BY DEF At, Busy
<1>3. Busy(p) => ingesting[p].todo \in {<<"send">>, <<"put", "send">>, <<"replace", "send">>}
  BY <1>1 DEF Busy, Stages
<1> QED BY <1>1, <1>2, <1>3, StageMoves

LEMMA RelayInitial == RelayInit => RelayInv
<1> SUFFICES ASSUME RelayInit PROVE RelayInv
  OBVIOUS
<1>1. /\ stored \in Seq(Events) /\ live \in Seq(Events)
      /\ DOMAIN stored = {} /\ Len(live) = 0
  BY EmptySeq DEF RelayInit
<1>2. socket.cursor = 0 /\ socket.sub = None /\ DOMAIN socket = DOMAIN NoSocket
  BY DEF RelayInit, NoSocket
<1>3. \A p \in Publishers : ~Busy(p) /\ ingesting[p].todo = <<>>
  BY DEF RelayInit, Busy, NoIngest
<1>4. RelayShape
  BY <1>1, <1>2 DEF RelayShape, RelayInit
<1>5. OverlapsNoted /\ PutsHaveRoom
  BY <1>3, StageMoves DEF OverlapsNoted, PutsHaveRoom
<1>6. ReplaceableStoredOnce /\ NothingMissed
  BY <1>1, <1>2 DEF ReplaceableStoredOnce, NothingMissed
<1> QED BY <1>4, <1>5, <1>6 DEF RelayInv

\* What NothingMissed says of the next state.
LEMMA NothingMissedNext ==
    NothingMissed' <=>
        ((socket'.sub # None /\ ~socket'.lagged) =>
            \A i \in DOMAIN stored', j \in DOMAIN TheOne(socket'.sub) :
                (Matches(TheOne(socket'.sub)[j], stored'[i]) /\ TheOne(socket'.sub)[j].limit = None) =>
                    \/ stored'[i].id \in socket'.sent
                    \/ \E k \in (socket'.cursor + 1)..Len(live') : live'[k] = stored'[i]
                    \/ \E p \in Publishers : ingesting'[p].todo # <<>> /\ ingesting'[p].event = stored'[i])
BY Zenon DEF NothingMissed, Ahead, Busy

\* What is being ingested or is ahead in the broadcast.
OnItsWay == {live[k] : k \in (socket.cursor + 1)..Len(live)}
            \cup {ingesting[p].event : p \in {q \in Publishers : Busy(q)}}

\* Nothing is missed as long as what is stored was stored before or is on its
\* way, and what was on its way still is, was sent or is not asked for.
LEMMA StillNothingMissed ==
    ASSUME NothingMissed, socket'.sub = socket.sub, socket'.lagged = socket.lagged,
           socket.sent \subseteq socket'.sent,
           \A i \in DOMAIN stored' :
               stored'[i] \in OnItsWay' \/ \E k \in DOMAIN stored : stored[k] = stored'[i],
           \A v \in OnItsWay :
               \/ v \in OnItsWay' \/ v.id \in socket'.sent
               \/ \A j \in DOMAIN TheOne(socket.sub) : ~Matches(TheOne(socket.sub)[j], v)
    PROVE NothingMissed'
<1>1. \A v : v \in OnItsWay' <=>
          \/ \E k \in (socket'.cursor + 1)..Len(live') : live'[k] = v
          \/ \E p \in Publishers : ingesting'[p].todo # <<>> /\ ingesting'[p].event = v
  BY DEF OnItsWay, Busy
<1>2. \A v : v \in OnItsWay <=>
          Ahead(v) \/ \E p \in Publishers : Busy(p) /\ ingesting[p].event = v
  BY DEF OnItsWay, Ahead
<1> SUFFICES ASSUME socket.sub # None, ~socket.lagged, NEW i \in DOMAIN stored',
                    NEW j \in DOMAIN TheOne(socket.sub),
                    Matches(TheOne(socket.sub)[j], stored'[i]),
                    TheOne(socket.sub)[j].limit = None,
                    stored'[i] \notin OnItsWay'
             PROVE stored'[i].id \in socket'.sent
  BY <1>1, NothingMissedNext
<1>3. PICK k \in DOMAIN stored : stored[k] = stored'[i]
  OBVIOUS
<1>4. stored[k].id \in socket.sent \/ stored[k] \in OnItsWay
  BY <1>2, <1>3 DEF NothingMissed
<1> QED BY <1>3, <1>4

\* No ingest starts: what overlaps was noted before.
LEMMA StillNoted ==
    ASSUME OverlapsNoted, overlapped' = overlapped,
           \A q \in Publishers : ingesting'[q].todo # <<>> =>
               Busy(q) /\ ingesting'[q].event = ingesting[q].event
    PROVE OverlapsNoted'
<1>1. ASSUME NEW q \in Publishers, NEW s \in Publishers, q # s,
             ingesting'[q].todo # <<>>, ingesting'[s].todo # <<>>,
             SameSlot(ingesting'[q].event, ingesting'[s].event)
      PROVE Slot(ingesting'[q].event) \in overlapped'
  <2>1. /\ Busy(q) /\ Busy(s) /\ ingesting'[q].event = ingesting[q].event
        /\ ingesting'[s].event = ingesting[s].event
    BY <1>1
  <2>2. Slot(ingesting[q].event) \in overlapped
    BY <1>1, <2>1 DEF OverlapsNoted
  <2> QED BY <2>1, <2>2
<1> QED BY <1>1 DEF OverlapsNoted, Busy, SameSlot, HasSlot, Slot

LEMMA HandleEventKeepsRelay ==
    ASSUME RelayInv, NEW p \in Publishers, NEW e \in Events, HandleEvent(p, e) PROVE RelayInv'
<1>1. RelayShape /\ OverlapsNoted /\ PutsHaveRoom /\ ReplaceableStoredOnce /\ NothingMissed
  BY DEF RelayInv
<1>2. PICK r : r = IF e.ok THEN [event |-> e, todo |-> Pipeline(e)] ELSE NoIngest
  OBVIOUS
<1>3. /\ r \in {NoIngest} \cup [event : Events, todo : Stages]
      /\ r.todo # <<>> => e.ok /\ r.event = e
      /\ r.todo = <<"put", "send">> => ~HasSlot(e)
  BY <1>2, StageMoves DEF Pipeline, Stages, NoIngest
<1>4. /\ ~Busy(p) /\ ingesting' = [ingesting EXCEPT ![p] = r]
      /\ UNCHANGED <<stored, live, socket>>
      /\ overlapped \subseteq overlapped'
      /\ (e.ok /\ HasSlot(e) /\ \E q \in Publishers : Ingesting(q, e)) => Slot(e) \in overlapped'
  BY <1>2 DEF HandleEvent, Busy
<1>5. /\ ingesting'[p] = r /\ \A q \in Publishers \ {p} : ingesting'[q] = ingesting[q]
  BY <1>1, <1>4 DEF RelayShape
<1>6. RelayShape'
  BY <1>1, <1>3, <1>4 DEF RelayShape
<1>7. OverlapsNoted'
  <2>1. ASSUME NEW q \in Publishers, q # p, r.todo # <<>>, Busy(q),
               SameSlot(r.event, ingesting[q].event)
        PROVE Slot(e) \in overlapped' /\ Slot(ingesting[q].event) = Slot(e)
    <3>1. Ingesting(q, e) /\ HasSlot(e) /\ e.ok /\ Slot(ingesting[q].event) = Slot(e)
      BY <1>3, <2>1 DEF Ingesting, SameSlot, Busy
    <3> QED BY <1>4, <3>1
  <2>2. \A q, s \in Publishers \ {p} :
            q # s /\ Busy(q) /\ Busy(s) /\ SameSlot(ingesting[q].event, ingesting[s].event)
                => Slot(ingesting[q].event) \in overlapped'
    BY <1>1, <1>4 DEF OverlapsNoted
  <2>3. ASSUME NEW q \in Publishers, NEW s \in Publishers, q # s,
               ingesting'[q].todo # <<>>, ingesting'[s].todo # <<>>,
               SameSlot(ingesting'[q].event, ingesting'[s].event)
        PROVE Slot(ingesting'[q].event) \in overlapped'
    <3>1. CASE q = p
      BY <1>3, <1>5, <2>1, <2>3, <3>1 DEF Busy
    <3>2. CASE s = p
      BY <1>3, <1>5, <2>1, <2>3, <3>2 DEF Busy, SameSlot
    <3>3. CASE q # p /\ s # p
      BY <1>5, <2>2, <2>3, <3>3 DEF Busy
    <3> QED BY <3>1, <3>2, <3>3
  <2> QED BY <2>3 DEF OverlapsNoted, Busy, SameSlot, HasSlot, Slot
<1>8. PutsHaveRoom'
  <2>1. ASSUME NEW q \in Publishers, ingesting'[q].todo = <<"put", "send">>,
               HasSlot(ingesting'[q].event)
        PROVE \/ Slot(ingesting'[q].event) \in overlapped'
              \/ \A i \in DOMAIN stored' : ~SameSlot(stored'[i], ingesting'[q].event)
    <3>1. q # p
      BY <1>3, <1>5, <2>1, StageMoves
    <3> QED BY <1>1, <1>4, <1>5, <2>1, <3>1 DEF PutsHaveRoom
  <2> QED BY <2>1 DEF PutsHaveRoom, SameSlot, HasSlot, Slot
<1>9. ReplaceableStoredOnce'
  BY <1>1, <1>4 DEF ReplaceableStoredOnce, HasSlot, Slot
<1>10. NothingMissed'
  <2>1. \A q \in Publishers : Busy(q) => ingesting'[q] = ingesting[q]
    BY <1>4, <1>5
  <2>2. OnItsWay \subseteq OnItsWay'
    BY <1>4, <2>1 DEF OnItsWay, Busy
  <2> QED BY <1>1, <1>4, <2>2, StillNothingMissed
<1> QED BY <1>6, <1>7, <1>8, <1>9, <1>10 DEF RelayInv

LEMMA ReplaceKeepsRelay ==
    ASSUME RelayInv, NEW p \in Publishers, ReplaceWhere(p) PROVE RelayInv'
<1>1. RelayShape /\ OverlapsNoted /\ PutsHaveRoom /\ ReplaceableStoredOnce /\ NothingMissed
  BY DEF RelayInv
<1>2. PICK e : e = ingesting[p].event
  OBVIOUS
<1>3. /\ ingesting[p] \in [event : Events, todo : Stages] /\ e \in Events
      /\ Busy(p) /\ ingesting[p].todo = <<"replace", "send">>
  BY <1>1, <1>2, StageOf DEF ReplaceWhere
<1> DEFINE same == {i \in DOMAIN stored : HasSlot(stored[i]) /\ Slot(stored[i]) = Slot(e)}
           first == CHOOSE i \in same : \A j \in same : i <= j
<1>4. PICK todo \in Stages :
          /\ todo = IF same # {} THEN <<"send">> ELSE <<"put", "send">>
          /\ ingesting' = [ingesting EXCEPT ![p].todo = todo]
  BY <1>2, <1>3, StageMoves DEF ReplaceWhere, Stages
<1>5. /\ stored' = IF same # {} THEN [stored EXCEPT ![first] = e] ELSE stored
      /\ UNCHANGED <<live, socket, overlapped>>
  BY <1>2 DEF ReplaceWhere
<1>6. /\ same \subseteq DOMAIN stored /\ DOMAIN stored \subseteq Nat
      /\ \A i \in DOMAIN stored : stored[i] \in Events
  BY <1>1, LenProperties DEF RelayShape
<1>7. same # {} => first \in same
  <2> HIDE DEF same
  <2>1. same # {} => \E i \in same : \A j \in same : i <= j
    BY <1>6, LeastOf
  <2> QED BY <2>1
<1>8. \A i \in DOMAIN stored :
          i \in same <=> HasSlot(stored[i]) /\ Slot(stored[i]) = Slot(e)
  OBVIOUS
<1> HIDE DEF same, first
<1>9. /\ DOMAIN stored' = DOMAIN stored /\ stored' \in Seq(Events)
      /\ \A i \in DOMAIN stored : stored'[i] = stored[i] \/ (same # {} /\ i = first /\ stored'[i] = e)
  BY <1>1, <1>3, <1>5, <1>6, <1>7, ExceptSeq DEF RelayShape
<1>10. /\ ingesting'[p].event = e /\ ingesting'[p].todo = todo /\ todo # <<>>
       /\ \A q \in Publishers \ {p} : ingesting'[q] = ingesting[q]
       /\ ingesting' \in [Publishers -> {NoIngest} \cup [event : Events, todo : Stages]]
  BY <1>1, <1>2, <1>3, <1>4, StageMoves DEF RelayShape
<1>11. RelayShape'
  BY <1>1, <1>5, <1>9, <1>10 DEF RelayShape
<1>12. \A q \in Publishers : /\ ingesting'[q].todo # <<>> <=> Busy(q)
                             /\ Busy(q) => ingesting'[q].event = ingesting[q].event
  BY <1>2, <1>3, <1>10 DEF Busy
<1>13. OverlapsNoted'
  BY <1>1, <1>5, <1>12, StillNoted
<1>14. PutsHaveRoom'
  <2>1. ASSUME NEW q \in Publishers, ingesting'[q].todo = <<"put", "send">>,
               HasSlot(ingesting'[q].event)
        PROVE \/ Slot(ingesting'[q].event) \in overlapped'
              \/ \A i \in DOMAIN stored' : ~SameSlot(stored'[i], ingesting'[q].event)
    <3>1. CASE q = p
      <4>1. same = {} /\ stored' = stored
        BY <1>4, <1>5, <1>10, <2>1, <3>1, StageMoves
      <4> QED BY <1>8, <1>10, <3>1, <4>1 DEF SameSlot
    <3>2. CASE q # p
      <4>1. /\ ingesting'[q] = ingesting[q] /\ Busy(q)
            /\ ingesting[q].todo = <<"put", "send">> /\ HasSlot(ingesting[q].event)
        BY <1>10, <2>1, <3>2, StageMoves DEF Busy
      <4>2. SameSlot(e, ingesting[q].event) => Slot(ingesting[q].event) \in overlapped
        BY <1>1, <1>2, <1>3, <3>2, <4>1 DEF OverlapsNoted, SameSlot
      <4>3. \/ Slot(ingesting[q].event) \in overlapped
            \/ \A i \in DOMAIN stored : ~SameSlot(stored[i], ingesting[q].event)
        BY <1>1, <4>1 DEF PutsHaveRoom
      <4> QED BY <1>5, <1>9, <4>1, <4>2, <4>3
    <3> QED BY <3>1, <3>2
  <2> QED BY <2>1 DEF PutsHaveRoom, SameSlot, HasSlot, Slot
<1>15. ReplaceableStoredOnce'
  <2>1. \A i \in DOMAIN stored' : HasSlot(stored'[i]) =>
            (stored'[i] = stored[i] \/ (HasSlot(stored[i]) /\ Slot(stored[i]) = Slot(stored'[i])))
    BY <1>6, <1>7, <1>8, <1>9
  <2>2. ASSUME NEW i \in DOMAIN stored', NEW j \in DOMAIN stored', i # j,
               HasSlot(stored'[i]), HasSlot(stored'[j]), Slot(stored'[i]) = Slot(stored'[j])
        PROVE Slot(stored'[i]) \in overlapped'
    <3>1. /\ HasSlot(stored[i]) /\ HasSlot(stored[j]) /\ Slot(stored[i]) = Slot(stored'[i])
          /\ Slot(stored[i]) = Slot(stored[j])
      BY <2>1, <2>2
    <3> QED BY <1>1, <1>5, <1>9, <2>2, <3>1 DEF ReplaceableStoredOnce
  <2> QED BY <2>2 DEF ReplaceableStoredOnce, HasSlot, Slot
<1>16. NothingMissed'
  <2>1. OnItsWay' = OnItsWay /\ e \in OnItsWay
    BY <1>2, <1>3, <1>5, <1>12 DEF OnItsWay, Busy
  <2>2. \A i \in DOMAIN stored' :
            stored'[i] \in OnItsWay' \/ \E k \in DOMAIN stored : stored[k] = stored'[i]
    BY <1>9, <2>1
  <2> QED BY <1>1, <1>5, <2>1, <2>2, StillNothingMissed
<1> QED BY <1>11, <1>13, <1>14, <1>15, <1>16 DEF RelayInv

LEMMA PutKeepsRelay ==
    ASSUME RelayInv, NEW p \in Publishers, StorePut(p) PROVE RelayInv'
<1>1. RelayShape /\ OverlapsNoted /\ PutsHaveRoom /\ ReplaceableStoredOnce /\ NothingMissed
  BY DEF RelayInv
<1>2. PICK e : e = ingesting[p].event
  OBVIOUS
<1>3. /\ ingesting[p] \in [event : Events, todo : Stages] /\ e \in Events
      /\ Busy(p) /\ ingesting[p].todo = <<"put", "send">>
  BY <1>1, <1>2, StageOf DEF StorePut
<1>4. PICK kept : kept = IF Len(stored) >= MaxEvents THEN Tail(stored) ELSE stored
  OBVIOUS
<1>5. /\ stored' = Append(kept, e) /\ UNCHANGED <<live, socket, overlapped>>
      /\ ingesting' = [ingesting EXCEPT ![p].todo = <<"send">>]
  BY <1>1, <1>2, <1>3, <1>4, StageMoves DEF StorePut, RelayShape
<1>6. PICK d \in {0, 1} :
          /\ kept \in Seq(Events) /\ Len(kept) \in Nat
          /\ \A i \in 1..Len(kept) : i + d \in DOMAIN stored /\ kept[i] = stored[i + d]
  <2>1. stored \in Seq(Events) /\ Len(stored) \in Nat /\ DOMAIN stored = 1..Len(stored)
    BY <1>1, LenProperties DEF RelayShape
  <2>2. CASE kept = stored
    BY <2>1, <2>2
  <2>3. CASE kept = Tail(stored) /\ Len(stored) >= MaxEvents
    <3>1. stored # <<>>
      BY <2>1, <2>3, RelayAssumption
    <3>2. /\ Tail(stored) \in Seq(Events) /\ Len(Tail(stored)) = Len(stored) - 1
          /\ \A i \in 1..Len(Tail(stored)) : Tail(stored)[i] = stored[i + 1]
      BY <2>1, <3>1, HeadTailProperties
    <3>3. Len(stored) # 0
      BY <2>1, <3>1, EmptySeq
    <3> QED BY <2>1, <2>3, <3>2, <3>3
  <2> QED BY <1>4, <2>2, <2>3
<1> DEFINE n == Len(kept)
<1>7. /\ stored' \in Seq(Events) /\ DOMAIN stored' = 1..(n + 1) /\ n \in Nat
      /\ \A i \in 1..n : stored'[i] = kept[i]
      /\ stored'[n + 1] = e
  BY <1>3, <1>5, <1>6, AppendProperties, LenProperties
<1> HIDE DEF n
<1>8. /\ ingesting'[p].event = e /\ ingesting'[p].todo = <<"send">>
      /\ \A q \in Publishers \ {p} : ingesting'[q] = ingesting[q]
      /\ ingesting' \in [Publishers -> {NoIngest} \cup [event : Events, todo : Stages]]
  BY <1>1, <1>2, <1>3, <1>5 DEF RelayShape, Stages
<1>9. RelayShape'
  BY <1>1, <1>5, <1>7, <1>8 DEF RelayShape
<1>10. \A q \in Publishers : /\ ingesting'[q].todo # <<>> <=> Busy(q)
                             /\ Busy(q) => ingesting'[q].event = ingesting[q].event
  BY <1>2, <1>3, <1>8, StageMoves DEF Busy
<1>11. OverlapsNoted'
  BY <1>1, <1>5, <1>10, StillNoted
<1>12. PutsHaveRoom'
  <2>1. ASSUME NEW q \in Publishers, ingesting'[q].todo = <<"put", "send">>,
               HasSlot(ingesting'[q].event)
        PROVE \/ Slot(ingesting'[q].event) \in overlapped'
              \/ \A i \in DOMAIN stored' : ~SameSlot(stored'[i], ingesting'[q].event)
    <3>1. q # p
      BY <1>8, <2>1, StageMoves
    <3>2. /\ ingesting'[q] = ingesting[q] /\ Busy(q)
          /\ ingesting[q].todo = <<"put", "send">> /\ HasSlot(ingesting[q].event)
      BY <1>8, <2>1, <3>1, StageMoves DEF Busy
    <3>3. SameSlot(e, ingesting[q].event) => Slot(ingesting[q].event) \in overlapped
      BY <1>1, <1>2, <1>3, <3>1, <3>2 DEF OverlapsNoted, SameSlot
    <3>4. \/ Slot(ingesting[q].event) \in overlapped
          \/ \A i \in DOMAIN stored : ~SameSlot(stored[i], ingesting[q].event)
      BY <1>1, <3>2 DEF PutsHaveRoom
    <3>5. \A i \in DOMAIN stored' : stored'[i] = e \/ \E k \in DOMAIN stored : stored'[i] = stored[k]
      BY <1>6, <1>7 DEF n
    <3> QED BY <1>5, <3>2, <3>3, <3>4, <3>5
  <2> QED BY <2>1 DEF PutsHaveRoom, SameSlot, HasSlot, Slot
<1>13. ReplaceableStoredOnce'
  <2>1. HasSlot(e) => Slot(e) \in overlapped \/ \A i \in DOMAIN stored : ~SameSlot(stored[i], e)
    BY <1>1, <1>2, <1>3 DEF PutsHaveRoom
  <2>2. ASSUME NEW i \in 1..(n + 1), NEW j \in 1..(n + 1), i # j,
               HasSlot(stored'[i]), HasSlot(stored'[j]), Slot(stored'[i]) = Slot(stored'[j])
        PROVE Slot(stored'[i]) \in overlapped
    <3>1. CASE i \in 1..n /\ j \in 1..n
      <4>1. /\ i + d \in DOMAIN stored /\ j + d \in DOMAIN stored /\ i + d # j + d
            /\ stored'[i] = stored[i + d] /\ stored'[j] = stored[j + d]
        BY <1>6, <1>7, <2>2, <3>1 DEF n
      <4> QED BY <1>1, <2>2, <4>1 DEF ReplaceableStoredOnce
    <3>2. CASE i = n + 1 /\ j \in 1..n
      <4>1. j + d \in DOMAIN stored /\ stored'[j] = stored[j + d] /\ stored'[i] = e
        BY <1>6, <1>7, <3>2 DEF n
      <4> QED BY <2>1, <2>2, <4>1 DEF SameSlot
    <3>3. CASE j = n + 1 /\ i \in 1..n
      <4>1. i + d \in DOMAIN stored /\ stored'[i] = stored[i + d] /\ stored'[j] = e
        BY <1>6, <1>7, <3>3 DEF n
      <4> QED BY <2>1, <2>2, <4>1 DEF SameSlot
    <3> QED BY <1>7, <2>2, <3>1, <3>2, <3>3
  <2> QED BY <1>5, <1>7, <2>2 DEF ReplaceableStoredOnce, HasSlot, Slot
<1>14. NothingMissed'
  <2>1. OnItsWay' = OnItsWay /\ e \in OnItsWay
    BY <1>2, <1>3, <1>5, <1>10 DEF OnItsWay, Busy
  <2>2. \A i \in DOMAIN stored' :
            stored'[i] \in OnItsWay' \/ \E k \in DOMAIN stored : stored[k] = stored'[i]
    BY <1>6, <1>7, <2>1 DEF n
  <2> QED BY <1>1, <1>5, <2>1, <2>2, StillNothingMissed
<1> QED BY <1>9, <1>11, <1>12, <1>13, <1>14 DEF RelayInv

LEMMA BroadcastKeepsRelay ==
    ASSUME RelayInv, NEW p \in Publishers, Broadcast(p) PROVE RelayInv'
<1>1. RelayShape /\ OverlapsNoted /\ PutsHaveRoom /\ ReplaceableStoredOnce /\ NothingMissed
  BY DEF RelayInv
<1>2. PICK e : e = ingesting[p].event
  OBVIOUS
<1>3. /\ ingesting[p] \in [event : Events, todo : Stages] /\ e \in Events
      /\ Busy(p) /\ ingesting[p].todo = <<"send">>
  BY <1>1, <1>2, StageOf DEF Broadcast
<1>4. /\ live' = Append(live, e) /\ UNCHANGED <<stored, socket, overlapped>>
      /\ ingesting' = [ingesting EXCEPT ![p].todo = <<>>]
  BY <1>1, <1>2, <1>3, StageMoves DEF Broadcast, RelayShape
<1> DEFINE n == Len(live)
<1>5. /\ live' \in Seq(Events) /\ Len(live') = n + 1 /\ n \in Nat
      /\ \A i \in 1..n : live'[i] = live[i]
      /\ live'[n + 1] = e
  BY <1>1, <1>3, <1>4, AppendProperties, LenProperties DEF RelayShape
<1>6. socket.cursor \in 0..n
  BY <1>1 DEF RelayShape
<1>7. /\ ingesting'[p].todo = <<>>
      /\ \A q \in Publishers \ {p} : ingesting'[q] = ingesting[q]
      /\ ingesting' \in [Publishers -> {NoIngest} \cup [event : Events, todo : Stages]]
  BY <1>1, <1>3, <1>4 DEF RelayShape, Stages
<1>8. RelayShape'
  BY <1>1, <1>4, <1>5, <1>6, <1>7 DEF RelayShape
<1>9. \A q \in Publishers : ingesting'[q].todo # <<>> => Busy(q) /\ ingesting'[q] = ingesting[q]
  BY <1>7 DEF Busy
<1>10. OverlapsNoted'
  BY <1>1, <1>4, <1>9, StillNoted
<1>11. PutsHaveRoom'
  <2>1. ASSUME NEW q \in Publishers, ingesting'[q].todo = <<"put", "send">>,
               HasSlot(ingesting'[q].event)
        PROVE \/ Slot(ingesting'[q].event) \in overlapped'
              \/ \A i \in DOMAIN stored' : ~SameSlot(stored'[i], ingesting'[q].event)
    <3>1. /\ ingesting'[q] = ingesting[q] /\ ingesting[q].todo = <<"put", "send">>
          /\ HasSlot(ingesting[q].event)
      BY <1>9, <2>1, StageMoves
    <3> QED BY <1>1, <1>4, <3>1 DEF PutsHaveRoom
  <2> QED BY <2>1 DEF PutsHaveRoom, SameSlot, HasSlot, Slot
<1>12. ReplaceableStoredOnce'
  BY <1>1, <1>4 DEF ReplaceableStoredOnce, HasSlot, Slot
<1>13. NothingMissed'
  <2>1. ASSUME NEW v \in OnItsWay PROVE v \in OnItsWay'
    <3>1. CASE v = e
      <4>1. n + 1 \in (socket'.cursor + 1)..Len(live') /\ live'[n + 1] = v
        BY <1>4, <1>5, <1>6, <3>1
      <4> QED BY <4>1 DEF OnItsWay
    <3>2. CASE v # e /\ \E q \in Publishers : Busy(q) /\ ingesting[q].event = v
      <4>1. PICK q \in Publishers : Busy(q) /\ ingesting[q].event = v
        BY <3>2
      <4>2. ingesting'[q] = ingesting[q]
        BY <1>2, <1>7, <3>2, <4>1
      <4> QED BY <4>1, <4>2 DEF OnItsWay, Busy
    <3>3. CASE \E k \in (socket.cursor + 1)..n : live[k] = v
      <4>1. PICK k \in (socket.cursor + 1)..n : live[k] = v
        BY <3>3
      <4>2. k \in (socket'.cursor + 1)..Len(live') /\ live'[k] = v
        BY <1>4, <1>5, <1>6, <4>1
      <4> QED BY <4>2 DEF OnItsWay
    <3> QED BY <2>1, <3>1, <3>2, <3>3 DEF OnItsWay
  <2> QED BY <1>1, <1>4, <2>1, StillNothingMissed
<1> QED BY <1>8, <1>10, <1>11, <1>12, <1>13 DEF RelayInv

\* The socket's own steps leave the store and the publishers alone.
LEMMA SocketKeepsStore ==
    ASSUME RelayInv, UNCHANGED <<stored, live, ingesting, overlapped>>,
           DOMAIN socket' = DOMAIN socket, socket'.cursor \in 0..Len(live), NothingMissed'
    PROVE RelayInv'
<1>1. RelayShape /\ OverlapsNoted /\ PutsHaveRoom /\ ReplaceableStoredOnce
  BY DEF RelayInv
<1>2. RelayShape'
  BY <1>1 DEF RelayShape
<1>3. OverlapsNoted' /\ PutsHaveRoom'
  BY <1>1 DEF OverlapsNoted, PutsHaveRoom, Busy, SameSlot, HasSlot, Slot
<1>4. ReplaceableStoredOnce'
  BY <1>1 DEF ReplaceableStoredOnce, HasSlot, Slot
<1> QED BY <1>2, <1>3, <1>4 DEF RelayInv

\* A filter without a limit finds every stored event it matches.
LEMMA HistoryIsComplete ==
    ASSUME NEW filters, NEW i \in DOMAIN stored, NEW j \in DOMAIN filters,
           Matches(filters[j], stored[i]), filters[j].limit = None
    PROVE stored[i].id \in History(filters)
<1>1. i \in Found(filters[j])
  BY DEF Found, LastOf, None
<1> QED BY <1>1 DEF History

LEMMA SocketKeepsRelay ==
    ASSUME RelayInv,
           \/ \E r \in Requests : HandleReq(r)
           \/ HandleClose \/ OtherFrame \/ LiveEvent \/ SocketEnds
    PROVE RelayInv'
<1>1. /\ RelayShape /\ NothingMissed /\ socket.cursor \in 0..Len(live)
      /\ DOMAIN socket = {"open", "cursor", "stalled", "sub", "lagged", "sent"}
      /\ Len(live) \in Nat
  BY LenProperties DEF RelayInv, RelayShape, NoSocket
<1>2. ASSUME NEW r \in Requests, HandleReq(r) PROVE RelayInv'
  <2>1. /\ UNCHANGED <<stored, live, ingesting, overlapped>>
        /\ socket' = [socket EXCEPT !.sub = Some(r), !.sent = History(r),
                                    !.stalled = FALSE, !.lagged = FALSE]
    BY <1>2 DEF HandleReq
  <2>2. /\ DOMAIN socket' = DOMAIN socket /\ socket'.cursor = socket.cursor
        /\ socket'.sub = Some(r) /\ socket'.sent = History(r)
    BY <1>1, <2>1
  <2>3. TheOne(socket'.sub) = r
    BY <2>2, TheOneOfSome
  <2>4. NothingMissed'
    BY <2>1, <2>2, <2>3, HistoryIsComplete, NothingMissedNext
  <2> QED BY <1>1, <2>1, <2>2, <2>4, SocketKeepsStore
<1>3. CASE HandleClose \/ SocketEnds
  <2>1. /\ UNCHANGED <<stored, live, ingesting, overlapped>>
        /\ DOMAIN socket' = DOMAIN socket /\ socket'.sub = None
        /\ socket'.cursor \in {socket.cursor, 0}
    <3>1. CASE HandleClose
      BY <1>1, <3>1 DEF HandleClose
    <3>2. CASE SocketEnds
      <4>1. socket' = NoSocket /\ UNCHANGED <<stored, live, ingesting, overlapped>>
        BY <3>2 DEF SocketEnds
      <4>2. /\ DOMAIN NoSocket = DOMAIN socket
            /\ NoSocket.sub = None /\ NoSocket.cursor = 0
        BY <1>1 DEF NoSocket
      <4> QED BY <4>1, <4>2
    <3> QED BY <1>3, <3>1, <3>2
  <2>2. NothingMissed'
    BY <2>1, NothingMissedNext
  <2>3. socket'.cursor \in 0..Len(live)
    BY <1>1, <2>1
  <2> QED BY <2>1, <2>2, <2>3, SocketKeepsStore
<1>4. CASE OtherFrame
  <2>1. /\ UNCHANGED <<stored, live, ingesting, overlapped>>
        /\ DOMAIN socket' = DOMAIN socket /\ socket'.cursor = socket.cursor
        /\ socket'.sub = socket.sub /\ socket'.lagged = socket.lagged
        /\ socket'.sent = socket.sent
    BY <1>1, <1>4 DEF OtherFrame
  <2>2. OnItsWay' = OnItsWay
    BY <2>1 DEF OnItsWay, Busy
  <2>3. NothingMissed'
    BY <1>1, <2>1, <2>2, StillNothingMissed
  <2> QED BY <1>1, <2>1, <2>3, SocketKeepsStore
<1>5. CASE LiveEvent
  <2>1. UNCHANGED <<stored, live, ingesting, overlapped>> /\ socket.cursor < Len(live)
    BY <1>5 DEF LiveEvent
  <2>2. CASE Behind
    <3>1. /\ DOMAIN socket' = DOMAIN socket /\ socket'.lagged
          /\ socket'.cursor = Len(live) - LiveCapacity
      BY <1>1, <1>5, <2>2 DEF LiveEvent
    <3>2. NothingMissed'
      BY <3>1, NothingMissedNext
    <3>3. socket'.cursor \in 0..Len(live)
      BY <1>1, <2>2, <3>1, RelayAssumption DEF Behind
    <3> QED BY <2>1, <3>1, <3>2, <3>3, SocketKeepsStore
  <2>3. CASE ~Behind
    <3>1. PICK e : e = live[socket.cursor + 1]
      OBVIOUS
    <3>2. PICK news : news = IF socket.sub # None /\ \E i \in DOMAIN TheOne(socket.sub) :
                                    Matches(TheOne(socket.sub)[i], e)
                             THEN {e.id} ELSE {}
      OBVIOUS
    <3>3. socket' = [socket EXCEPT !.cursor = socket.cursor + 1, !.sent = socket.sent \cup news]
      BY <1>5, <2>3, <3>1, <3>2 DEF LiveEvent
    <3>4. /\ DOMAIN socket' = DOMAIN socket /\ socket'.cursor = socket.cursor + 1
          /\ socket'.sub = socket.sub /\ socket'.lagged = socket.lagged
          /\ socket'.sent = socket.sent \cup news
      BY <1>1, <3>3
    <3>5. CASE socket.sub = None
      <4>1. NothingMissed'
        BY <3>4, <3>5, NothingMissedNext
      <4> QED BY <1>1, <2>1, <3>4, <4>1, SocketKeepsStore
    <3>6. CASE socket.sub # None
      <4>1. \A v \in OnItsWay : v \in OnItsWay' \/ v = e
        <5>1. \A k \in (socket.cursor + 1)..Len(live) :
                  k = socket.cursor + 1 \/ k \in (socket'.cursor + 1)..Len(live')
          BY <1>1, <2>1, <3>4
        <5> QED BY <2>1, <3>1, <5>1 DEF OnItsWay, Busy
      <4>2. \/ e.id \in socket'.sent
            \/ \A j \in DOMAIN TheOne(socket.sub) : ~Matches(TheOne(socket.sub)[j], e)
        BY <3>2, <3>4, <3>6
      <4>3. NothingMissed'
        BY <1>1, <2>1, <3>4, <4>1, <4>2, StillNothingMissed
      <4> QED BY <1>1, <2>1, <3>4, <4>3, SocketKeepsStore
    <3> QED BY <3>5, <3>6
  <2> QED BY <2>2, <2>3
<1> QED BY <1>2, <1>3, <1>4, <1>5

LEMMA RelaySteps == RelayInv /\ [RelayNext]_relayVars => RelayInv'
<1> SUFFICES ASSUME RelayInv, [RelayNext]_relayVars PROVE RelayInv'
  OBVIOUS
<1>1. CASE UNCHANGED relayVars
  <2>1. /\ UNCHANGED <<stored, live, ingesting, overlapped, socket>>
        /\ socket.cursor \in 0..Len(live) /\ NothingMissed
    BY <1>1 DEF relayVars, RelayInv, RelayShape
  <2>2. OnItsWay' = OnItsWay
    BY <2>1 DEF OnItsWay, Busy
  <2>3. NothingMissed'
    BY <2>1, <2>2, StillNothingMissed
  <2> QED BY <2>1, <2>3, SocketKeepsStore
<1> QED BY <1>1, HandleEventKeepsRelay, ReplaceKeepsRelay, PutKeepsRelay, BroadcastKeepsRelay,
           SocketKeepsRelay DEF RelayNext

\* However publishers, the store and the subscriber's socket interleave, a
\* subscriber that asked without a limit and has not fallen behind was sent
\* every stored event it asked for, and a slot holds one event unless two
\* ingests of it overlapped.
THEOREM RelayStaysConsistent == Spec => []RelayConsistent
<1>1. RelayInv => RelayConsistent
  <2> SUFFICES ASSUME RelayInv PROVE RelayConsistent
    OBVIOUS
  <2>1. ReplaceableStoredOnce /\ NothingMissed /\ Len(live) \in Nat
    BY LenProperties DEF RelayInv, RelayShape
  <2>2. RelayHasNoGap
    <3> SUFFICES ASSUME socket.sub # None, ~socket.lagged, socket.cursor = Len(live),
                        NEW i \in DOMAIN stored, NEW j \in DOMAIN TheOne(socket.sub),
                        Matches(TheOne(socket.sub)[j], stored[i]),
                        TheOne(socket.sub)[j].limit = None
                 PROVE \/ stored[i].id \in socket.sent
                       \/ \E p \in Publishers : ingesting[p].todo # <<>> /\ ingesting[p].event = stored[i]
      BY DEF RelayHasNoGap
    <3>1. ~Ahead(stored[i])
      BY <2>1 DEF Ahead
    <3> QED BY <2>1, <3>1 DEF NothingMissed, Busy
  <2> QED BY <2>1, <2>2 DEF RelayConsistent
<1>2. RelayInv /\ [Next]_vars => RelayInv'
  BY SceneSteps, RelaySteps
<1>3. Init => RelayInv
  BY RelayInitial DEF Init
<1> QED BY <1>1, <1>2, <1>3, PTL DEF Spec

----------------------------------------------------------------------------
(* Legacy notifications.                                                   *)

LegacyUris == {l.uri : l \in Lines} \cup ChangedUris
Refusals == {"url-too-long", "forbidden", "subscription-limit"}
LegacyFrames ==
    [op : {"protocol", "close", "beat"}] \cup [op : {"ack", "pub"}, uri : LegacyUris]
        \cup [op : {"err"}, reason : Refusals]

\* Frames are queued behind what was sent; at most one waits, and no pub does.
LegacyShape ==
    /\ wire \in Seq(LegacyFrames) /\ outbound \in Seq(LegacyFrames) /\ Sent # <<>>
    /\ waiting \subseteq LegacyFrames /\ \A f, g \in waiting : f = g
    /\ \A f \in waiting : f.op # "pub"
    /\ pendingEvents \in Seq(ChangedUris) /\ IsFiniteSet(subs)

\* A target has its ack on the way, for an allowed URI of this origin.
Acked(u, queue, waits) ==
    \/ \E i \in DOMAIN queue : queue[i].op = "ack" /\ queue[i].uri = u
    \/ \E f \in waits : f.op = "ack" /\ f.uri = u
Allowed(u, grants, origin) ==
    /\ [uri |-> u, consent |-> TRUE] \in grants
    /\ origin # None => u.origin = TheOne(origin)
TargetsAcked ==
    \A u \in subs : Acked(u, Sent, waiting) /\ Allowed(u, granted, serverOrigin)

LegacyInv == LegacyShape /\ TargetsAcked /\ LegacyPubsCovered

\* LegacyPubsCovered of a queue: a pub has the ack of its target before it.
BehindAck(i, queue, grants, origin) ==
    \E j \in 1..i - 1 :
        /\ queue[j].op = "ack"
        /\ queue[j].uri = queue[i].uri \/ Inside(queue[i].uri, queue[j].uri)
        /\ Allowed(queue[j].uri, grants, origin)
PubsCoveredIn(queue, grants, origin) ==
    /\ queue[1].op = "protocol"
    /\ \A i \in DOMAIN queue : queue[i].op = "pub" => BehindAck(i, queue, grants, origin)

LEMMA CoveredIsCoveredIn ==
    LegacyPubsCovered <=> PubsCoveredIn(Sent, granted, serverOrigin) /\ Cardinality(subs) <= MaxSubs
BY DEF LegacyPubsCovered, PubsCoveredIn, BehindAck, Allowed

\* A frame behind the others, with more granted.
LEMMA FrameAdded ==
    ASSUME NEW queue \in Seq(LegacyFrames), queue # <<>>, NEW f \in LegacyFrames,
           NEW grants, NEW more, grants \subseteq more, NEW origin,
           PubsCoveredIn(queue, grants, origin),
           f.op = "pub" => \E j \in DOMAIN queue :
               /\ queue[j].op = "ack" /\ (queue[j].uri = f.uri \/ Inside(f.uri, queue[j].uri))
               /\ Allowed(queue[j].uri, grants, origin)
    PROVE PubsCoveredIn(Append(queue, f), more, origin)
<1> DEFINE n == Len(queue)
<1>1. PICK long : long = Append(queue, f)
  OBVIOUS
<1>2. /\ n \in Nat /\ n # 0 /\ DOMAIN queue = 1..n
      /\ long \in Seq(LegacyFrames) /\ DOMAIN long = 1..(n + 1)
      /\ \A i \in 1..n : long[i] = queue[i]
      /\ long[n + 1] = f
  BY <1>1, AppendProperties, LenProperties, EmptySeq
<1> HIDE DEF n
<1>3. long[1].op = "protocol"
  BY <1>2 DEF PubsCoveredIn
<1>4. \A u : Allowed(u, grants, origin) => Allowed(u, more, origin)
  BY DEF Allowed
<1>5. ASSUME NEW i \in 1..(n + 1), long[i].op = "pub" PROVE BehindAck(i, long, more, origin)
  <2>1. CASE i \in 1..n
    <3>1. BehindAck(i, queue, grants, origin)
      BY <1>2, <1>5, <2>1 DEF PubsCoveredIn
    <3>2. PICK j \in 1..i - 1 :
              /\ queue[j].op = "ack"
              /\ queue[j].uri = queue[i].uri \/ Inside(queue[i].uri, queue[j].uri)
              /\ Allowed(queue[j].uri, grants, origin)
      BY <3>1 DEF BehindAck
    <3>3. long[i] = queue[i] /\ long[j] = queue[j]
      BY <1>2, <2>1
    <3> QED BY <1>4, <3>2, <3>3 DEF BehindAck
  <2>2. CASE i = n + 1
    <3>1. PICK j \in 1..n :
              /\ queue[j].op = "ack" /\ (queue[j].uri = f.uri \/ Inside(f.uri, queue[j].uri))
              /\ Allowed(queue[j].uri, grants, origin)
      BY <1>2, <1>5, <2>2
    <3>2. long[i] = f /\ long[j] = queue[j] /\ j \in 1..i - 1
      BY <1>2, <2>2
    <3> QED BY <1>4, <3>1, <3>2 DEF BehindAck
  <2> QED BY <1>2, <2>1, <2>2
<1>6. PubsCoveredIn(long, more, origin)
  BY <1>2, <1>3, <1>5 DEF PubsCoveredIn
<1> QED BY <1>1, <1>6

LEMMA AckedStays ==
    ASSUME NEW queue \in Seq(LegacyFrames), NEW f \in LegacyFrames, NEW waits, NEW u
    PROVE /\ Acked(u, queue, waits) => Acked(u, Append(queue, f), waits)
          /\ Acked(u, queue, {f}) => Acked(u, Append(queue, f), waits)
          /\ f.op = "ack" /\ f.uri = u => Acked(u, Append(queue, f), waits)
<1> DEFINE n == Len(queue)
<1>1. PICK long : long = Append(queue, f)
  OBVIOUS
<1>2. /\ n \in Nat /\ DOMAIN queue = 1..n /\ DOMAIN long = 1..(n + 1)
      /\ \A i \in 1..n : long[i] = queue[i]
      /\ long[n + 1] = f
  BY <1>1, AppendProperties, LenProperties
<1> HIDE DEF n
<1>3. /\ Acked(u, queue, waits) => Acked(u, long, waits)
      /\ Acked(u, queue, {f}) => Acked(u, long, waits)
      /\ f.op = "ack" /\ f.uri = u => Acked(u, long, waits)
  BY <1>2 DEF Acked
<1> QED BY <1>1, <1>3

\* What is sent when a frame joins the queue, and when the transport takes one.
LEMMA QueueGrows ==
    ASSUME NEW w \in Seq(LegacyFrames), NEW o \in Seq(LegacyFrames), NEW f \in LegacyFrames
    PROVE w \o Append(o, f) = Append(w \o o, f)
<1>1. PICK s : s = w \o Append(o, f)
  OBVIOUS
<1>2. PICK t : t = Append(w \o o, f)
  OBVIOUS
<1>3. /\ Append(o, f) \in Seq(LegacyFrames) /\ Len(Append(o, f)) = Len(o) + 1
      /\ \A i \in 1..Len(o) : Append(o, f)[i] = o[i]
      /\ Append(o, f)[Len(o) + 1] = f /\ Len(o) \in Nat /\ Len(w) \in Nat
  BY AppendProperties, LenProperties
<1>4. /\ s \in Seq(LegacyFrames) /\ Len(s) = Len(w) + Len(o) + 1
      /\ \A i \in 1..Len(w) : s[i] = w[i]
      /\ \A i \in (Len(w) + 1)..(Len(w) + Len(o) + 1) : s[i] = Append(o, f)[i - Len(w)]
  BY <1>1, <1>3, ConcatProperties
<1>5. /\ w \o o \in Seq(LegacyFrames) /\ Len(w \o o) = Len(w) + Len(o)
      /\ \A i \in 1..Len(w) : (w \o o)[i] = w[i]
      /\ \A i \in (Len(w) + 1)..(Len(w) + Len(o)) : (w \o o)[i] = o[i - Len(w)]
  BY <1>3, ConcatProperties
<1>6. /\ t \in Seq(LegacyFrames) /\ Len(t) = Len(w) + Len(o) + 1
      /\ \A i \in 1..Len(w) + Len(o) : t[i] = (w \o o)[i]
      /\ t[Len(w) + Len(o) + 1] = f
  BY <1>2, <1>5, AppendProperties
<1>7. ASSUME NEW i \in 1..Len(s) PROVE s[i] = t[i]
  <2>1. CASE i \in 1..Len(w)
    <3>1. i \in 1..Len(w) + Len(o)
      BY <1>3, <2>1
    <3> QED BY <1>4, <1>5, <1>6, <2>1, <3>1
  <2>2. CASE i \in (Len(w) + 1)..(Len(w) + Len(o))
    <3>1. /\ i - Len(w) \in 1..Len(o) /\ i \in 1..Len(w) + Len(o)
          /\ i \in (Len(w) + 1)..(Len(w) + Len(o) + 1)
      BY <1>3, <2>2
    <3> QED BY <1>3, <1>4, <1>5, <1>6, <2>2, <3>1
  <2>3. CASE i = Len(w) + Len(o) + 1
    <3>1. i - Len(w) = Len(o) + 1 /\ i \in (Len(w) + 1)..(Len(w) + Len(o) + 1)
      BY <1>3, <2>3
    <3> QED BY <1>3, <1>4, <1>6, <2>3, <3>1
  <2>4. i \in 1..Len(w) \/ i \in (Len(w) + 1)..(Len(w) + Len(o)) \/ i = Len(w) + Len(o) + 1
    <3>1. Len(w) \in Nat /\ Len(o) \in Nat
      BY <1>3
    <3>2. i \in 1..(Len(w) + Len(o) + 1)
      <4>1. Len(s) = Len(w) + Len(o) + 1
        BY <1>4
      <4> QED BY <4>1
    <3> QED BY <3>1, <3>2
  <2> QED BY <2>1, <2>2, <2>3, <2>4
<1>8. s = t
  BY <1>4, <1>6, <1>7, SeqEqual
<1> QED BY <1>1, <1>2, <1>8

LEMMA TransportMovesOne ==
    ASSUME NEW w \in Seq(LegacyFrames), NEW o \in Seq(LegacyFrames), o # <<>>
    PROVE /\ Append(w, Head(o)) \in Seq(LegacyFrames) /\ Tail(o) \in Seq(LegacyFrames)
          /\ Append(w, Head(o)) \o Tail(o) = w \o o
<1>1. PICK h : h = Append(w, Head(o))
  OBVIOUS
<1>2. PICK r : r = Tail(o)
  OBVIOUS
<1>3. /\ Len(w) \in Nat /\ Len(o) \in Nat /\ Len(o) # 0 /\ Head(o) \in LegacyFrames
      /\ Head(o) = o[1]
      /\ r \in Seq(LegacyFrames) /\ Len(r) = Len(o) - 1 /\ \A i \in 1..Len(r) : r[i] = o[i + 1]
  BY <1>2, HeadTailProperties, LenProperties, EmptySeq
<1>4. /\ h \in Seq(LegacyFrames) /\ Len(h) = Len(w) + 1
      /\ \A i \in 1..Len(w) : h[i] = w[i]
      /\ h[Len(w) + 1] = o[1]
  BY <1>1, <1>3, AppendProperties
<1>5. PICK s : s = h \o r
  OBVIOUS
<1>6. PICK t : t = w \o o
  OBVIOUS
<1>7. /\ s \in Seq(LegacyFrames) /\ Len(s) = Len(w) + Len(o)
      /\ \A i \in 1..Len(w) + 1 : s[i] = h[i]
      /\ \A i \in (Len(w) + 2)..(Len(w) + Len(o)) : s[i] = r[i - (Len(w) + 1)]
  <2>1. s \in Seq(LegacyFrames) /\ Len(s) = Len(h) + Len(r)
    BY <1>3, <1>4, <1>5, ConcatProperties
  <2>2. \A i \in 1..Len(h) + Len(r) : s[i] = IF i <= Len(h) THEN h[i] ELSE r[i - Len(h)]
    BY <1>3, <1>4, <1>5, ConcatProperties
  <2>3. Len(h) + Len(r) = Len(w) + Len(o)
    BY <1>3, <1>4
  <2>4. \A i \in 1..Len(w) + 1 : i \in 1..Len(h) + Len(r) /\ i <= Len(h)
    BY <1>3, <1>4
  <2>5. \A i \in (Len(w) + 2)..(Len(w) + Len(o)) : i \in 1..Len(h) + Len(r) /\ ~(i <= Len(h))
    BY <1>3, <1>4
  <2> QED BY <1>4, <2>1, <2>2, <2>3, <2>4, <2>5
<1>8. /\ t \in Seq(LegacyFrames) /\ Len(t) = Len(w) + Len(o)
      /\ \A i \in 1..Len(w) : t[i] = w[i]
      /\ \A i \in (Len(w) + 1)..(Len(w) + Len(o)) : t[i] = o[i - Len(w)]
  BY <1>3, <1>6, ConcatProperties
<1>9. ASSUME NEW i \in 1..Len(s) PROVE s[i] = t[i]
  <2>1. CASE i \in 1..Len(w)
    <3>1. i \in 1..Len(w) + 1
      BY <1>3, <2>1
    <3> QED BY <1>4, <1>7, <1>8, <2>1, <3>1
  <2>2. CASE i = Len(w) + 1
    <3>1. i \in 1..Len(w) + 1 /\ i \in (Len(w) + 1)..(Len(w) + Len(o)) /\ i - Len(w) = 1
      BY <1>3, <2>2
    <3> QED BY <1>4, <1>7, <1>8, <2>2, <3>1
  <2>3. CASE i \in (Len(w) + 2)..(Len(w) + Len(o))
    <3>1. /\ i \in (Len(w) + 1)..(Len(w) + Len(o)) /\ i - (Len(w) + 1) \in 1..Len(r)
          /\ (i - (Len(w) + 1)) + 1 = i - Len(w)
      BY <1>3, <2>3
    <3>2. r[i - (Len(w) + 1)] = o[(i - (Len(w) + 1)) + 1]
      BY <1>3, <3>1
    <3>3. s[i] = r[i - (Len(w) + 1)] /\ t[i] = o[i - Len(w)]
      BY <1>7, <1>8, <2>3, <3>1
    <3> QED BY <3>1, <3>2, <3>3
  <2>4. i \in 1..Len(w) \/ i = Len(w) + 1 \/ i \in (Len(w) + 2)..(Len(w) + Len(o))
    BY <1>3, <1>7
  <2> QED BY <2>1, <2>2, <2>3, <2>4
<1>10. s = t
  BY <1>7, <1>8, <1>9, SeqEqual
<1> QED BY <1>1, <1>2, <1>3, <1>4, <1>5, <1>6, <1>10

LEMMA CoveredNext ==
    LegacyPubsCovered' <=>
        PubsCoveredIn(Sent', granted', serverOrigin') /\ Cardinality(subs') <= MaxSubs
BY DEF LegacyPubsCovered, PubsCoveredIn, BehindAck, Allowed, Inside, None, TheOne

LEMMA TargetsNext ==
    TargetsAcked' <=>
        \A u \in subs' : Acked(u, Sent', waiting') /\ Allowed(u, granted', serverOrigin')
BY DEF TargetsAcked, Acked, Allowed, None, TheOne

LEMMA SentIsFrames ==
    ASSUME wire \in Seq(LegacyFrames), outbound \in Seq(LegacyFrames)
    PROVE Sent \in Seq(LegacyFrames)
BY ConcatProperties DEF Sent

\* A step that sends one frame, lets it wait, or neither.
LEMMA LegacyKept ==
    ASSUME LegacyInv, NEW f \in LegacyFrames,
           wire' \in Seq(LegacyFrames), outbound' \in Seq(LegacyFrames),
           \/ Sent' = Sent /\ waiting' = waiting
           \/ Sent' = Sent /\ waiting' = {f} /\ waiting = {} /\ f.op # "pub"
           \/ Sent' = Append(Sent, f) /\ waiting' = {} /\ waiting \subseteq {f},
           f.op = "pub" => waiting = {} /\ \E u \in subs : u = f.uri \/ Inside(f.uri, u),
           UNCHANGED serverOrigin, granted \subseteq granted',
           pendingEvents' \in Seq(ChangedUris),
           IsFiniteSet(subs'), Cardinality(subs') <= MaxSubs,
           \A u \in subs' : u \in subs \/
               /\ f.op = "ack" /\ f.uri = u /\ Allowed(u, granted', serverOrigin)
               /\ waiting' = {f} \/ Sent' = Append(Sent, f)
    PROVE LegacyInv'
<1>1. LegacyShape /\ TargetsAcked /\ LegacyPubsCovered
  BY DEF LegacyInv
<1>2. Sent \in Seq(LegacyFrames) /\ Sent # <<>> /\ PubsCoveredIn(Sent, granted, serverOrigin)
  BY <1>1, SentIsFrames, CoveredIsCoveredIn DEF LegacyShape
<1>3. \A u : Allowed(u, granted, serverOrigin) => Allowed(u, granted', serverOrigin)
  BY DEF Allowed
<1>4. CASE Sent' = Append(Sent, f) /\ waiting' = {} /\ waiting \subseteq {f}
  <2>1. f.op = "pub" => \E j \in DOMAIN Sent :
            /\ Sent[j].op = "ack" /\ (Sent[j].uri = f.uri \/ Inside(f.uri, Sent[j].uri))
            /\ Allowed(Sent[j].uri, granted, serverOrigin)
    <3> SUFFICES ASSUME f.op = "pub"
                 PROVE \E j \in DOMAIN Sent :
                          /\ Sent[j].op = "ack" /\ (Sent[j].uri = f.uri \/ Inside(f.uri, Sent[j].uri))
                          /\ Allowed(Sent[j].uri, granted, serverOrigin)
      OBVIOUS
    <3>1. PICK u \in subs : u = f.uri \/ Inside(f.uri, u)
      OBVIOUS
    <3>2. Acked(u, Sent, {}) /\ Allowed(u, granted, serverOrigin)
      BY <1>1, <3>1 DEF TargetsAcked
    <3>3. PICK j \in DOMAIN Sent : Sent[j].op = "ack" /\ Sent[j].uri = u
      BY <3>2 DEF Acked
    <3> QED BY <3>1, <3>2, <3>3
  <2>2. PubsCoveredIn(Sent', granted', serverOrigin)
    BY <1>2, <1>4, <2>1, FrameAdded
  <2>3. Sent' # <<>>
    BY <1>2, <1>4, AppendProperties
  <2>4. ASSUME NEW u \in subs' PROVE Acked(u, Sent', waiting') /\ Allowed(u, granted', serverOrigin')
    <3>1. CASE u \in subs
      <4>1. Acked(u, Sent, waiting) /\ Allowed(u, granted, serverOrigin)
        BY <1>1, <3>1 DEF TargetsAcked
      <4>2. Acked(u, Sent, {f})
        BY <1>4, <4>1 DEF Acked
      <4> QED BY <1>2, <1>3, <1>4, <4>1, <4>2, AckedStays
    <3>2. CASE f.op = "ack" /\ f.uri = u /\ Allowed(u, granted', serverOrigin)
      BY <1>2, <1>4, <3>2, AckedStays
    <3> QED BY <2>4, <3>1, <3>2
  <2>5. TargetsAcked'
    BY <2>4, TargetsNext
  <2>6. LegacyPubsCovered'
    BY <2>2, CoveredNext
  <2>7. LegacyShape'
    BY <1>1, <1>4, <2>3 DEF LegacyShape
  <2> QED BY <2>5, <2>6, <2>7 DEF LegacyInv
<1>5. CASE Sent' = Sent /\ (waiting' = waiting \/ (waiting' = {f} /\ waiting = {} /\ f.op # "pub"))
  <2>1. PubsCoveredIn(Sent, granted', serverOrigin)
    BY <1>2, <1>3 DEF PubsCoveredIn, BehindAck
  <2>2. ASSUME NEW u \in subs' PROVE Acked(u, Sent', waiting') /\ Allowed(u, granted', serverOrigin')
    <3>1. CASE u \in subs
      <4>1. Acked(u, Sent, waiting) /\ Allowed(u, granted, serverOrigin)
        BY <1>1, <3>1 DEF TargetsAcked
      <4>2. Acked(u, Sent, waiting')
        BY <1>5, <4>1 DEF Acked
      <4> QED BY <1>3, <1>5, <4>1, <4>2
    <3>2. CASE f.op = "ack" /\ f.uri = u /\ Allowed(u, granted', serverOrigin) /\ waiting' = {f}
      BY <1>5, <3>2 DEF Acked
    <3>3. Sent # Append(Sent, f)
      BY <1>2, AppendProperties, LenProperties
    <3> QED BY <1>5, <2>2, <3>1, <3>2, <3>3
  <2>3. TargetsAcked'
    BY <2>2, TargetsNext
  <2>4. LegacyPubsCovered'
    BY <1>5, <2>1, CoveredNext
  <2>5. LegacyShape'
    BY <1>1, <1>2, <1>5 DEF LegacyShape
  <2> QED BY <2>3, <2>4, <2>5 DEF LegacyInv
<1> QED BY <1>4, <1>5

\* send().await
LEMMA SendGoesOut ==
    ASSUME LegacyInv, NEW f \in LegacyFrames, waiting = {}, SendFrame(f), UNCHANGED wire
    PROVE /\ wire' \in Seq(LegacyFrames) /\ outbound' \in Seq(LegacyFrames)
          /\ \/ Sent' = Sent /\ waiting' = {f}
             \/ Sent' = Append(Sent, f) /\ waiting' = {}
<1>1. wire \in Seq(LegacyFrames) /\ outbound \in Seq(LegacyFrames)
  BY DEF LegacyInv, LegacyShape
<1>2. CASE Len(outbound) < OutboundCap
  <2>1. outbound' = Append(outbound, f) /\ waiting' = {}
    BY <1>2 DEF SendFrame
  <2>2. Append(outbound, f) \in Seq(LegacyFrames)
    BY <1>1, AppendProperties
  <2>3. Sent' = Append(Sent, f)
    BY <1>1, <2>1, QueueGrows DEF Sent
  <2> QED BY <1>1, <2>1, <2>2, <2>3
<1>3. CASE ~(Len(outbound) < OutboundCap)
  BY <1>1, <1>3 DEF SendFrame, Some, Sent
<1> QED BY <1>2, <1>3

\* What a verdict says: a refusal is one of three, and an ack passed each test.
LEMMA VerdictIsSound ==
    ASSUME NEW line
    PROVE /\ SubscribeVerdict(line) # "ack" => SubscribeVerdict(line) \in Refusals
          /\ SubscribeVerdict(line) = "ack" =>
                /\ serverOrigin # None => line.uri.origin = TheOne(serverOrigin)
                /\ ~(Cardinality(subs) >= MaxSubs /\ line.uri \notin subs)
                /\ line.uri \in readable
<1> DEFINE chain == <<
        <<"url-too-long", line.long>>,
        <<"forbidden", serverOrigin # None /\ line.uri.origin # TheOne(serverOrigin)>>,
        <<"subscription-limit", Cardinality(subs) >= MaxSubs /\ line.uri \notin subs>>,
        <<"forbidden", line.uri \notin readable>>>>
<1>1. SubscribeVerdict(line) = FirstOf(chain, "ack")
  BY DEF SubscribeVerdict
<1>2. /\ DOMAIN chain = 1..4 /\ \A i \in 1..4 : chain[i][1] \in Refusals
      /\ \A i \in 1..4 : chain[i][1] # "ack"
  BY DEF Refusals
<1>3. /\ chain[2][2] = (serverOrigin # None /\ line.uri.origin # TheOne(serverOrigin))
      /\ chain[3][2] = (Cardinality(subs) >= MaxSubs /\ line.uri \notin subs)
      /\ chain[4][2] = (line.uri \notin readable)
  OBVIOUS
<1> HIDE DEF chain
<1>4. FirstOf(chain, "ack") = "ack" \/ FirstOf(chain, "ack") \in Refusals
  BY <1>2, ChainComesTo
<1>5. FirstOf(chain, "ack") = "ack" => \A i \in 1..4 : ~chain[i][2]
  BY <1>2, ChainFallsThrough
<1>6. FirstOf(chain, "ack") = "ack" =>
          /\ ~(serverOrigin # None /\ line.uri.origin # TheOne(serverOrigin))
          /\ ~(Cardinality(subs) >= MaxSubs /\ line.uri \notin subs)
          /\ ~(line.uri \notin readable)
  <2> SUFFICES ASSUME FirstOf(chain, "ack") = "ack"
               PROVE ~chain[2][2] /\ ~chain[3][2] /\ ~chain[4][2]
    BY <1>3, Zenon
  <2>1. 2 \in 1..4 /\ 3 \in 1..4 /\ 4 \in 1..4
    OBVIOUS
  <2> QED BY <1>5, <2>1, Zenon
<1> QED BY <1>1, <1>4, <1>6, Zenon

LEMMA LineKeepsLegacy ==
    ASSUME LegacyInv, NEW line \in Lines, HandleLine(line) PROVE LegacyInv'
<1>1. /\ LegacyShape /\ Cardinality(subs) <= MaxSubs /\ IsFiniteSet(subs)
      /\ pendingEvents \in Seq(ChangedUris)
  BY DEF LegacyInv, LegacyShape, LegacyPubsCovered
<1>2. waiting = {} /\ line.uri \in LegacyUris /\ UNCHANGED <<serverOrigin, pendingEvents, wire>>
  BY DEF HandleLine, LoopReady, None, LegacyUris
<1>3. CASE line.op = "sub" /\ SubscribeVerdict(line) = "ack"
  <2>1. PICK f : f = [op |-> "ack", uri |-> line.uri]
    OBVIOUS
  <2>2. f \in LegacyFrames /\ f.op = "ack" /\ f.uri = line.uri
    BY <1>2, <2>1 DEF LegacyFrames
  <2>3. /\ SendFrame(f) /\ subs' = subs \cup {line.uri}
        /\ granted' = granted \cup {[uri |-> line.uri, consent |-> line.uri \in readable]}
    BY <1>3, <2>1 DEF HandleLine
  <2>4. /\ serverOrigin # None => line.uri.origin = TheOne(serverOrigin)
        /\ ~(Cardinality(subs) >= MaxSubs /\ line.uri \notin subs)
        /\ line.uri \in readable
    BY <1>3, VerdictIsSound
  <2>5. granted \subseteq granted' /\ Allowed(line.uri, granted', serverOrigin)
    BY <2>3, <2>4 DEF Allowed
  <2>6. IsFiniteSet(subs') /\ Cardinality(subs') <= MaxSubs
    <3>1. CASE line.uri \in subs
      <4>1. subs' = subs
        BY <2>3, <3>1
      <4> QED BY <1>1, <4>1
    <3>2. CASE line.uri \notin subs
      <4>1. PICK S : S = subs \cup {line.uri}
        OBVIOUS
      <4>2. /\ IsFiniteSet(S) /\ Cardinality(S) = Cardinality(subs) + 1
            /\ Cardinality(subs) \in Nat
        BY <1>1, <3>2, <4>1, FS_AddElement, FS_CardinalityType
      <4>3. Cardinality(subs) < MaxSubs
        BY <2>4, <3>2, <4>2, LegacyAssumption
      <4>4. Cardinality(S) <= MaxSubs
        BY <4>2, <4>3, LegacyAssumption
      <4>5. subs' = S
        BY <2>3, <4>1
      <4> QED BY <4>2, <4>4, <4>5
    <3> QED BY <3>1, <3>2
  <2>7. /\ wire' \in Seq(LegacyFrames) /\ outbound' \in Seq(LegacyFrames)
        /\ \/ Sent' = Sent /\ waiting' = {f}
           \/ Sent' = Append(Sent, f) /\ waiting' = {}
    BY <1>2, <2>2, <2>3, SendGoesOut
  <2>8. f.op # "pub" /\ pendingEvents' \in Seq(ChangedUris)
    BY <1>1, <1>2, <2>2
  <2>9. \A u \in subs' : u \in subs \/ u = line.uri
    BY <2>3
  <2> QED BY <1>2, <2>2, <2>5, <2>6, <2>7, <2>8, <2>9, LegacyKept
<1>4. ASSUME NEW f \in LegacyFrames, f.op # "pub", SendFrame(f), UNCHANGED <<subs, granted>>
      PROVE LegacyInv'
  <2>1. /\ wire' \in Seq(LegacyFrames) /\ outbound' \in Seq(LegacyFrames)
        /\ \/ Sent' = Sent /\ waiting' = {f}
           \/ Sent' = Append(Sent, f) /\ waiting' = {}
    BY <1>2, <1>4, SendGoesOut
  <2> QED BY <1>1, <1>2, <1>4, <2>1, LegacyKept
<1>5. CASE line.op = "sub" /\ SubscribeVerdict(line) # "ack"
  <2>1. PICK f : f = [op |-> "err", reason |-> SubscribeVerdict(line)]
    OBVIOUS
  <2>2. f \in LegacyFrames /\ f.op # "pub"
    BY <1>5, <2>1, VerdictIsSound DEF LegacyFrames
  <2>3. SendFrame(f) /\ UNCHANGED <<subs, granted>>
    BY <1>5, <2>1 DEF HandleLine
  <2> QED BY <1>4, <2>2, <2>3
<1>6. CASE line.op = "unsub" \/ line.op = "blank"
  <2>1. UNCHANGED <<granted, outbound, waiting>> /\ subs' \subseteq subs
    BY <1>6 DEF HandleLine
  <2>2. Sent' = Sent
    BY <1>2, <2>1 DEF Sent
  <2>3. IsFiniteSet(subs') /\ Cardinality(subs') <= MaxSubs
    <3>1. IsFiniteSet(subs') /\ Cardinality(subs') <= Cardinality(subs)
      BY <1>1, <2>1, FS_Subset
    <3>2. Cardinality(subs') \in Nat /\ Cardinality(subs) \in Nat
      BY <1>1, <3>1, FS_CardinalityType
    <3> QED BY <1>1, <3>1, <3>2, LegacyAssumption
  <2>4. PICK f : f = [op |-> "beat"]
    OBVIOUS
  <2>5. f \in LegacyFrames /\ f.op = "beat"
    BY <2>4 DEF LegacyFrames
  <2>6. wire' \in Seq(LegacyFrames) /\ outbound' \in Seq(LegacyFrames)
        /\ pendingEvents' \in Seq(ChangedUris)
    BY <1>1, <1>2, <2>1 DEF LegacyShape
  <2> QED BY <1>2, <2>1, <2>2, <2>3, <2>5, <2>6, LegacyKept
<1>7. CASE line.op # "sub" /\ line.op # "unsub" /\ line.op # "blank"
  <2>1. PICK f : f = [op |-> "close"]
    OBVIOUS
  <2>2. f \in LegacyFrames /\ f.op # "pub"
    BY <2>1 DEF LegacyFrames
  <2>3. SendFrame(f) /\ UNCHANGED <<subs, granted>>
    BY <1>7, <2>1 DEF HandleLine
  <2> QED BY <1>4, <2>2, <2>3
<1> QED BY <1>3, <1>5, <1>6, <1>7

LEMMA LegacyInitial == LegacyInit => LegacyInv
<1> SUFFICES ASSUME LegacyInit PROVE LegacyInv
  OBVIOUS
<1>1. PICK f : f = [op |-> "protocol"]
  OBVIOUS
<1>2. f \in LegacyFrames /\ f.op = "protocol"
  BY <1>1 DEF LegacyFrames
<1>3. wire = <<>> /\ outbound = <<f>> /\ subs = {} /\ waiting = {} /\ pendingEvents = <<>>
  BY <1>1 DEF LegacyInit, None
<1>4. /\ wire \in Seq(LegacyFrames) /\ outbound \in Seq(LegacyFrames)
      /\ Len(outbound) = 1 /\ outbound[1] = f
  BY <1>2, <1>3
<1>5. Sent = outbound
  BY <1>3, <1>4, ConcatEmptySeq DEF Sent
<1>6. Sent # <<>> /\ DOMAIN Sent = 1..1 /\ Sent[1] = f
  <2>1. DOMAIN outbound = 1..Len(outbound)
    BY <1>4, LenProperties
  <2>2. outbound # <<>>
    BY <1>3
  <2> QED BY <1>4, <1>5, <2>1, <2>2
<1>7. pendingEvents \in Seq(ChangedUris)
  BY <1>3
<1>8. LegacyShape
  BY <1>3, <1>4, <1>6, <1>7, FS_EmptySet DEF LegacyShape
<1>9. Cardinality(subs) = 0
  BY <1>3, FS_EmptySet
<1>10. PubsCoveredIn(Sent, granted, serverOrigin)
  BY <1>2, <1>6 DEF PubsCoveredIn
<1>11. LegacyPubsCovered
  BY <1>9, <1>10, CoveredIsCoveredIn, LegacyAssumption
<1> QED BY <1>3, <1>8, <1>11 DEF LegacyInv, TargetsAcked

LEMMA LegacySteps == LegacyInv /\ [LegacyNext]_legacyVars => LegacyInv'
<1> SUFFICES ASSUME LegacyInv, [LegacyNext]_legacyVars PROVE LegacyInv'
  OBVIOUS
<1>1. /\ LegacyShape /\ Cardinality(subs) <= MaxSubs /\ IsFiniteSet(subs)
      /\ pendingEvents \in Seq(ChangedUris)
      /\ wire \in Seq(LegacyFrames) /\ outbound \in Seq(LegacyFrames)
  BY DEF LegacyInv, LegacyShape, LegacyPubsCovered
<1>2. PICK beat : beat = [op |-> "beat"]
  OBVIOUS
<1>3. beat \in LegacyFrames /\ beat.op = "beat"
  BY <1>2 DEF LegacyFrames
<1>4. ASSUME UNCHANGED <<serverOrigin, subs, outbound, waiting, wire, granted>>,
             pendingEvents' \in Seq(ChangedUris)
      PROVE LegacyInv'
  <2>1. Sent' = Sent
    BY <1>4 DEF Sent
  <2> QED BY <1>1, <1>3, <1>4, <2>1, LegacyKept
<1>5. ASSUME NEW u \in ChangedUris, StorageChange(u) PROVE LegacyInv'
  <2>1. PICK kept : kept = IF Len(pendingEvents) = EventCap THEN Tail(pendingEvents) ELSE pendingEvents
    OBVIOUS
  <2>2. kept \in Seq(ChangedUris)
    <3>1. CASE Len(pendingEvents) = EventCap
      <4>1. pendingEvents # <<>>
        BY <3>1, LegacyAssumption
      <4> QED BY <1>1, <2>1, <3>1, <4>1, HeadTailProperties
    <3>2. CASE Len(pendingEvents) # EventCap
      BY <1>1, <2>1, <3>2
    <3> QED BY <3>1, <3>2
  <2>3. pendingEvents' = Append(kept, u)
    BY <1>5, <2>1 DEF StorageChange
  <2>4. Append(kept, u) \in Seq(ChangedUris)
    BY <2>2, AppendProperties
  <2> QED BY <1>4, <1>5, <2>3, <2>4 DEF StorageChange
<1>6. CASE NextEvent
  <2>1. PICK u : u = Head(pendingEvents)
    OBVIOUS
  <2>2. u \in ChangedUris /\ pendingEvents' \in Seq(ChangedUris)
    BY <1>1, <1>6, <2>1, HeadTailProperties DEF NextEvent
  <2>3. PICK f : f = [op |-> "pub", uri |-> u]
    OBVIOUS
  <2>4. f \in LegacyFrames /\ f.op = "pub" /\ f.uri = u
    BY <2>2, <2>3 DEF LegacyFrames, LegacyUris
  <2>5. waiting = {} /\ UNCHANGED <<serverOrigin, subs, waiting, wire, granted>>
    BY <1>6 DEF NextEvent, LoopReady, None
  <2>6. CASE outbound' = outbound
    BY <1>4, <2>2, <2>5, <2>6
  <2>7. CASE outbound' # outbound
    <3>1. MatchesSubscription(u) /\ outbound' = Append(outbound, f)
      BY <1>6, <2>1, <2>3, <2>7 DEF NextEvent
    <3>2. \E s \in subs : s = f.uri \/ Inside(f.uri, s)
      BY <2>4, <3>1 DEF MatchesSubscription
    <3>3. Append(outbound, f) \in Seq(LegacyFrames)
      BY <1>1, <2>4, AppendProperties
    <3>4. Sent' = Append(Sent, f)
      BY <1>1, <2>4, <2>5, <3>1, QueueGrows DEF Sent
    <3> QED BY <1>1, <2>2, <2>4, <2>5, <3>1, <3>2, <3>3, <3>4, LegacyKept
  <2> QED BY <2>6, <2>7
<1>7. CASE Heartbeat
  <2>1. waiting = {} /\ SendFrame(beat) /\ UNCHANGED <<serverOrigin, subs, pendingEvents, wire, granted>>
    BY <1>2, <1>7 DEF Heartbeat, LoopReady, None
  <2>2. /\ wire' \in Seq(LegacyFrames) /\ outbound' \in Seq(LegacyFrames)
        /\ \/ Sent' = Sent /\ waiting' = {beat}
           \/ Sent' = Append(Sent, beat) /\ waiting' = {}
    BY <1>3, <2>1, SendGoesOut
  <2> QED BY <1>1, <1>3, <2>1, <2>2, LegacyKept
<1>8. CASE Transport
  <2>1. /\ outbound # <<>> /\ wire' = Append(wire, Head(outbound)) /\ waiting' = {}
        /\ outbound' = Tail(outbound) \o (IF waiting = {} THEN <<>> ELSE <<TheOne(waiting)>>)
        /\ UNCHANGED <<serverOrigin, subs, pendingEvents, granted>>
    BY <1>8 DEF Transport, None
  <2>2. /\ wire' \in Seq(LegacyFrames) /\ Tail(outbound) \in Seq(LegacyFrames)
        /\ wire' \o Tail(outbound) = Sent
    BY <1>1, <2>1, TransportMovesOne DEF Sent
  <2>3. CASE waiting = {}
    <3>1. outbound' = Tail(outbound)
      BY <2>1, <2>2, <2>3, ConcatEmptySeq
    <3>2. Sent' = Sent
      BY <2>2, <3>1 DEF Sent
    <3> QED BY <1>1, <1>3, <2>1, <2>2, <2>3, <3>1, <3>2, LegacyKept
  <2>4. CASE waiting # {}
    <3>1. PICK f : f = TheOne(waiting)
      OBVIOUS
    <3>2. f \in LegacyFrames /\ f.op # "pub" /\ waiting = {f}
      BY <1>1, <2>4, <3>1, TheOneIsIn DEF LegacyShape
    <3>3. outbound' = Append(Tail(outbound), f) /\ Append(Tail(outbound), f) \in Seq(LegacyFrames)
      BY <2>1, <2>2, <2>4, <3>1, <3>2, AppendIsConcat, AppendProperties
    <3>4. Sent' = Append(Sent, f)
      BY <2>2, <3>2, <3>3, QueueGrows DEF Sent
    <3> QED BY <1>1, <2>1, <2>2, <3>2, <3>3, <3>4, LegacyKept
  <2> QED BY <2>3, <2>4
<1>9. CASE LoopReturns \/ Withdraw \/ UNCHANGED legacyVars
  BY <1>1, <1>4, <1>9 DEF LoopReturns, Withdraw, legacyVars
<1> QED BY <1>5, <1>6, <1>7, <1>8, <1>9, LineKeepsLegacy DEF LegacyNext

\* A question under way was asked for a reason that still holds.
Outcomes == {"pub", "forbidden", "silent", "ack", "refuse"}
SessionShape ==
    /\ targets \subseteq {l.uri : l \in Lines} /\ IsFiniteSet(targets)
    /\ Cardinality(targets) <= MaxSubs
    /\ \A q \in asking :
          /\ q.op \in {"sub", "change"} /\ q.uri \in LegacyUris
          /\ q.op = "sub" => q.uri \in {l.uri : l \in Lines}
          /\ q.op = "sub" /\ q.uri \notin targets => Cardinality(targets) < MaxSubs
          /\ q.op = "change" => \E s \in targets : s = q.uri \/ Inside(q.uri, s)
    /\ told \in Seq([op : Outcomes, uri : LegacyUris, by : SUBSET LegacyUris, withdrawn : BOOLEAN])

SessionInv == SessionShape /\ SessionRechecks

\* A URI is what its three fields say, and its path has prefixes.
LEMMA UriIsRecord ==
    ASSUME NEW u \in LegacyUris
    PROVE /\ u = [origin |-> u.origin, path |-> u.path, dir |-> u.dir]
          /\ u.dir \in BOOLEAN /\ Len(u.path) \in Nat
          /\ \A n \in 0..Len(u.path) : Len(SubSeq(u.path, 1, n)) = n
<1>1. u \in [origin : STRING, path : Seq(STRING), dir : BOOLEAN]
  BY LegacyAssumption DEF LegacyUris
<1>2. /\ u = [origin |-> u.origin, path |-> u.path, dir |-> u.dir]
      /\ u.dir \in BOOLEAN /\ u.path \in Seq(STRING)
  BY <1>1
<1>3. Len(u.path) \in Nat
  BY <1>2, LenProperties
<1>4. ASSUME NEW n \in 0..Len(u.path) PROVE Len(SubSeq(u.path, 1, n)) = n
  <2>1. PICK S : S = {u.path[i] : i \in 1..n}
    OBVIOUS
  <2>2. \A i \in 1..n : u.path[i] \in S
    BY <2>1
  <2>3. Len(SubSeq(u.path, 1, n)) = IF 1 <= n THEN n - 1 + 1 ELSE 0
    BY <1>3, <2>2, SubSeqProperties
  <2> QED BY <1>3, <2>3
<1> QED BY <1>2, <1>3, <1>4

\* The record that AncestorContainers builds for a prefix, written out.
LEMMA UriExcept ==
    ASSUME NEW u, NEW p, u = [origin |-> u.origin, path |-> u.path, dir |-> u.dir]
    PROVE [u EXCEPT !.path = p, !.dir = TRUE] = [origin |-> u.origin, path |-> p, dir |-> TRUE]
<1>1. PICK t : t = TRUE
  OBVIOUS
<1>2. PICK d : d = u.dir
  OBVIOUS
<1>3. PICK o : o = u.origin
  OBVIOUS
<1>4. PICK a : a = [u EXCEPT !.path = p]
  OBVIOUS
<1>5. a = [origin |-> u.origin, path |-> p, dir |-> d]
  BY <1>2, <1>4
<1>6. PICK b : b = [a EXCEPT !.dir = t]
  OBVIOUS
<1>7. DOMAIN b = {"origin", "path", "dir"} /\ b.origin = o /\ b.path = p /\ b.dir = t
  BY <1>3, <1>5, <1>6
<1>8. b = [x \in {"origin", "path", "dir"} |-> b[x]]
  BY <1>5, <1>6
<1>9. b = [origin |-> o, path |-> p, dir |-> t]
  BY <1>7, <1>8
<1>10. b = [u EXCEPT !.path = p, !.dir = t]
  BY <1>4, <1>6
<1> QED BY <1>1, <1>3, <1>9, <1>10, Zenon

\* Walking up from a resource meets only containers it is inside, and all of them but for
\* a name that is empty at the end.
LEMMA AncestorsAreContainers ==
    ASSUME NEW u \in LegacyUris, NEW s \in LegacyUris
    PROVE /\ s \in AncestorContainers(u) => Inside(u, s)
          /\ Inside(u, s) => s \in AncestorContainers(u) \/ EndsInTwoSlashes(u)
<1>1. /\ u = [origin |-> u.origin, path |-> u.path, dir |-> u.dir] /\ Len(u.path) \in Nat
      /\ s = [origin |-> s.origin, path |-> s.path, dir |-> s.dir] /\ s.dir \in BOOLEAN
      /\ Len(s.path) \in Nat
      /\ \A n \in 0..Len(u.path) : Len(SubSeq(u.path, 1, n)) = n
  BY UriIsRecord
<1>2. ASSUME NEW n
      PROVE [u EXCEPT !.path = SubSeq(u.path, 1, n), !.dir = TRUE] =
            [origin |-> u.origin, path |-> SubSeq(u.path, 1, n), dir |-> TRUE]
  BY <1>1, UriExcept
<1>3. ASSUME s \in AncestorContainers(u) PROVE Inside(u, s)
  <2>1. PICK n \in 0..Len(u.path) - 1 :
            s = [u EXCEPT !.path = SubSeq(u.path, 1, n), !.dir = TRUE]
    BY <1>3 DEF AncestorContainers, Above
  <2>2. s.origin = u.origin /\ s.path = SubSeq(u.path, 1, n) /\ s.dir = TRUE
    BY <1>2, <2>1
  <2>3. Len(s.path) = n /\ n < Len(u.path)
    BY <1>1, <2>1, <2>2
  <2> QED BY <2>2, <2>3 DEF Inside
<1>4. ASSUME Inside(u, s), ~EndsInTwoSlashes(u) PROVE s \in AncestorContainers(u)
  <2>1. PICK n \in 0..Len(u.path) - 1 : n = Len(s.path)
    BY <1>1, <1>4 DEF Inside
  <2>2. s.origin = u.origin /\ s.path = SubSeq(u.path, 1, n) /\ s.dir = TRUE
    BY <1>1, <1>4, <2>1 DEF Inside
  <2>3. s = [u EXCEPT !.path = SubSeq(u.path, 1, n), !.dir = TRUE]
    BY <1>1, <1>2, <2>2
  <2>4. n \in Above(u.path)
    <3>1. u.path # <<>>
      <4>1. Len(<<>>) = 0
        OBVIOUS
      <4> QED BY <1>1, <2>1, <4>1
    <3>2. u.path[Len(u.path)] # ""
      BY <1>4, <3>1 DEF EndsInTwoSlashes
    <3>3. Len(u.path) \in (n + 1)..Len(u.path)
      BY <1>1, <2>1
    <3> QED BY <2>1, <3>2, <3>3 DEF Above
  <2> QED BY <2>3, <2>4 DEF AncestorContainers
<1> QED BY <1>3, <1>4

LEMMA SessionInitial == SessionInit => SessionInv
<1> SUFFICES ASSUME SessionInit PROVE SessionInv
  OBVIOUS
<1>1. targets = {} /\ asking = {} /\ told = <<>>
  BY DEF SessionInit, None
<1>2. IsFiniteSet(targets) /\ Cardinality(targets) = 0
  BY <1>1, FS_EmptySet
<1>3. SessionShape
  BY <1>1, <1>2, LegacyAssumption DEF SessionShape
<1>4. SessionRechecks
  BY <1>1 DEF SessionRechecks
<1> QED BY <1>3, <1>4 DEF SessionInv

\* What a line or a change comes to is added to what the session told.
LEMMA ToldAdded ==
    ASSUME SessionInv, NEW op \in Outcomes, NEW u \in LegacyUris, Emit(op, u),
           op \in {"pub", "forbidden"} => \E s \in targets : s = u \/ Inside(u, s),
           op = "silent" => (~\E s \in targets : s = u \/ Inside(u, s)) \/ EndsInTwoSlashes(u),
           reads = {} => op \notin {"ack", "pub"}
    PROVE /\ SessionRechecks'
          /\ told' \in Seq([op : Outcomes, uri : LegacyUris, by : SUBSET LegacyUris, withdrawn : BOOLEAN])
<1> DEFINE n == Len(told)
           R == [op : Outcomes, uri : LegacyUris, by : SUBSET LegacyUris, withdrawn : BOOLEAN]
<1>1. SessionShape /\ SessionRechecks /\ told \in Seq(R)
  BY DEF SessionInv, SessionShape
<1>2. PICK r : r = [op |-> op, uri |-> u, by |-> targets, withdrawn |-> reads = {}]
  OBVIOUS
<1>3. targets \subseteq LegacyUris /\ Cardinality(targets) <= MaxSubs
  BY <1>1 DEF SessionShape, LegacyUris
<1>4. r \in R /\ r.op = op /\ r.uri = u /\ r.by = targets /\ (r.withdrawn <=> reads = {})
  BY <1>2, <1>3
<1>5. told' = Append(told, r)
  BY <1>2 DEF Emit
<1> HIDE DEF R
<1>6. /\ n \in Nat /\ DOMAIN told = 1..n /\ told' \in Seq(R) /\ DOMAIN told' = 1..(n + 1)
      /\ \A i \in 1..n : told'[i] = told[i]
      /\ told'[n + 1] = r
  BY <1>1, <1>4, <1>5, AppendProperties, LenProperties
<1> HIDE DEF n
<1>7. ASSUME NEW i \in 1..(n + 1)
      PROVE /\ told'[i].op \in {"pub", "forbidden"} =>
                  \E s \in told'[i].by : s = told'[i].uri \/ Inside(told'[i].uri, s)
            /\ told'[i].op = "silent" =>
                  \/ ~\E s \in told'[i].by : s = told'[i].uri \/ Inside(told'[i].uri, s)
                  \/ EndsInTwoSlashes(told'[i].uri)
            /\ told'[i].withdrawn => told'[i].op \notin {"ack", "pub"}
            /\ Cardinality(told'[i].by) <= MaxSubs
  <2>1. CASE i = n + 1
    BY <1>3, <1>4, <1>6, <2>1
  <2>2. CASE i \in 1..n
    BY <1>1, <1>6, <2>2 DEF SessionRechecks
  <2> QED BY <1>6, <2>1, <2>2
<1>8. SessionRechecks'
  BY <1>6, <1>7 DEF SessionRechecks, Inside, EndsInTwoSlashes
<1> QED BY <1>6, <1>8 DEF R

LEMMA SessionSteps == SessionInv /\ [SessionNext]_sessionVars => SessionInv'
<1> SUFFICES ASSUME SessionInv, [SessionNext]_sessionVars PROVE SessionInv'
  OBVIOUS
<1> DEFINE LineUris == {l.uri : l \in Lines}
           Told == Seq([op : Outcomes, uri : LegacyUris, by : SUBSET LegacyUris, withdrawn : BOOLEAN])
<1>1. /\ SessionShape /\ SessionRechecks /\ targets \subseteq LineUris /\ IsFiniteSet(targets)
      /\ Cardinality(targets) <= MaxSubs /\ told \in Told
      /\ \A q \in asking :
            /\ q.op \in {"sub", "change"} /\ q.uri \in LegacyUris
            /\ q.op = "sub" => q.uri \in LineUris
            /\ q.op = "sub" /\ q.uri \notin targets => Cardinality(targets) < MaxSubs
            /\ q.op = "change" => \E s \in targets : s = q.uri \/ Inside(q.uri, s)
  BY DEF SessionInv, SessionShape
<1>2. LineUris \subseteq LegacyUris /\ ChangedUris \subseteq LegacyUris
  BY DEF LegacyUris
<1>3. ASSUME targets' \subseteq LineUris, IsFiniteSet(targets'), Cardinality(targets') <= MaxSubs,
             told' \in Told, SessionRechecks',
             \A q \in asking' :
                /\ q.op \in {"sub", "change"} /\ q.uri \in LegacyUris
                /\ q.op = "sub" => q.uri \in LineUris
                /\ q.op = "sub" /\ q.uri \notin targets' => Cardinality(targets') < MaxSubs
                /\ q.op = "change" => \E s \in targets' : s = q.uri \/ Inside(q.uri, s)
      PROVE SessionInv'
  BY <1>3 DEF SessionInv, SessionShape, Inside
<1>4. ASSUME UNCHANGED told PROVE SessionRechecks'
  <2>1. told' = told
    BY <1>4
  <2>2. ASSUME NEW i \in DOMAIN told'
        PROVE /\ told'[i].op \in {"pub", "forbidden"} =>
                    \E s \in told'[i].by : s = told'[i].uri \/ Inside(told'[i].uri, s)
              /\ told'[i].op = "silent" =>
                    \/ ~\E s \in told'[i].by : s = told'[i].uri \/ Inside(told'[i].uri, s)
                    \/ EndsInTwoSlashes(told'[i].uri)
              /\ told'[i].withdrawn => told'[i].op \notin {"ack", "pub"}
              /\ Cardinality(told'[i].by) <= MaxSubs
    BY <1>1, <2>1 DEF SessionRechecks
  <2> QED BY <2>2 DEF SessionRechecks, Inside, EndsInTwoSlashes
<1> HIDE DEF LineUris, Told
<1>5. Cardinality(targets) \in Nat
  BY <1>1, FS_CardinalityType
<1>6. ASSUME NEW line \in Lines, HandleMessage(line) PROVE SessionInv'
  <2>1. asking = {} /\ line.uri \in LineUris /\ line.uri \in LegacyUris
    BY <1>2, <1>6 DEF HandleMessage, SessionReady, None, LineUris
  <2>2. CASE /\ line.op = "sub"
             /\ ~(line.long \/ (line.uri \notin targets /\ Cardinality(targets) >= MaxSubs))
    <3>1. PICK q : q = [op |-> "sub", uri |-> line.uri]
      OBVIOUS
    <3>2. q.op = "sub" /\ q.uri = line.uri
      BY <3>1
    <3>3. asking' = {q} /\ UNCHANGED <<targets, told>>
      BY <1>6, <2>2, <3>1 DEF HandleMessage, Some
    <3>4. q.uri \notin targets => Cardinality(targets) < MaxSubs
      BY <1>5, <2>2, <3>2, LegacyAssumption
    <3> QED BY <1>1, <1>3, <1>4, <2>1, <3>2, <3>3, <3>4
  <2>3. CASE line.op = "unsub" \/ line.op = "blank"
    <3>1. UNCHANGED <<asking, told>> /\ targets' \subseteq targets
      BY <1>6, <2>3 DEF HandleMessage
    <3>2. IsFiniteSet(targets') /\ Cardinality(targets') <= Cardinality(targets)
      BY <1>1, <3>1, FS_Subset
    <3>3. Cardinality(targets') \in Nat
      BY <3>2, FS_CardinalityType
    <3>4. Cardinality(targets') <= MaxSubs
      BY <1>1, <1>5, <3>2, <3>3, LegacyAssumption
    <3>5. asking' = {} /\ targets' \subseteq LineUris /\ told' \in Told
      BY <1>1, <2>1, <3>1
    <3> QED BY <1>3, <1>4, <3>1, <3>2, <3>4, <3>5
  <2>4. CASE /\ ~(line.op = "sub" /\ ~(line.long \/ (line.uri \notin targets /\ Cardinality(targets) >= MaxSubs)))
             /\ line.op # "unsub" /\ line.op # "blank"
    <3>1. Emit("refuse", line.uri) /\ UNCHANGED <<targets, asking>>
      BY <1>6, <2>4 DEF HandleMessage
    <3>2. "refuse" \in Outcomes
      BY DEF Outcomes
    <3>3. SessionRechecks' /\ told' \in Told
      BY <2>1, <3>1, <3>2, ToldAdded DEF Told
    <3> QED BY <1>1, <1>3, <2>1, <3>1, <3>3
  <2> QED BY <2>2, <2>3, <2>4
<1>7. ASSUME NEW u \in ChangedUris, OnResourceChange(u) PROVE SessionInv'
  <2>1. asking = {} /\ u \in LegacyUris /\ UNCHANGED <<reads, targets>>
    BY <1>2, <1>7 DEF OnResourceChange, SessionReady, None
  <2> DEFINE met == ({u} \cup AncestorContainers(u)) \cap targets # {}
  <2>2. /\ met => \E s \in targets : s = u \/ Inside(u, s)
        /\ ~met => (~\E s \in targets : s = u \/ Inside(u, s)) \/ EndsInTwoSlashes(u)
    BY <1>1, <1>2, <2>1, AncestorsAreContainers
  <2>3. CASE met
    <3>1. PICK q : q = [op |-> "change", uri |-> u]
      OBVIOUS
    <3>2. q.op = "change" /\ q.uri = u
      BY <3>1
    <3>3. asking' = {q} /\ UNCHANGED told
      BY <1>7, <2>3, <3>1 DEF OnResourceChange, Some
    <3>4. \E s \in targets : s = u \/ Inside(u, s)
      BY <2>2, <2>3
    <3> QED BY <1>1, <1>3, <1>4, <2>1, <3>2, <3>3, <3>4
  <2>4. CASE ~met
    <3>1. Emit("silent", u) /\ UNCHANGED asking
      BY <1>7, <2>4 DEF OnResourceChange
    <3>2. "silent" \in Outcomes
      BY DEF Outcomes
    <3>4. (~\E s \in targets : s = u \/ Inside(u, s)) \/ EndsInTwoSlashes(u)
      BY <2>2, <2>4
    <3> HIDE DEF met
    <3>3. SessionRechecks' /\ told' \in Told
      BY <2>1, <3>1, <3>2, <3>4, ToldAdded DEF Told
    <3> QED BY <1>1, <1>3, <2>1, <3>1, <3>3
  <2> QED BY <2>3, <2>4
<1>8. CASE CanRead
  <2>1. PICK a \in asking : a = TheOne(asking)
    BY <1>8, TheOneIsIn DEF CanRead, None
  <2>2. PICK op : op = IF a.op = "sub" THEN (IF a.uri \in reads THEN "ack" ELSE "refuse")
                       ELSE (IF a.uri \in reads THEN "pub" ELSE "forbidden")
    OBVIOUS
  <2>3. /\ targets' = IF a.op = "sub" /\ a.uri \in reads THEN targets \cup {a.uri} ELSE targets
        /\ Emit(op, a.uri) /\ asking' = {}
    BY <1>8, <2>1, <2>2 DEF CanRead, None
  <2>4. /\ op \in Outcomes /\ a.uri \in LegacyUris
        /\ op \in {"pub", "forbidden"} => \E s \in targets : s = a.uri \/ Inside(a.uri, s)
        /\ op # "silent" /\ (reads = {} => op \notin {"ack", "pub"})
    BY <1>1, <2>1, <2>2 DEF Outcomes
  <2>5. SessionRechecks' /\ told' \in Told
    BY <2>3, <2>4, ToldAdded DEF Told
  <2>6. targets' \subseteq LineUris /\ IsFiniteSet(targets') /\ Cardinality(targets') <= MaxSubs
    <3>1. CASE targets' = targets
      BY <1>1, <3>1
    <3>2. CASE targets' # targets
      <4>1. /\ a.op = "sub" /\ a.uri \notin targets /\ a.uri \in LineUris
            /\ Cardinality(targets) < MaxSubs
        BY <1>1, <2>1, <2>3, <3>2
      <4>2. PICK T : T = targets \cup {a.uri}
        OBVIOUS
      <4>3. IsFiniteSet(T) /\ Cardinality(T) = Cardinality(targets) + 1
        BY <1>1, <4>1, <4>2, FS_AddElement
      <4>4. Cardinality(T) <= MaxSubs
        BY <1>5, <4>1, <4>3, LegacyAssumption
      <4>5. targets' = T /\ T \subseteq LineUris
        BY <1>1, <2>3, <3>2, <4>1, <4>2
      <4> QED BY <4>3, <4>4, <4>5
    <3> QED BY <3>1, <3>2
  <2> QED BY <1>3, <2>3, <2>5, <2>6
<1>9. CASE SessionWithdraw \/ UNCHANGED sessionVars
  <2>1. UNCHANGED <<targets, asking, told>>
    BY <1>9 DEF SessionWithdraw, sessionVars
  <2> QED BY <1>1, <1>3, <1>4, <2>1
<1> QED BY <1>6, <1>7, <1>8, <1>9 DEF SessionNext

\* Whatever the interleaving of lines, changes, heartbeats and the transport, a
\* pub of the queued form comes behind the ack of an allowed target that covers
\* it; and the session form tells of a change exactly when a target covers it (a
\* URI that ends in two slashes excepted), and of nothing once access was withdrawn.
THEOREM LegacyStaysCovered == Spec => []LegacyCovered
<1>1. LegacyInv /\ SessionInv => LegacyCovered
  BY DEF LegacyInv, SessionInv, LegacyCovered
<1>2. LegacyInv /\ SessionInv /\ [Next]_vars => LegacyInv' /\ SessionInv'
  BY SceneSteps, LegacySteps, SessionSteps
<1>3. Init => LegacyInv /\ SessionInv
  BY LegacyInitial, SessionInitial DEF Init
<1> QED BY <1>1, <1>2, <1>3, PTL DEF Spec

----------------------------------------------------------------------------
(* The Git service.                                                        *)

\* Places moved by d have the same ranks.
ShiftedRanks(K, L, d) == \A i \in Nat : Rank(L, i) = Rank(K, i + d)

\* A set of places and its copy d places earlier are counted alike.
LEMMA RanksShift ==
    ASSUME NEW b \in Nat, NEW K, \A x \in K : x \in 1..b,
           NEW L, \A x \in L : x \in 1..b, NEW d \in Nat,
           \A i \in Nat : i \in L <=> i + d \in K,
           \A i \in K : i > d
    PROVE Cardinality(L) = Cardinality(K) /\ ShiftedRanks(K, L, d)
<1>1. ASSUME NEW m \in Nat PROVE Rank(L, m) = Rank(K, m + d)
  <2>1. PICK S, T : S = {z \in L : z <= m} /\ T = {z \in K : z <= m + d}
    OBVIOUS
  <2>2. IsFiniteSet(S)
    BY <2>1, PlacesFinite
  <2>3. PICK f : f = [z \in S |-> z + d]
    OBVIOUS
  <2>4. f \in [S -> T]
    BY <2>1, <2>3
  <2>5. \A y, z \in S : f[y] = f[z] => y = z
    BY <2>1, <2>3
  <2>6. \A z \in T : \E y \in S : f[y] = z
    <3> SUFFICES ASSUME NEW z \in T PROVE \E y \in S : f[y] = z
      OBVIOUS
    <3>1. z \in K /\ z \in Nat /\ z > d /\ z <= m + d
      BY <2>1
    <3>2. z - d \in Nat /\ (z - d) + d = z
      BY <3>1
    <3>3. z - d \in L
      BY <3>1, <3>2
    <3>4. z - d \in S
      BY <2>1, <3>1, <3>2, <3>3
    <3>5. f[z - d] = z
      BY <2>3, <3>2, <3>4
    <3> QED BY <3>4, <3>5
  <2>7. ExistsBijection(S, T)
    BY <2>4, <2>5, <2>6 DEF ExistsBijection, Bijection, Injection, Surjection, IsInjective
  <2>8. Cardinality(S) = Cardinality(T)
    BY <2>2, <2>7, FS_Bijection
  <2> QED BY <2>1, <2>8 DEF Rank
<1>2. Rank(L, b) = Rank(K, b + d)
  BY <1>1
<1>3. {z \in L : z <= b} = L /\ {z \in K : z <= b + d} = K
  OBVIOUS
<1> QED BY <1>1, <1>2, <1>3 DEF Rank, ShiftedRanks

\* A sequence all of whose places are kept stays as it is.
LEMMA ThinnedWhole ==
    ASSUME NEW T, NEW seq \in Seq(T) PROVE Thinned(seq, DOMAIN seq) = seq
<1>1. PICK P, b : P = DOMAIN seq /\ b = Len(seq)
  OBVIOUS
<1>2. b \in Nat /\ P = 1..b
  BY <1>1, LenProperties
<1>3. ASSUME NEW n \in 0..b PROVE Rank(P, n) = n
  <2>1. {j \in P : j <= n} = 1..n
    BY <1>2
  <2>2. Cardinality(1..n) = n
    BY FS_Interval
  <2> QED BY <2>1, <2>2 DEF Rank
<1>4. Cardinality(P) = b
  BY <1>2, FS_Interval
<1>5. ASSUME NEW n \in 1..b PROVE Thinned(seq, P)[n] = seq[n]
  <2>1. Rank(P, n) = n /\ n \in P
    BY <1>2, <1>3
  <2>2. \A x \in P : x \in 1..b
    BY <1>2
  <2>3. b \in Nat /\ n \in P
    BY <1>2, <2>1
  <2>4. Thinned(seq, P)[Rank(P, n)] = seq[n]
    BY <2>2, <2>3, ThinnedAt
  <2> QED BY <2>1, <2>4
<1>6. PICK f : f = Thinned(seq, P)
  OBVIOUS
<1>7. f \in Seq(T) /\ Len(f) = b
  BY <1>1, <1>4, <1>6, ThinnedSeq
<1>8. \A n \in 1..b : f[n] = seq[n]
  BY <1>5, <1>6
<1>9. f = seq
  BY <1>1, <1>7, <1>8, SeqEqual
<1> QED BY <1>1, <1>6, <1>9

\* A name without ".." is not changed by the scrubbing.
LEMMA PlainNameStays ==
    ASSUME NEW n \in Seq(STRING), ~HasDots(n) PROVE Scrubbed(n) = n
<1>1. PICK b \in Nat : DOMAIN n = 1..b
  BY LenProperties
<1>2. ASSUME NEW i \in DOMAIN n, n[i] = "." PROVE DotRun(n, i) = {i}
  <2>1. i \in DotRun(n, i)
    BY <1>1, <1>2 DEF DotRun
  <2>2. ASSUME NEW j \in DotRun(n, i), j # i PROVE FALSE
    <3>1. j \in 1..b /\ i \in 1..b
      BY <1>1 DEF DotRun
    <3>2. CASE i < j
      <4>1. i + 1 \in DOMAIN n /\ i <= i + 1 /\ i + 1 <= j
        BY <1>1, <3>1, <3>2
      <4>2. n[i + 1] = "."
        BY <4>1 DEF DotRun
      <4> QED BY <1>2, <4>1, <4>2 DEF HasDots
    <3>3. CASE j < i
      <4>1. i - 1 \in DOMAIN n /\ j <= i - 1 /\ i - 1 <= i /\ (i - 1) + 1 = i
        BY <1>1, <3>1, <3>3
      <4>2. n[i - 1] = "."
        BY <4>1 DEF DotRun
      <4> QED BY <1>2, <4>1, <4>2 DEF HasDots
    <3> QED BY <2>2, <3>1, <3>2, <3>3
  <2> QED BY <2>1, <2>2
<1>3. ASSUME NEW i \in DOMAIN n PROVE i \in Unscrubbed(n)
  <2>1. CASE n[i] = "."
    <3>1. DotRun(n, i) = {i}
      BY <1>2, <2>1
    <3>2. Cardinality(DotRun(n, i)) = 1
      BY <3>1, FS_Singleton
    <3>3. Cardinality(DotRun(n, i)) % 2 = 1
      BY <3>2
    <3>4. \A j \in DotRun(n, i) : j <= i
      BY <1>1, <3>1
    <3> QED BY <3>3, <3>4 DEF Unscrubbed
  <2>2. CASE n[i] # "."
    BY <2>2 DEF Unscrubbed
  <2> QED BY <2>1, <2>2
<1>4. Unscrubbed(n) = DOMAIN n
  BY <1>3 DEF Unscrubbed
<1> QED BY <1>4, ThinnedWhole DEF Scrubbed

\* extract_repo_slug and PathBuf::join: leading slashes are no components, and a path
\* without ".." loses nothing else, so the slug and the path name one directory.
LEMMA SlugNamesDirectory ==
    ASSUME NEW path, path.segs \in Seq(Seq(STRING)),
           \A i \in DOMAIN path.segs : ~HasDots(path.segs[i])
    PROVE Directory(ExtractRepoSlug(path)) = Directory(path.segs)
<1>1. PICK s, b : s = path.segs /\ b = Len(s)
  OBVIOUS
<1>2. b \in Nat /\ DOMAIN s = 1..b
  BY <1>1, LenProperties
<1>3. PICK named : named = {i \in DOMAIN s : s[i] # NoName}
  OBVIOUS
<1>4. PICK t : t = LeadingTrimmed(s)
  OBVIOUS
<1>5. PICK slug : slug = [i \in DOMAIN t |-> Scrubbed(t[i])]
  OBVIOUS
<1>6. ExtractRepoSlug(path) = slug
  BY <1>1, <1>4, <1>5 DEF ExtractRepoSlug
<1>7. PICK K, L : K = Components(s) /\ L = Components(slug)
  OBVIOUS
<1>8. /\ K = {i \in 1..b : s[i] \notin {NoName, Dot}}
      /\ L = {i \in DOMAIN t : slug[i] \notin {NoName, Dot}}
  BY <1>2, <1>5, <1>7 DEF Components
<1>9. CASE named = {}
  <2>1. t = <<>>
    BY <1>3, <1>4, <1>9 DEF LeadingTrimmed
  <2>2. K = {} /\ L = {}
    <3>1. K = {}
      BY <1>2, <1>3, <1>8, <1>9
    <3>2. DOMAIN t = {}
      BY <2>1
    <3> QED BY <1>8, <3>1, <3>2
  <2>3. 1..Cardinality(K) = {} /\ 1..Cardinality(L) = {}
    BY <2>2, FS_EmptySet
  <2>4. Directory(s) = [n \in {} |-> s[CHOOSE i \in K : Rank(K, i) = n]]
    BY <1>7, <2>3 DEF Directory, Thinned
  <2>5. Directory(slug) = [n \in {} |-> slug[CHOOSE i \in L : Rank(L, i) = n]]
    BY <1>7, <2>3 DEF Directory, Thinned
  <2>6. Directory(slug) = Directory(s)
    BY <2>4, <2>5
  <2> QED BY <1>1, <1>6, <2>6
<1>10. CASE named # {}
  <2>1. PICK e : e = CHOOSE i \in named : \A j \in named : i <= j
    OBVIOUS
  <2>2. \A i \in named : i \in 1..b
    BY <1>2, <1>3
  <2>3. named \subseteq Nat
    BY <2>2
  <2>4. e \in named /\ \A j \in named : e <= j
    BY <1>10, <2>1, <2>3, LeastOf
  <2>5. PICK d \in Nat : e = d + 1 /\ d < b
    <3>1. e \in 1..b
      BY <2>2, <2>4
    <3>2. e - 1 \in Nat /\ e = (e - 1) + 1 /\ e - 1 < b
      BY <1>2, <3>1
    <3> QED BY <3>2
  <2>6. t = SubSeq(s, d + 1, b)
    BY <1>1, <1>3, <1>4, <1>10, <2>1, <2>5 DEF LeadingTrimmed
  <2>7. /\ t \in Seq(Seq(STRING)) /\ Len(t) = b - d
        /\ \A i \in 1..(b - d) : t[i] = s[i + d]
    <3>1. \A i \in (d + 1)..b : s[i] \in Seq(STRING)
      BY <1>1, <1>2, <2>5, ElementOfSeq
    <3>2. /\ SubSeq(s, d + 1, b) \in Seq(Seq(STRING))
          /\ Len(SubSeq(s, d + 1, b)) = IF d + 1 <= b THEN b - (d + 1) + 1 ELSE 0
          /\ \A i \in 1..(b - (d + 1) + 1) : SubSeq(s, d + 1, b)[i] = s[d + 1 + i - 1]
      BY <1>2, <2>5, <3>1, SubSeqProperties
    <3>3. b - (d + 1) + 1 = b - d /\ d + 1 <= b /\ \A i \in 1..(b - d) : d + 1 + i - 1 = i + d
      BY <1>2, <2>5
    <3> QED BY <2>6, <3>2, <3>3
  <2>8. DOMAIN t = 1..(b - d)
    BY <2>7, LenProperties
  <2>9. \A i \in 1..(b - d) : slug[i] = s[i + d]
    <3> SUFFICES ASSUME NEW i \in 1..(b - d) PROVE slug[i] = s[i + d]
      OBVIOUS
    <3>1. i + d \in 1..b
      BY <1>2, <2>5
    <3>2. ~HasDots(s[i + d]) /\ s[i + d] \in Seq(STRING)
      BY <1>1, <1>2, <3>1, ElementOfSeq
    <3>3. Scrubbed(s[i + d]) = s[i + d]
      BY <3>2, PlainNameStays
    <3> QED BY <1>5, <2>7, <2>8, <3>3
  <2>10. \A i \in K : i \in 1..b
    BY <1>8
  <2>11. \A i \in L : i \in 1..b /\ i \in 1..(b - d)
    BY <1>2, <1>8, <2>5, <2>8
  <2>12. \A i \in K : i > d
    BY <1>2, <1>3, <1>8, <2>4, <2>5
  <2>13. \A i \in Nat : i \in L <=> i + d \in K
    <3> SUFFICES ASSUME NEW i \in Nat PROVE i \in L <=> i + d \in K
      OBVIOUS
    <3>1. CASE i \in 1..(b - d)
      <4>1. i + d \in 1..b /\ slug[i] = s[i + d]
        BY <1>2, <2>5, <2>9, <3>1
      <4> QED BY <1>8, <2>8, <3>1, <4>1
    <3>2. CASE i = 0
      BY <2>5, <2>11, <2>12, <3>2
    <3>3. CASE i > b - d
      BY <1>2, <2>5, <2>10, <2>11, <3>3
    <3> QED BY <1>2, <2>5, <3>1, <3>2, <3>3
  <2>14. Cardinality(L) = Cardinality(K) /\ \A i \in Nat : Rank(L, i) = Rank(K, i + d)
    <3>1. \A x \in L : x \in 1..b
      BY <2>11
    <3>2. b \in Nat /\ d \in Nat
      BY <1>2
    <3>3. Cardinality(L) = Cardinality(K)
      BY <2>10, <2>12, <2>13, <3>1, <3>2, RanksShift, Zenon
    <3>4. ShiftedRanks(K, L, d)
      BY <2>10, <2>12, <2>13, <3>1, <3>2, RanksShift, Zenon
    <3> QED BY <3>3, <3>4 DEF ShiftedRanks
  <2>15. ASSUME NEW n \in 1..Cardinality(K)
         PROVE slug[CHOOSE i \in L : Rank(L, i) = n] = s[CHOOSE i \in K : Rank(K, i) = n]
    <3>1. PICK i, j : i = (CHOOSE x \in L : Rank(L, x) = n) /\ j = (CHOOSE x \in K : Rank(K, x) = n)
      OBVIOUS
    <3>2. j \in K /\ Rank(K, j) = n
      BY <1>2, <2>10, <3>1, RankIsMet
    <3>3. i \in L /\ Rank(L, i) = n
      <4>1. n \in 1..Cardinality(L)
        BY <2>14
      <4>2. \E x \in L : Rank(L, x) = n
        BY <1>2, <2>11, <4>1, RankIsMet
      <4> QED BY <3>1, <4>2
    <3>4. i + d \in K /\ Rank(K, i + d) = n
      <4>1. i \in Nat
        BY <2>11, <3>3
      <4> QED BY <2>13, <2>14, <3>3, <4>1
    <3>5. j = i + d
      BY <1>2, <2>10, <3>2, <3>4, RankIsOnce
    <3> QED BY <2>9, <2>11, <3>1, <3>3, <3>5
  <2>16. Directory(s) = [n \in 1..Cardinality(K) |-> s[CHOOSE i \in K : Rank(K, i) = n]]
    BY <1>7 DEF Directory, Thinned
  <2>17. Directory(slug) = [n \in 1..Cardinality(K) |-> slug[CHOOSE i \in L : Rank(L, i) = n]]
    BY <1>7, <2>14 DEF Directory, Thinned
  <2>18. Directory(slug) = Directory(s)
    BY <2>15, <2>16, <2>17
  <2> QED BY <1>1, <1>6, <2>18
<1> QED BY <1>9, <1>10

\* The slug is a sequence of names.
LEMMA SlugPlaces ==
    ASSUME NEW path, path.segs \in Seq(Seq(STRING))
    PROVE \E b \in Nat : DOMAIN ExtractRepoSlug(path) = 1..b
<1>1. PICK s, t : s = path.segs /\ t = LeadingTrimmed(s)
  OBVIOUS
<1>2. PICK b \in Nat : b = Len(s) /\ DOMAIN s = 1..b
  BY <1>1, LenProperties
<1>3. PICK named : named = {i \in DOMAIN s : s[i] # NoName}
  OBVIOUS
<1>4. DOMAIN ExtractRepoSlug(path) = DOMAIN t
  BY <1>1 DEF ExtractRepoSlug
<1>5. CASE named = {}
  <2>1. t = <<>>
    BY <1>1, <1>3, <1>5 DEF LeadingTrimmed
  <2>2. DOMAIN t = 1..0
    BY <2>1
  <2> QED BY <1>4, <2>2
<1>6. CASE named # {}
  <2>1. PICK e : e = CHOOSE i \in named : \A j \in named : i <= j
    OBVIOUS
  <2>2. e \in named
    <3>1. named \subseteq Nat
      BY <1>2, <1>3
    <3> QED BY <1>6, <2>1, <3>1, LeastOf
  <2>3. e \in 1..b
    BY <1>2, <1>3, <2>2
  <2>4. t = SubSeq(s, e, b)
    BY <1>1, <1>2, <1>3, <1>6, <2>1 DEF LeadingTrimmed
  <2>5. \A i \in e..b : s[i] \in Seq(STRING)
    BY <1>1, <1>2, <2>3, ElementOfSeq
  <2>6. SubSeq(s, e, b) \in Seq(Seq(STRING))
    BY <1>2, <2>3, <2>5, SubSeqProperties
  <2>7. Len(t) \in Nat /\ DOMAIN t = 1..Len(t)
    BY <2>4, <2>6, LenProperties
  <2> QED BY <1>4, <2>7
<1> QED BY <1>5, <1>6

\* The stages in which the handler holds a request, and what it holds.
GitStages == {"checked", "authorised", "write", "drain"}
GitFields == {"at", "req", "dir", "kind", "auth", "allowed", "user"}

\* The record has its fields, and the request is one a client sent.
GitShape ==
    /\ GitTypeOK /\ DOMAIN gitPipes = DOMAIN NoProcess
    /\ git.at \in GitStages => DOMAIN git = GitFields /\ git.req \in GitRequests

\* The repository was looked up by the names that the backend will see ...
LookedUp == git.at \in GitStages =>
    /\ \A i \in DOMAIN git.dir : git.dir[i] # DotDot
    /\ DotsInPath(git.req) \/ Directory(git.req.path.segs) = git.dir

\* ... and past the test a write has a user.
WriterKnown ==
    git.at \in {"authorised", "write", "drain"} /\ IsWrite(git.req) => git.user # None

\* The inductive invariant of the Git service.
GitInv == GitShape /\ LookedUp /\ WriterKnown

\* A request that handle did not answer at once passed the guard.
LEMMA HandlePassed ==
    ASSUME NEW r, NEW slug, NEW dir,
           FirstOf(<<<<200, r.method = "OPTIONS">>,
                     <<400, ~SlugIsEmpty(slug) /\ ~PathSafe(slug)>>,
                     <<404, FindGitDir(dir) = None>>>>, 0) = 0
    PROVE SlugIsEmpty(slug) \/ PathSafe(slug)
<1> DEFINE chain == <<<<200, r.method = "OPTIONS">>,
                      <<400, ~SlugIsEmpty(slug) /\ ~PathSafe(slug)>>,
                      <<404, FindGitDir(dir) = None>>>>
<1>1. DOMAIN chain = 1..3 /\ \A i \in 1..3 : chain[i][1] # 0
  OBVIOUS
<1>2. FirstOf(chain, 0) = 0
  OBVIOUS
<1>5. chain[2][2] = (~SlugIsEmpty(slug) /\ ~PathSafe(slug))
  OBVIOUS
<1> HIDE DEF chain
<1>3. DOMAIN chain \subseteq Nat /\ \A i \in DOMAIN chain : chain[i][1] # 0
  BY <1>1
<1>4. \A i \in DOMAIN chain : ~chain[i][2]
  BY <1>2, <1>3, ChainFallsThrough
<1>6. ~chain[2][2]
  BY <1>1, <1>4
<1> QED BY <1>5, <1>6

\* What the guard lets pass has no ".." in it, and neither has the directory it names.
LEMMA SafeSlugStays ==
    ASSUME NEW path, path.segs \in Seq(Seq(STRING)), NEW slug, slug = ExtractRepoSlug(path),
           SlugIsEmpty(slug) \/ PathSafe(slug)
    PROVE \A i \in DOMAIN Directory(slug) : Directory(slug)[i] # DotDot
<1>1. PICK b \in Nat : DOMAIN slug = 1..b
  BY SlugPlaces
<1>2. \A i \in DOMAIN slug : slug[i] # DotDot
  <2>1. CASE PathSafe(slug)
    BY <2>1 DEF PathSafe
  <2>2. CASE slug = <<>>
    BY <2>2
  <2>3. CASE slug = <<NoName>>
    <3>1. NoName # DotDot
      <4>1. DOMAIN NoName = {} /\ 1 \in DOMAIN DotDot
        BY DEF NoName, DotDot
      <4> QED BY <4>1
    <3> QED BY <2>3, <3>1
  <2> QED BY <2>1, <2>2, <2>3 DEF SlugIsEmpty
<1>3. PICK P : P = Components(slug)
  OBVIOUS
<1>4. \A x \in P : x \in 1..b /\ x \in DOMAIN slug
  BY <1>1, <1>3 DEF Components
<1>5. DOMAIN Directory(slug) = 1..Cardinality(P)
  BY <1>3 DEF Directory, Thinned
<1>6. ASSUME NEW n \in 1..Cardinality(P) PROVE Thinned(slug, P)[n] # DotDot
  <2>1. b \in Nat /\ \A x \in P : x \in 1..b
    BY <1>4
  <2>2. \E i \in P : Rank(P, i) = n /\ Thinned(slug, P)[n] = slug[i]
    BY <2>1, ThinnedFrom
  <2> QED BY <1>2, <1>4, <2>2
<1> QED BY <1>3, <1>5, <1>6 DEF Directory

\* The service starts idle.
LEMMA GitInitial == GitInit => GitInv
<1> SUFFICES ASSUME GitInit PROVE GitInv
  OBVIOUS
<1>1. git.at = "idle" /\ gitPipes.stdin = 0 /\ gitPipes.stdout = 0 /\ gitPipes = NoProcess
  BY DEF GitInit, Idle, NoProcess
<1>2. GitShape
  BY <1>1, GitAssumption DEF GitShape, GitTypeOK, GitStages
<1> QED BY <1>1, <1>2 DEF GitInv, LookedUp, WriterKnown, GitStages

\* is_write sees every push that the backend reads out of the request, but for escapes.
LEMMA ServedIsWrite ==
    ASSUME NEW r \in GitRequests, BackendService(r) = "receive", ~EscapedService(r)
    PROVE IsWrite(r)
<1>1. CASE r.path.service # "refs"
  BY <1>1 DEF BackendService, IsWrite
<1>2. CASE r.path.service = "refs"
  <2>1. PICK S : S = ServiceParameters(r)
    OBVIOUS
  <2>2. PICK b \in Nat : DOMAIN r.query = 1..b
    <3>1. r.query \in Seq(Parameters)
      BY GitAssumption
    <3> QED BY <3>1, LenProperties
  <2>3. \A x \in S : x \in 1..b /\ x \in DOMAIN r.query /\ r.query[x].name = "service"
    BY <2>1, <2>2 DEF ServiceParameters
  <2>4. S # {} /\ r.query[CHOOSE i \in S : \A j \in S : j <= i].value = "receive"
    BY <1>2, <2>1 DEF BackendService
  <2>5. \E i \in S : \A j \in S : j <= i
    <3>1. Max(S) \in S /\ \A y \in S : Max(S) >= y
      BY <2>2, <2>3, <2>4, GreatestOf
    <3> QED BY <2>3, <3>1
  <2>6. PICK i \in S : r.query[i].value = "receive"
    BY <2>4, <2>5
  <2>7. ~r.query[i].escaped
    BY <1>2, <2>1 DEF EscapedService
  <2> QED BY <2>3, <2>6, <2>7 DEF IsWrite, EndsInService, BeginsAsReceive
<1> QED BY <1>1, <1>2

\* What the process does, and what is answered, concerns the pipes alone.
LEMMA PipesStep ==
    ASSUME GitInv, DOMAIN gitPipes' = DOMAIN NoProcess,
           gitPipes'.stdin \in 0..PipeCap, gitPipes'.stdout \in 0..PipeCap,
           \/ UNCHANGED git
           \/ \E status : GitAnswer(status)
           \/ git.at = "authorised" /\ git' = [git EXCEPT !.at = "write"]
           \/ git.at = "write" /\ git' = [git EXCEPT !.at = "drain"]
    PROVE GitInv'
<1>1. CASE UNCHANGED git
  BY <1>1 DEF GitInv, GitShape, GitTypeOK, LookedUp, WriterKnown
<1>2. CASE \E status : GitAnswer(status)
  <2>1. git'.at = "answered"
    BY <1>2 DEF GitAnswer
  <2> QED BY <2>1 DEF GitInv, GitShape, GitTypeOK, LookedUp, WriterKnown, GitStages
<1>3. ASSUME NEW stage \in {"write", "drain"}, git.at \in {"authorised", "write"},
             git' = [git EXCEPT !.at = stage]
      PROVE GitInv'
  <2>1. /\ DOMAIN git = GitFields /\ DOMAIN git' = GitFields /\ git'.at = stage
        /\ git'.req = git.req /\ git'.dir = git.dir /\ git'.user = git.user
    BY <1>3 DEF GitInv, GitShape, GitStages, GitFields
  <2> QED BY <1>3, <2>1 DEF GitInv, GitShape, GitTypeOK, LookedUp, WriterKnown, GitStages
<1> QED BY <1>1, <1>2, <1>3

\* Every step of the handler, of the reader and of the process keeps it.
LEMMA GitSteps == GitInv /\ [GitNext]_gitVars => GitInv'
<1> SUFFICES ASSUME GitInv, [GitNext]_gitVars PROVE GitInv'
  OBVIOUS
<1>1. /\ DOMAIN gitPipes = {"alive", "stdin", "open", "unread", "unsent", "stdout", "got", "ok"}
      /\ DOMAIN NoProcess = {"alive", "stdin", "open", "unread", "unsent", "stdout", "got", "ok"}
      /\ gitPipes.stdin \in 0..PipeCap /\ gitPipes.stdout \in 0..PipeCap /\ PipeCap \in Nat
  BY GitAssumption DEF GitInv, GitShape, GitTypeOK, NoProcess
<1>2. CASE UNCHANGED gitVars
  BY <1>1, <1>2, PipesStep DEF gitVars
<1>3. ASSUME NEW r \in GitRequests, NEW a, NEW l, GitHandle(r, a, l) PROVE GitInv'
  <2>1. PICK dir, slug, early :
            /\ dir = Directory(slug) /\ slug = ExtractRepoSlug(r.path)
            /\ early = FirstOf(<<
                <<200, r.method = "OPTIONS">>,
                <<400, ~SlugIsEmpty(slug) /\ ~PathSafe(slug)>>,
                <<404, FindGitDir(dir) = None>>>>, 0)
    OBVIOUS
  <2>2. \/ \E status : GitAnswer(status)
        \/ \E k : early = 0 /\ git' = [at |-> "checked", req |-> r, dir |-> dir, kind |-> k,
                          auth |-> a, allowed |-> l, user |-> None]
    BY <1>3, <2>1 DEF GitHandle
  <2>3. gitPipes' = gitPipes
    BY <1>3 DEF GitHandle
  <2>4. CASE \E status : GitAnswer(status)
    BY <1>1, <2>3, <2>4, PipesStep
  <2>5. ASSUME NEW k, early = 0, git' = [at |-> "checked", req |-> r, dir |-> dir, kind |-> k,
                              auth |-> a, allowed |-> l, user |-> None]
        PROVE GitInv'
    <3>1. git'.at = "checked" /\ git'.req = r /\ git'.dir = dir /\ DOMAIN git' = GitFields
      BY <2>5 DEF GitFields
    <3>2. DotsInPath(r) \/ Directory(r.path.segs) = dir
      BY <2>1, GitAssumption, SlugNamesDirectory DEF DotsInPath
    <3>4. SlugIsEmpty(slug) \/ PathSafe(slug)
      BY <2>1, <2>5, HandlePassed
    <3>5. \A i \in DOMAIN dir : dir[i] # DotDot
      BY <2>1, <3>4, GitAssumption, SafeSlugStays
    <3>3. GitShape'
      BY <2>3, <3>1 DEF GitInv, GitShape, GitTypeOK
    <3> QED BY <3>1, <3>2, <3>3, <3>5 DEF GitInv, LookedUp, WriterKnown
  <2> QED BY <2>2, <2>4, <2>5
<1>4. CASE GitAuthorise
  <2>1. git.at = "checked" /\ gitPipes' = gitPipes /\ DOMAIN git = GitFields /\ git.req \in GitRequests
    BY <1>4 DEF GitAuthorise, GitInv, GitShape, GitStages
  <2>2. CASE \E status : GitAnswer(status)
    BY <1>1, <2>1, <2>2, PipesStep
  <2>3. ASSUME NEW u, git' = [git EXCEPT !.at = "authorised", !.user = u],
               IsWrite(git.req) => u # None
        PROVE GitInv'
    <3>1. /\ git'.at = "authorised" /\ git'.req = git.req /\ git'.dir = git.dir
          /\ git'.user = u /\ DOMAIN git' = GitFields
      BY <2>1, <2>3 DEF GitFields
    <3>2. GitShape'
      BY <2>1, <3>1 DEF GitInv, GitShape, GitTypeOK
    <3> QED BY <2>1, <2>3, <3>1, <3>2 DEF GitInv, LookedUp, WriterKnown, GitStages
  <2>4. CASE ~IsWrite(git.req) /\ git' = [git EXCEPT !.at = "authorised"]
    <3>1. [git EXCEPT !.at = "authorised"] = [git EXCEPT !.at = "authorised", !.user = git.user]
      BY <2>1 DEF GitFields
    <3> QED BY <2>3, <2>4, <3>1
  <2>5. ASSUME NEW u, git' = [git EXCEPT !.at = "authorised", !.user = Some(u)]
        PROVE GitInv'
    <3>1. Some(u) # None
      BY DEF Some, None
    <3> QED BY <2>3, <2>5, <3>1
  <2> QED BY <1>4, <2>2, <2>4, <2>5 DEF GitAuthorise
<1>5. CASE GitSpawn
  <2>1. ASSUME NEW t, NEW x, NEW y,
               gitPipes' = [NoProcess EXCEPT !.alive = t, !.open = t, !.unread = x, !.unsent = y]
        PROVE /\ DOMAIN gitPipes' = DOMAIN NoProcess
              /\ gitPipes'.stdin \in 0..PipeCap /\ gitPipes'.stdout \in 0..PipeCap
    BY <1>1, <2>1 DEF NoProcess
  <2>2. CASE (\E status : GitAnswer(status)) /\ gitPipes' = gitPipes
    BY <1>1, <2>2, PipesStep
  <2>3. CASE /\ git.at = "authorised" /\ git' = [git EXCEPT !.at = "write"]
             /\ gitPipes' = [NoProcess EXCEPT !.alive = TRUE, !.open = TRUE,
                                !.unread = git.req.body, !.unsent = git.req.reply]
    <3>1. PICK t : t = TRUE
      OBVIOUS
    <3>2. gitPipes' = [NoProcess EXCEPT !.alive = t, !.open = t,
                          !.unread = git.req.body, !.unsent = git.req.reply]
      BY <2>3, <3>1, Zenon
    <3>3. /\ DOMAIN gitPipes' = DOMAIN NoProcess
          /\ gitPipes'.stdin \in 0..PipeCap /\ gitPipes'.stdout \in 0..PipeCap
      BY <2>1, <3>2
    <3>4. git.at = "authorised" /\ git' = [git EXCEPT !.at = "write"]
      BY <2>3
    <3> QED BY <3>3, <3>4, PipesStep
  <2>4. \/ (\E status : GitAnswer(status)) /\ gitPipes' = gitPipes
        \/ /\ git.at = "authorised" /\ git' = [git EXCEPT !.at = "write"]
           /\ gitPipes' = [NoProcess EXCEPT !.alive = TRUE, !.open = TRUE,
                              !.unread = git.req.body, !.unsent = git.req.reply]
    BY <1>5, Zenon DEF GitSpawn
  <2> QED BY <2>2, <2>3, <2>4, Zenon
<1>6. CASE GitWriteBody
  BY <1>1, <1>6, PipesStep DEF GitWriteBody
<1>7. CASE GitCloseStdin
  BY <1>1, <1>7, PipesStep DEF GitCloseStdin
<1>8. CASE GitDrain
  BY <1>1, <1>8, PipesStep DEF GitDrain
<1>9. CASE GitFinish
  BY <1>1, <1>9, PipesStep DEF GitFinish
<1>10. CASE BackendRead
  BY <1>1, <1>10, PipesStep DEF BackendRead
<1>11. CASE BackendWrite
  BY <1>1, <1>11, PipesStep DEF BackendWrite
<1>12. CASE BackendExit
  BY <1>1, <1>12, PipesStep DEF BackendExit
<1>13. CASE BackendFails
  BY <1>1, <1>13, PipesStep DEF BackendFails
<1> QED BY <1>2, <1>3, <1>4, <1>5, <1>6, <1>7, <1>8, <1>9, <1>10, <1>11, <1>12, <1>13
        DEF GitNext, GitAccept, GitStep

\* Whatever git-http-backend serves as a push, or as the listing for one, had a verified
\* user, although handle and the backend read the request each in its own way, unless the
\* listing was asked for with an escaped service name; the directory the guard looked up
\* has no ".." in it, and unless the path had, it is the one the backend opens.
THEOREM PushesAreAuthorised == Spec => []PushAuthorised
<1>1. ASSUME GitInv PROVE PushAuthorised
  <2>1. GitTypeOK
    BY <1>1 DEF GitInv, GitShape
  <2>2. ASSUME Running, BackendService(git.req) = "receive", ~EscapedService(git.req)
        PROVE git.user # None
    <3>1. git.req \in GitRequests
      BY <1>1, <2>2 DEF GitInv, GitShape, GitStages, Running
    <3>2. IsWrite(git.req)
      BY <2>2, <3>1, ServedIsWrite
    <3> QED BY <1>1, <2>2, <3>2 DEF GitInv, WriterKnown, Running
  <2>3. ASSUME Running
        PROVE /\ \A i \in DOMAIN git.dir : git.dir[i] # DotDot
              /\ DotsInPath(git.req) \/ Directory(git.req.path.segs) = git.dir
    BY <1>1, <2>3 DEF GitInv, LookedUp, Running, GitStages
  <2> QED BY <2>1, <2>2, <2>3 DEF PushAuthorised
<1>2. GitInv /\ [Next]_vars => GitInv'
  BY GitSteps, SceneSteps
<1>3. Init => GitInv
  BY GitInitial DEF Init
<1> QED BY <1>1, <1>2, <1>3, PTL DEF Spec

-----------------------------------------------------------------------------
(* The quota tracker.                                                      *)

\* Division with remainder, for the counter's wrap-around.
LEMMA Remainders ==
    ASSUME NEW n \in Int, NEW k \in Nat \ {0}
    PROVE n = k * (n \div k) + (n % k) /\ n % k \in 0..(k - 1) /\ n \div k \in Int
OBVIOUS

\* A remainder is known by its range.
LEMMA RemainderIs ==
    ASSUME NEW k \in Nat \ {0}, NEW a \in Int, NEW r \in 0..(k - 1) PROVE (k * a + r) % k = r
OBVIOUS

\* fetch_add and fetch_sub wrap: adding to the remainder or to the sum comes to the same.
LEMMA WrapsAlike ==
    ASSUME NEW k \in Nat \ {0}, NEW x \in Int, NEW s \in Int
    PROVE ((x % k) + s) % k = (x + s) % k
<1>1. PICK a \in Int, r \in 0..(k - 1) : x = k * a + r /\ x % k = r
  BY Remainders
<1>2. PICK b \in Int, t \in 0..(k - 1) : r + s = k * b + t /\ (r + s) % k = t
  <2>1. r + s \in Int
    OBVIOUS
  <2> QED BY <2>1, Remainders
<1>3. x + s = k * (a + b) + t
  <2>1. k * (a + b) = k * a + k * b
    OBVIOUS
  <2>2. k * a \in Int /\ k * b \in Int
    OBVIOUS
  <2> QED BY <1>1, <1>2, <2>1, <2>2
<1>4. (x + s) % k = t
  <2>1. a + b \in Int
    OBVIOUS
  <2> QED BY <1>3, <2>1, RemainderIs
<1> QED BY <1>1, <1>2, <1>4

\* Amounts that a word can hold.
Amounts == [Reservers -> 0..(Word - 1)]

\* A unit is a holder and a number.
LEMMA UnitIs ==
    ASSUME NEW amount, NEW u
    PROVE u \in Units(amount) <=> \E h \in Reservers : \E i \in 1..amount[h] : u = <<h, i>>
BY DEF Units

\* Finitely many holders have finitely many units.
LEMMA UnitsFinite ==
    ASSUME NEW amount \in Amounts
    PROVE IsFiniteSet(Units(amount)) /\ Cardinality(Units(amount)) \in Nat
<1>1. PICK b \in Int : b = Word - 1
  BY ProvisionAssumption
<1>2. IsFiniteSet(1..b)
  BY <1>1, FS_Interval
<1>3. IsFiniteSet(Reservers \X (1..b))
  BY <1>2, ProvisionAssumption, FS_Product
<1>4. ASSUME NEW u \in Units(amount) PROVE u \in Reservers \X (1..b)
  <2>1. PICK h \in Reservers : \E i \in 1..amount[h] : u = <<h, i>>
    BY <1>4, UnitIs
  <2>2. PICK i \in 1..amount[h] : u = <<h, i>>
    BY <2>1
  <2>3. amount[h] \in 0..b
    BY <1>1 DEF Amounts
  <2>4. i \in 1..b
    BY <1>1, <2>2, <2>3
  <2> QED BY <2>2, <2>4
<1>5. Units(amount) \in SUBSET (Reservers \X (1..b))
  BY <1>4
<1> QED BY <1>3, <1>5, FS_Subset, FS_CardinalityType

\* Who had nothing and gets s adds s units.
LEMMA UnitsGained ==
    ASSUME NEW amount \in Amounts, NEW h \in Reservers, amount[h] = 0, NEW s \in 0..(Word - 1)
    PROVE /\ [amount EXCEPT ![h] = s] \in Amounts
          /\ Cardinality(Units([amount EXCEPT ![h] = s])) = Cardinality(Units(amount)) + s
<1>1. PICK more : more = [amount EXCEPT ![h] = s]
  OBVIOUS
<1>2. more \in Amounts /\ more[h] = s /\ \A g \in Reservers : g # h => more[g] = amount[g]
  BY <1>1 DEF Amounts
<1>3. s \in Int /\ s \in Nat
  BY ProvisionAssumption
<1>4. PICK N : N = {h} \X (1..s)
  OBVIOUS
<1>5. IsFiniteSet(N) /\ Cardinality(N) = s
  <2>1. IsFiniteSet({h}) /\ Cardinality({h}) = 1
    BY FS_Singleton
  <2>2. IsFiniteSet(1..s) /\ Cardinality(1..s) = s
    BY <1>3, FS_Interval
  <2>3. IsFiniteSet(N) /\ Cardinality(N) = 1 * s
    BY <1>4, <2>1, <2>2, FS_Product
  <2> QED BY <1>3, <2>3
<1>6. \A u : u \in N <=> \E i \in 1..s : u = <<h, i>>
  BY <1>4
<1>7. \A u : u \in Units(more) <=> u \in Units(amount) \/ u \in N
  <2> SUFFICES ASSUME NEW u PROVE u \in Units(more) <=> u \in Units(amount) \/ u \in N
    OBVIOUS
  <2>1. ASSUME NEW g \in Reservers, NEW i \in 1..more[g], u = <<g, i>>
        PROVE u \in Units(amount) \/ u \in N
    <3>1. CASE g = h
      BY <1>2, <1>6, <2>1, <3>1
    <3>2. CASE g # h
      <4>1. more[g] = amount[g]
        BY <1>2, <3>2
      <4> QED BY <2>1, <4>1, UnitIs
    <3> QED BY <3>1, <3>2
  <2>2. ASSUME NEW g \in Reservers, NEW i \in 1..amount[g], u = <<g, i>> PROVE u \in Units(more)
    <3>1. g # h
      <4>1. 1..0 = {}
        OBVIOUS
      <4> QED BY <4>1
    <3>2. more[g] = amount[g]
      BY <1>2, <3>1
    <3> QED BY <2>2, <3>2, UnitIs
  <2>3. ASSUME NEW i \in 1..s, u = <<h, i>> PROVE u \in Units(more)
    BY <1>2, <2>3, UnitIs
  <2> QED BY <1>6, <2>1, <2>2, <2>3, UnitIs
<1>8. Units(amount) \cap N = {}
  <2> SUFFICES ASSUME NEW u \in Units(amount), u \in N PROVE FALSE
    OBVIOUS
  <2>1. PICK g \in Reservers : \E i \in 1..amount[g] : u = <<g, i>>
    BY UnitIs
  <2>2. PICK i \in 1..amount[g] : u = <<g, i>>
    BY <2>1
  <2>3. PICK j \in 1..s : u = <<h, j>>
    BY <1>6
  <2>4. g = h
    BY <2>2, <2>3
  <2>5. 1..0 = {}
    OBVIOUS
  <2> QED BY <2>2, <2>4, <2>5
<1>9. Units(more) = Units(amount) \cup N
  BY <1>7
<1>10. Cardinality(Units(more)) = Cardinality(Units(amount)) + Cardinality(N) - Cardinality(Units(amount) \cap N)
  BY <1>5, <1>9, UnitsFinite, FS_Union
<1>11. Cardinality(Units(amount) \cap N) = 0 /\ Cardinality(Units(amount)) \in Nat
  BY <1>8, UnitsFinite, FS_EmptySet
<1>12. Cardinality(Units(more)) = Cardinality(Units(amount)) + s
  BY <1>3, <1>5, <1>10, <1>11
<1> QED BY <1>1, <1>2, <1>12

\* The most that one reservation can be, and the most that the counter can come to.
Most(q) == Min({q, Max(Sizes)})
Limit(q) == q + (Cardinality(Reservers) - 1) * Most(q)

\* One reservation is no larger than the quota and the largest size.
LEMMA MostIs ==
    ASSUME NEW q \in Nat
    PROVE /\ Most(q) \in Nat /\ Most(q) <= q /\ \A s \in Sizes : s <= q => s <= Most(q)
          /\ q <= Limit(q) /\ Limit(q) \in Nat
<1>1. PICK m : m = Max(Sizes)
  OBVIOUS
<1>2. m \in Nat /\ \A s \in Sizes : s \in Nat /\ s <= m
  <2>1. PICK b \in Nat : b = Word - 1
    BY ProvisionAssumption
  <2>2. \A s \in Sizes : s \in 1..b
    BY <2>1, ProvisionAssumption
  <2>3. m \in Sizes /\ \A s \in Sizes : m >= s
    BY <1>1, <2>1, <2>2, ProvisionAssumption, GreatestOf
  <2> QED BY <2>1, <2>2, <2>3
<1>3. PICK n : n = Most(q)
  OBVIOUS
<1>4. n \in {q, m} /\ n <= q /\ n <= m
  <2>1. \E x \in {q, m} : \A y \in {q, m} : x <= y
    BY <1>2
  <2>2. n = CHOOSE x \in {q, m} : \A y \in {q, m} : x <= y
    BY <1>1, <1>3 DEF Most, Min
  <2> QED BY <2>1, <2>2
<1>5. n \in Nat /\ \A s \in Sizes : s <= q => s <= n
  BY <1>2, <1>4
<1>6. q <= Limit(q) /\ Limit(q) \in Nat
  <2>1. PICK c : c = Cardinality(Reservers) - 1
    OBVIOUS
  <2>2. c \in Nat
    <3>1. Cardinality(Reservers) \in Nat /\ Cardinality(Reservers) # 0
      BY ProvisionAssumption, FS_CardinalityType, FS_EmptySet
    <3> QED BY <2>1, <3>1
  <2>3. c * n \in Nat
    BY <1>5, <2>2
  <2>4. Limit(q) = q + c * n
    BY <1>3, <2>1 DEF Limit
  <2> QED BY <2>3, <2>4
<1> QED BY <1>3, <1>4, <1>5, <1>6

\* What a holder has reserved or is about to add.
Claims == [h \in Reservers |-> IF held[h] = 0 THEN reserving[h] ELSE held[h]]

\* A holder adds what it reserved before it reserves again.
TrackerShape ==
    /\ trackerQuota \in TrackerQuotas
    /\ reserving \in Amounts /\ held \in Amounts /\ stock \in 0..(Word - 1)
    /\ \A h \in Reservers : held[h] = 0 \/ reserving[h] = 0

\* The counter is the stock and what is held, as far as a word can tell.
CounterCounts == used = (stock + Cardinality(Units(held))) % Word

\* A passed check claims room, and while claims fit a word they stay below the limit;
\* a stock above the quota has let no check pass.
ClaimsFit ==
    \A q \in trackerQuota :
        /\ \A h \in Reservers : reserving[h] <= Most(q)
        /\ stock > q => \A h \in Reservers : Claims[h] = 0
        /\ stock <= q /\ Limit(q) < Word - 1 => stock + Cardinality(Units(Claims)) <= Limit(q)

TrackerInv == TrackerShape /\ CounterCounts /\ ClaimsFit

\* What a holder has is part of what it claims.
LEMMA TrackerFacts ==
    ASSUME TrackerInv
    PROVE /\ Claims \in Amounts /\ Word \in Nat \ {0}
          /\ \A q \in trackerQuota : q \in Nat /\ q <= Word - 1
          /\ Units(held) \subseteq Units(Claims)
          /\ Cardinality(Units(held)) \in Nat /\ Cardinality(Units(Claims)) \in Nat
          /\ Cardinality(Units(held)) <= Cardinality(Units(Claims))
<1>1. Word \in Nat \ {0} /\ \A q \in trackerQuota : q \in Nat /\ q <= Word - 1
  <2>1. \A q \in trackerQuota : q \in 0..(Word - 1)
    BY ProvisionAssumption DEF TrackerInv, TrackerShape
  <2> QED BY <2>1, ProvisionAssumption
<1>2. Claims \in Amounts
  BY DEF Claims, Amounts, TrackerInv, TrackerShape
<1>3. ASSUME NEW u \in Units(held) PROVE u \in Units(Claims)
  <2>1. PICK h \in Reservers : \E i \in 1..held[h] : u = <<h, i>>
    BY UnitIs
  <2>2. held[h] # 0
    <3>1. 1..0 = {}
      OBVIOUS
    <3> QED BY <2>1, <3>1
  <2>3. Claims[h] = held[h]
    BY <2>2 DEF Claims
  <2> QED BY <2>1, <2>3, UnitIs
<1>4. IsFiniteSet(Units(Claims)) /\ Cardinality(Units(Claims)) \in Nat
  BY <1>2, UnitsFinite
<1>5. held \in Amounts
  BY DEF TrackerInv, TrackerShape
<1>6. Cardinality(Units(held)) \in Nat
  BY <1>5, UnitsFinite
<1>7. Cardinality(Units(held)) <= Cardinality(Units(Claims))
  <2>1. Units(held) \in SUBSET Units(Claims)
    BY <1>3
  <2> QED BY <1>4, <2>1, FS_Subset
<1> QED BY <1>1, <1>2, <1>3, <1>4, <1>6, <1>7

\* Who have nothing have no units.
LEMMA NoUnits ==
    ASSUME NEW amount, \A h \in Reservers : amount[h] = 0 PROVE Cardinality(Units(amount)) = 0
<1>1. 1..0 = {}
  OBVIOUS
<1>2. \A u : u \notin Units(amount)
  BY <1>1, UnitIs
<1>3. Units(amount) = {}
  BY <1>2
<1> QED BY <1>3, FS_EmptySet

\* A stock above the quota is all that the counter shows.
LEMMA StockIsUsed ==
    ASSUME TrackerInv, NEW q \in trackerQuota, stock > q PROVE used = stock
<1>1. /\ stock \in 0..(Word - 1) /\ Word \in Nat \ {0}
      /\ held \in Amounts /\ reserving \in Amounts
  BY ProvisionAssumption DEF TrackerInv, TrackerShape
<1>2. \A h \in Reservers : Claims[h] = 0
  BY DEF TrackerInv, ClaimsFit
<1>3. \A h \in Reservers : held[h] = 0
  BY <1>2 DEF Claims
<1>4. Cardinality(Units(held)) = 0
  BY <1>3, NoUnits
<1>5. used = (stock + 0) % Word
  BY <1>4 DEF TrackerInv, CounterCounts
<1> QED BY <1>1, <1>5

LEMMA TrackerInitial == TrackerInit => TrackerInv
<1> SUFFICES ASSUME TrackerInit PROVE TrackerInv
  OBVIOUS
<1>1. /\ reserving = [h \in Reservers |-> 0] /\ held = [h \in Reservers |-> 0] /\ used = stock
      /\ trackerQuota \in TrackerQuotas /\ Word \in Nat \ {0} /\ stock \in 0..(Word - 1)
  BY ProvisionAssumption DEF TrackerInit
<1>2. TrackerShape
  BY <1>1 DEF TrackerShape, Amounts
<1>3. Claims = held
  BY <1>1 DEF Claims
<1>4. \A h \in Reservers : held[h] = 0
  BY <1>1
<1>5. Cardinality(Units(held)) = 0
  BY <1>4, NoUnits
<1>6. CounterCounts
  <2>1. (stock + 0) % Word = stock
    BY <1>1
  <2> QED BY <1>1, <1>5, <2>1 DEF CounterCounts
<1>7. ASSUME NEW q \in trackerQuota
      PROVE /\ \A h \in Reservers : reserving[h] <= Most(q)
            /\ stock > q => \A h \in Reservers : Claims[h] = 0
            /\ stock <= q /\ Limit(q) < Word - 1 => stock + Cardinality(Units(Claims)) <= Limit(q)
  <2>1. q \in Nat
    <3>1. q \in 0..(Word - 1)
      BY <1>1, ProvisionAssumption
    <3> QED BY <1>1, <3>1
  <2>2. Most(q) \in Nat /\ q <= Limit(q) /\ Limit(q) \in Nat
    BY <2>1, MostIs
  <2> QED BY <1>1, <1>3, <1>4, <1>5, <2>1, <2>2
<1> QED BY <1>2, <1>6, <1>7 DEF TrackerInv, ClaimsFit

\* A check that passes adds its claim to what is held and to what the others claim.
LEMMA ChecksClaim ==
    ASSUME TrackerInv, NEW h \in Reservers, NEW size \in Sizes, ReserveCheck(h, size), Fits(size)
    PROVE TrackerInv'
<1>1. /\ reserving[h] = 0 /\ held[h] = 0 /\ reserving' = [reserving EXCEPT ![h] = size]
      /\ held' = held /\ used' = used /\ trackerQuota' = trackerQuota /\ stock' = stock
  BY DEF ReserveCheck
<1>2. size \in Nat /\ size \in 0..(Word - 1) /\ Word \in Nat \ {0}
  <2>1. size \in 1..(Word - 1) /\ Word \in Nat \ {0}
    BY ProvisionAssumption
  <2> QED BY <2>1
<1>3. Claims \in Amounts /\ Claims[h] = 0 /\ reserving \in Amounts /\ held \in Amounts
  BY <1>1, TrackerFacts DEF Claims, TrackerInv, TrackerShape
<1>4. reserving' \in Amounts
  BY <1>1, <1>2, <1>3 DEF Amounts
<1>5. Claims' = [Claims EXCEPT ![h] = size]
  BY <1>1, <1>3 DEF Claims, Amounts
<1>6. TrackerShape'
  BY <1>1, <1>3, <1>4 DEF TrackerInv, TrackerShape, Amounts
<1>7. CounterCounts'
  BY <1>1 DEF TrackerInv, CounterCounts
<1>8. ASSUME NEW q \in trackerQuota
      PROVE /\ \A g \in Reservers : reserving'[g] <= Most(q)
            /\ stock <= q
            /\ Limit(q) < Word - 1 => stock + Cardinality(Units(Claims')) <= Limit(q)
  <2>1. q \in Nat /\ q <= Word - 1 /\ stock \in Nat /\ stock <= Word - 1
    <3>1. stock \in 0..(Word - 1)
      BY DEF TrackerInv, TrackerShape
    <3> QED BY <1>2, <3>1, TrackerFacts
  <2>2. /\ used \in Nat /\ used = (stock + Cardinality(Units(held))) % Word
        /\ Cardinality(Units(held)) \in Nat
    <3>1. Cardinality(Units(held)) \in Nat
      BY TrackerFacts
    <3>2. (stock + Cardinality(Units(held))) % Word \in 0..(Word - 1)
      <4>1. PICK n \in Int : n = stock + Cardinality(Units(held))
        BY <2>1, <3>1
      <4>2. n % Word \in 0..(Word - 1)
        BY <1>2, Remainders
      <4> QED BY <4>1, <4>2
    <3> QED BY <1>2, <3>1, <3>2 DEF TrackerInv, CounterCounts
  <2>3. SaturatingAdd(used, size) <= q
    BY DEF Fits
  <2>4. used + size <= q \/ q = Word - 1
    <3>1. PICK a, b : a = used + size /\ b = Word - 1
      OBVIOUS
    <3>2. a \in Nat /\ b \in Nat
      BY <1>2, <2>2, <3>1
    <3>3. \E x \in {a, b} : \A y \in {a, b} : x <= y
      BY <3>2
    <3>4. Min({a, b}) \in {a, b}
      BY <3>3 DEF Min
    <3>5. Min({a, b}) <= q
      BY <2>3, <3>1 DEF SaturatingAdd
    <3> QED BY <1>2, <2>1, <3>1, <3>2, <3>4, <3>5
  <2>5. size <= q
    BY <1>2, <2>1, <2>2, <2>4
  <2>6. Most(q) \in Nat /\ size <= Most(q) /\ \A g \in Reservers : reserving[g] <= Most(q)
    BY <2>1, <2>5, MostIs DEF TrackerInv, ClaimsFit
  <2>7. \A g \in Reservers : reserving'[g] <= Most(q)
    BY <1>1, <1>3, <2>6 DEF Amounts
  <2>9. stock <= q
    <3>1. ASSUME stock > q PROVE FALSE
      <4>1. used = stock
        BY <3>1, StockIsUsed
      <4> QED BY <1>2, <2>1, <2>4, <3>1, <4>1
    <3> QED BY <2>1, <3>1
  <2>8. ASSUME Limit(q) < Word - 1 PROVE stock + Cardinality(Units(Claims')) <= Limit(q)
    <3>1. q <= Limit(q) /\ Limit(q) \in Nat
      BY <2>1, MostIs
    <3>2. stock + Cardinality(Units(Claims)) <= Limit(q)
      BY <2>8, <2>9 DEF TrackerInv, ClaimsFit
    <3>3. stock + Cardinality(Units(held)) < Word
      BY <1>2, <2>1, <2>8, <3>1, <3>2, TrackerFacts
    <3>4. used = stock + Cardinality(Units(held))
      BY <1>2, <2>1, <2>2, <3>3
    <3>5. stock + Cardinality(Units(held)) + size <= q
      BY <1>2, <2>1, <2>4, <2>8, <3>1, <3>4
    <3>6. PICK more : more = [held EXCEPT ![h] = size]
      OBVIOUS
    <3>7. Cardinality(Units(more)) = Cardinality(Units(held)) + size /\ more \in Amounts
      BY <1>1, <1>2, <1>3, <3>6, UnitsGained
    <3>8. PICK m \in Nat : m = Most(q)
      BY <2>6
    <3>9. PICK O : O = (Reservers \ {h}) \X (1..m)
      OBVIOUS
    <3>10. IsFiniteSet(O) /\ Cardinality(O) = (Cardinality(Reservers) - 1) * m
      <4>1. IsFiniteSet(Reservers \ {h}) /\ Cardinality(Reservers \ {h}) = Cardinality(Reservers) - 1
        BY ProvisionAssumption, FS_RemoveElement
      <4>2. IsFiniteSet(1..m) /\ Cardinality(1..m) = m
        BY FS_Interval
      <4> QED BY <3>9, <4>1, <4>2, FS_Product
    <3>11. Units(Claims') \subseteq Units(more) \cup O
      <4> SUFFICES ASSUME NEW u \in Units(Claims') PROVE u \in Units(more) \cup O
        OBVIOUS
      <4>1. PICK g \in Reservers : \E i \in 1..Claims'[g] : u = <<g, i>>
        BY UnitIs
      <4>2. PICK i \in 1..Claims'[g] : u = <<g, i>>
        BY <4>1
      <4>3. CASE g = h
        <5>1. Claims'[g] = more[g]
          BY <1>3, <1>5, <3>6, <4>3 DEF Amounts
        <5> QED BY <4>2, <5>1, UnitIs
      <4>4. CASE g # h /\ held[g] # 0
        <5>1. Claims'[g] = more[g]
          BY <1>3, <1>5, <3>6, <4>4 DEF Amounts, Claims
        <5> QED BY <4>2, <5>1, UnitIs
      <4>5. CASE g # h /\ held[g] = 0
        <5>1. Claims'[g] = reserving[g]
          BY <1>3, <1>5, <4>5 DEF Amounts, Claims
        <5>2. reserving[g] <= m /\ reserving[g] \in Nat
          BY <1>2, <1>3, <2>6, <3>8 DEF Amounts
        <5>3. i \in 1..m
          BY <4>2, <5>1, <5>2
        <5> QED BY <3>9, <4>2, <4>5, <5>3
      <4> QED BY <4>3, <4>4, <4>5
    <3>12. /\ IsFiniteSet(Units(more) \cup O)
           /\ Cardinality(Units(more) \cup O)
                  = Cardinality(Units(more)) + Cardinality(O) - Cardinality(Units(more) \cap O)
      BY <3>7, <3>10, UnitsFinite, FS_Union
    <3>13. Cardinality(Units(more) \cap O) \in Nat
      BY <3>10, FS_Intersection, FS_CardinalityType
    <3>14. Cardinality(Units(Claims')) <= Cardinality(Units(more) \cup O)
      BY <3>11, <3>12, FS_Subset
    <3>15. Limit(q) = q + (Cardinality(Reservers) - 1) * m
      BY <3>8 DEF Limit
    <3>16. PICK c : c = (Cardinality(Reservers) - 1) * m
      OBVIOUS
    <3>17. c \in Nat
      BY <3>10, <3>16, FS_CardinalityType
    <3>18. Cardinality(Units(Claims')) \in Nat
      <4>1. [Claims EXCEPT ![h] = size] \in Amounts
        BY <1>2, <1>3 DEF Amounts
      <4> QED BY <1>5, <4>1, UnitsFinite
    <3>19. Cardinality(Units(more) \cup O) \in Nat
      BY <3>12, FS_CardinalityType
    <3> QED BY <1>2, <2>1, <2>2, <3>5, <3>7, <3>10, <3>12, <3>13, <3>14, <3>15, <3>16, <3>17, <3>18, <3>19
  <2> QED BY <2>7, <2>8, <2>9
<1>9. ClaimsFit'
  <2> SUFFICES ASSUME NEW q \in trackerQuota
      PROVE /\ \A g \in Reservers : reserving'[g] <= Most(q)
            /\ stock > q => \A g \in Reservers : Claims'[g] = 0
            /\ stock <= q /\ Limit(q) < Word - 1 => stock + Cardinality(Units(Claims')) <= Limit(q)
    BY <1>1 DEF ClaimsFit, Most, Limit
  <2>1. q \in Int /\ stock \in Int
    <3>1. stock \in 0..(Word - 1)
      BY DEF TrackerInv, TrackerShape
    <3> QED BY <1>2, <3>1, TrackerFacts
  <2> QED BY <1>8, <2>1
<1> QED BY <1>6, <1>7, <1>9 DEF TrackerInv

\* Who gives back what it had takes as many units away.
LEMMA UnitsLost ==
    ASSUME NEW amount \in Amounts, NEW h \in Reservers, NEW less, less = [amount EXCEPT ![h] = 0]
    PROVE /\ less \in Amounts /\ less[h] = 0 /\ Cardinality(Units(less)) \in Nat
          /\ Cardinality(Units(amount)) = Cardinality(Units(less)) + amount[h]
<1>1. PICK b \in Nat : b = Word - 1 /\ Amounts = [Reservers -> 0..b]
  BY ProvisionAssumption DEF Amounts
<1>2. less \in Amounts /\ less[h] = 0 /\ \A g \in Reservers : g # h => less[g] = amount[g]
  BY <1>1
<1>3. PICK s \in 0..b : s = amount[h]
  BY <1>1
<1>4. PICK back : back = [less EXCEPT ![h] = s]
  OBVIOUS
<1>5. back \in [Reservers -> 0..b] /\ \A g \in Reservers : back[g] = amount[g]
  BY <1>1, <1>2, <1>3, <1>4
<1>6. back = amount
  <2>1. amount \in [Reservers -> 0..b]
    BY <1>1
  <2>2. amount = [g \in Reservers |-> amount[g]] /\ back = [g \in Reservers |-> back[g]]
    BY <1>5, <2>1
  <2> QED BY <1>5, <2>2
<1>7. Cardinality(Units(back)) = Cardinality(Units(less)) + s
  <2>1. s \in 0..(Word - 1)
    BY <1>1, <1>3
  <2> QED BY <1>2, <1>4, <2>1, UnitsGained
<1> QED BY <1>2, <1>3, <1>6, <1>7, UnitsFinite

\* Adding turns a claim into a holding, giving back ends it.
LEMMA AddsAndReleases ==
    ASSUME TrackerInv, NEW h \in Reservers, ReserveAdd(h) \/ Release(h)
    PROVE TrackerInv'
<1>1. Word \in Nat \ {0} /\ reserving \in Amounts /\ held \in Amounts
  BY ProvisionAssumption DEF TrackerInv, TrackerShape
<1>2. trackerQuota' = trackerQuota /\ stock' = stock
  BY DEF ReserveAdd, Release
<1>3. PICK c \in Nat : c = Cardinality(Units(held))
  BY TrackerFacts
<1>7. stock \in Nat
  <2>1. stock \in 0..(Word - 1)
    BY DEF TrackerInv, TrackerShape
  <2> QED BY <1>1, <2>1
<1>8. PICK n \in Nat : n = stock + c
  BY <1>7
<1>4. used = n % Word
  BY <1>3, <1>8 DEF TrackerInv, CounterCounts
<1>5. CASE ReserveAdd(h)
  <2>1. PICK s \in 0..(Word - 1) : s = reserving[h]
    BY <1>1 DEF Amounts
  <2>2. /\ s # 0 /\ used' = (used + s) % Word /\ held' = [held EXCEPT ![h] = s]
        /\ reserving' = [reserving EXCEPT ![h] = 0]
    BY <1>5, <2>1 DEF ReserveAdd
  <2>3. held[h] = 0
    BY <2>1, <2>2 DEF TrackerInv, TrackerShape
  <2>4. held' \in Amounts /\ Cardinality(Units(held')) = c + s
    BY <1>1, <1>3, <2>2, <2>3, UnitsGained
  <2>5. CounterCounts'
    <3>1. n \in Int /\ s \in Int
      OBVIOUS
    <3>2. ((n % Word) + s) % Word = (n + s) % Word
      BY <1>1, <3>1, WrapsAlike
    <3>3. stock' + Cardinality(Units(held')) = n + s
      BY <1>2, <1>7, <1>8, <2>4
    <3> QED BY <1>4, <2>2, <3>2, <3>3 DEF CounterCounts
  <2>6. reserving' \in Amounts /\ TrackerShape'
    BY <1>1, <1>2, <2>2, <2>4 DEF TrackerInv, TrackerShape, Amounts
  <2>7. Claims' = Claims
    BY <1>1, <2>1, <2>2, <2>3 DEF Claims, Amounts
  <2>8. ASSUME NEW q \in trackerQuota, NEW g \in Reservers PROVE reserving'[g] <= Most(q)
    <3>1. Most(q) \in Nat
      BY TrackerFacts, MostIs
    <3>2. reserving[g] <= Most(q)
      BY DEF TrackerInv, ClaimsFit
    <3> QED BY <1>1, <2>2, <3>1, <3>2 DEF Amounts
  <2>9. ClaimsFit'
    BY <1>2, <2>7, <2>8 DEF TrackerInv, ClaimsFit, Most, Limit
  <2> QED BY <2>5, <2>6, <2>9 DEF TrackerInv
<1>6. CASE Release(h)
  <2>1. PICK s \in 0..(Word - 1) : s = held[h]
    BY <1>1 DEF Amounts
  <2>2. s # 0 /\ used' = (used - s) % Word /\ held' = [held EXCEPT ![h] = 0] /\ reserving' = reserving
    BY <1>6, <2>1 DEF Release
  <2>3. reserving[h] = 0
    BY <2>1, <2>2 DEF TrackerInv, TrackerShape
  <2>4. held' \in Amounts /\ held'[h] = 0
    BY <1>1, <2>2, UnitsLost
  <2>5. c = Cardinality(Units(held')) + s /\ Cardinality(Units(held')) \in Nat
    BY <1>1, <1>3, <2>1, <2>2, UnitsLost
  <2>6. CounterCounts'
    <3>1. PICK m \in Int : m = -s /\ used' = ((n % Word) + m) % Word
      <4>1. -s \in Int /\ used \in Int
        BY <1>1, <1>4
      <4> QED BY <1>4, <2>2, <4>1
    <3>2. used' = (n + m) % Word
      <4>1. n \in Int
        OBVIOUS
      <4>2. ((n % Word) + m) % Word = (n + m) % Word
        BY <1>1, <4>1, WrapsAlike
      <4> QED BY <3>1, <4>2
    <3>3. n + m = stock' + Cardinality(Units(held'))
      BY <1>2, <1>7, <1>8, <2>5, <3>1
    <3> QED BY <3>2, <3>3 DEF CounterCounts
  <2>7. TrackerShape'
    BY <1>1, <1>2, <2>2, <2>4 DEF TrackerInv, TrackerShape, Amounts
  <2>8. Claims' = [Claims EXCEPT ![h] = 0] /\ Claims \in Amounts
    BY <1>1, <2>1, <2>2, <2>3, TrackerFacts DEF Claims, Amounts
  <2>9. Claims[h] = s /\ s \in Nat
    BY <1>1, <2>1, <2>2 DEF Claims
  <2>10. /\ Cardinality(Units(Claims)) = Cardinality(Units(Claims')) + s
         /\ Cardinality(Units(Claims')) \in Nat
    BY <2>8, <2>9, UnitsLost
  <2>11. ASSUME NEW q \in trackerQuota, stock <= q, Limit(q) < Word - 1
         PROVE stock + Cardinality(Units(Claims')) <= Limit(q)
    <3>1. stock + Cardinality(Units(Claims)) <= Limit(q) /\ Limit(q) \in Nat
      BY <2>11, MostIs, TrackerFacts DEF TrackerInv, ClaimsFit
    <3> QED BY <1>7, <2>9, <2>10, <3>1
  <2>13. ASSUME NEW q \in trackerQuota, stock > q, NEW g \in Reservers PROVE Claims'[g] = 0
    <3>1. Claims[g] = 0
      BY <2>13 DEF TrackerInv, ClaimsFit
    <3> QED BY <2>8, <3>1 DEF Amounts
  <2>12. ClaimsFit'
    BY <1>2, <2>2, <2>11, <2>13 DEF TrackerInv, ClaimsFit, Most, Limit
  <2> QED BY <2>6, <2>7, <2>12 DEF TrackerInv
<1> QED BY <1>5, <1>6

\* Giving back bytes that were there from the start lowers the stock alone.
LEMMA StockReleases ==
    ASSUME TrackerInv, NEW size \in Sizes, ReleaseStock(size) PROVE TrackerInv'
<1>1. /\ Word \in Nat \ {0} /\ stock \in 0..(Word - 1) /\ size \in 1..(Word - 1)
  BY ProvisionAssumption DEF TrackerInv, TrackerShape
<1>2. /\ size <= stock /\ used' = (used - size) % Word /\ stock' = stock - size
      /\ trackerQuota' = trackerQuota /\ reserving' = reserving /\ held' = held
  BY DEF ReleaseStock
<1>3. stock' \in 0..(Word - 1) /\ stock' \in Nat /\ stock' < stock /\ stock \in Nat /\ size \in Nat
  BY <1>1, <1>2
<1>4. Claims' = Claims
  BY <1>2 DEF Claims
<1>5. TrackerShape'
  BY <1>2, <1>3 DEF TrackerInv, TrackerShape
<1>6. CounterCounts'
  <2>1. PICK c \in Nat : c = Cardinality(Units(held))
    BY TrackerFacts
  <2>2. PICK n \in Int, m \in Int : n = stock + c /\ m = -size
    <3>1. stock + c \in Int /\ -size \in Int
      BY <1>3
    <3> QED BY <3>1
  <2>3. used = n % Word
    BY <2>1, <2>2 DEF TrackerInv, CounterCounts
  <2>4. used' = ((n % Word) + m) % Word
    <3>1. n % Word \in Int
      BY <1>1
    <3> QED BY <1>2, <1>3, <2>2, <2>3, <3>1
  <2>5. ((n % Word) + m) % Word = (n + m) % Word
    BY <1>1, WrapsAlike
  <2>6. n + m = stock' + c
    BY <1>2, <1>3, <2>2
  <2> QED BY <1>2, <2>1, <2>4, <2>5, <2>6 DEF CounterCounts
<1>7. ASSUME NEW q \in trackerQuota
      PROVE /\ \A h \in Reservers : reserving[h] <= Most(q)
            /\ stock' > q => \A h \in Reservers : Claims[h] = 0
            /\ stock' <= q /\ Limit(q) < Word - 1 => stock' + Cardinality(Units(Claims)) <= Limit(q)
  <2>1. q \in Nat /\ Cardinality(Units(Claims)) \in Nat
    BY TrackerFacts
  <2>2. q <= Limit(q) /\ Limit(q) \in Nat
    BY <2>1, MostIs
  <2>3. \A h \in Reservers : reserving[h] <= Most(q)
    BY DEF TrackerInv, ClaimsFit
  <2>4. CASE stock > q
    <3>1. \A h \in Reservers : Claims[h] = 0
      BY <2>4 DEF TrackerInv, ClaimsFit
    <3>2. Cardinality(Units(Claims)) = 0
      BY <3>1, NoUnits
    <3>3. stock' <= q => stock' + Cardinality(Units(Claims)) <= Limit(q)
      BY <1>3, <2>1, <2>2, <3>2
    <3> QED BY <2>3, <3>1, <3>3
  <2>5. CASE stock <= q
    <3>1. Limit(q) < Word - 1 => stock + Cardinality(Units(Claims)) <= Limit(q)
      BY <2>5 DEF TrackerInv, ClaimsFit
    <3>2. Limit(q) < Word - 1 => stock' + Cardinality(Units(Claims)) <= Limit(q)
      BY <1>3, <2>1, <2>2, <3>1
    <3>3. ~(stock' > q)
      BY <1>3, <2>1, <2>5
    <3> QED BY <2>3, <3>2, <3>3
  <2> QED BY <1>3, <2>1, <2>4, <2>5
<1>8. ClaimsFit'
  BY <1>2, <1>4, <1>7 DEF ClaimsFit, Most, Limit
<1> QED BY <1>5, <1>6, <1>8 DEF TrackerInv

LEMMA TrackerSteps == TrackerInv /\ [TrackerNext]_trackerVars => TrackerInv'
<1> SUFFICES ASSUME TrackerInv, [TrackerNext]_trackerVars PROVE TrackerInv'
  OBVIOUS
<1>1. ASSUME UNCHANGED <<trackerQuota, used, stock, held>>, reserving' = reserving PROVE TrackerInv'
  <2>1. Claims' = Claims
    BY <1>1 DEF Claims
  <2> QED BY <1>1, <2>1 DEF TrackerInv, TrackerShape, CounterCounts, ClaimsFit, Most, Limit
<1>2. CASE UNCHANGED trackerVars
  BY <1>1, <1>2 DEF trackerVars
<1>3. ASSUME NEW h \in Reservers, NEW s \in Sizes, ReserveCheck(h, s) PROVE TrackerInv'
  <2>1. CASE Fits(s)
    BY <1>3, <2>1, ChecksClaim
  <2>2. CASE ~Fits(s)
    <3>1. reserving \in Amounts /\ reserving[h] = 0 /\ reserving' = [reserving EXCEPT ![h] = 0]
      BY <1>3, <2>2 DEF ReserveCheck, TrackerInv, TrackerShape
    <3>2. reserving' = reserving
      BY <3>1 DEF Amounts
    <3> QED BY <1>1, <1>3, <3>2 DEF ReserveCheck
  <2> QED BY <2>1, <2>2
<1>4. ASSUME NEW h \in Reservers, ReserveAdd(h) \/ Release(h) PROVE TrackerInv'
  BY <1>4, AddsAndReleases
<1>5. ASSUME NEW s \in Sizes, ReleaseStock(s) PROVE TrackerInv'
  BY <1>5, StockReleases
<1> QED BY <1>2, <1>3, <1>4, <1>5 DEF TrackerNext

\* The invariant bounds the counter, also where it could wrap.
LEMMA TrackerBounds == TrackerInv => TrackerOvershoot
<1> SUFFICES ASSUME TrackerInv PROVE TrackerOvershoot
  OBVIOUS
<1>1. used = (stock + Cardinality(Units(held))) % Word
  BY DEF TrackerInv, CounterCounts
<1>3. ASSUME NEW q \in trackerQuota, stock > q PROVE used = stock
  BY <1>3, StockIsUsed
<1>2. ASSUME NEW q \in trackerQuota, ~(stock > q)
      PROVE used <= q + (Cardinality(Reservers) - 1) * Min({q, Max(Sizes)})
  <2>6. stock \in 0..(Word - 1) /\ Word \in Nat \ {0}
    BY ProvisionAssumption DEF TrackerInv, TrackerShape
  <2>1. /\ q \in Nat /\ Word \in Nat \ {0} /\ Cardinality(Units(held)) \in Nat
        /\ stock \in Nat /\ stock <= q
    BY <1>2, <2>6, TrackerFacts
  <2>2. used \in 0..(Word - 1)
    <3>1. PICK n \in Int : n = stock + Cardinality(Units(held))
      BY <2>1
    <3>2. n % Word \in 0..(Word - 1)
      BY <2>1, Remainders
    <3> QED BY <1>1, <3>1, <3>2
  <2>3. Limit(q) \in Int
    <3>1. Cardinality(Reservers) \in Nat /\ Most(q) \in Nat
      BY <2>1, ProvisionAssumption, FS_CardinalityType, MostIs
    <3>2. (Cardinality(Reservers) - 1) * Most(q) \in Int
      BY <3>1
    <3> QED BY <2>1, <3>2 DEF Limit
  <2>4. CASE Limit(q) < Word - 1
    <3>1. stock + Cardinality(Units(Claims)) <= Limit(q)
      BY <2>1, <2>4 DEF TrackerInv, ClaimsFit
    <3>2. stock + Cardinality(Units(held)) <= Limit(q)
      BY <2>1, <2>3, <3>1, TrackerFacts
    <3>3. stock + Cardinality(Units(held)) < Word
      BY <2>1, <2>3, <2>4, <3>2
    <3>4. used = stock + Cardinality(Units(held))
      BY <1>1, <2>1, <3>3
    <3> QED BY <3>2, <3>4 DEF Limit, Most
  <2>5. CASE ~(Limit(q) < Word - 1)
    BY <2>1, <2>2, <2>3, <2>5 DEF Limit, Most
  <2> QED BY <2>4, <2>5
<1> QED BY <1>1, <1>2, <1>3 DEF TrackerOvershoot

-----------------------------------------------------------------------------
(* Seeding a pod.                                                          *)

\* The documents of a plan, one by one.
LEMMA DocumentsAre ==
    ASSUME NEW plan
    PROVE /\ plan.acl => Documents(plan) = <<Doc("/profile/card"), RootAcl,
                 Doc("/settings/publicTypeIndex.jsonld"), Doc("/settings/privateTypeIndex.jsonld"),
                 Doc("/settings/publicTypeIndex.jsonld.acl")>>
          /\ ~plan.acl => Documents(plan) = <<Doc("/profile/card"),
                 Doc("/settings/publicTypeIndex.jsonld"), Doc("/settings/privateTypeIndex.jsonld"),
                 Doc("/settings/publicTypeIndex.jsonld.acl")>>
<1>1. PICK a, b, c, d, e : /\ a = Doc("/profile/card") /\ b = RootAcl
                           /\ c = Doc("/settings/publicTypeIndex.jsonld")
                           /\ d = Doc("/settings/privateTypeIndex.jsonld")
                           /\ e = Doc("/settings/publicTypeIndex.jsonld.acl")
  OBVIOUS
<1>2. PICK S, w : S = {a, b, c, d, e} /\ w = <<c, d, e>>
  OBVIOUS
<1>3. <<a>> \in Seq(S) /\ <<b>> \in Seq(S) /\ <<>> \in Seq(S) /\ w \in Seq(S) /\ Len(w) = 3
  BY <1>2
<1>4. w[1] = c /\ w[2] = d /\ w[3] = e
  BY <1>2
<1>5. <<a>> \o <<b>> \o <<c, d, e>> = <<a, b, c, d, e>>
  <2>1. PICK u : u = <<a>> \o <<b>>
    OBVIOUS
  <2>2. u \in Seq(S) /\ Len(u) = 2 /\ u[1] = a /\ u[2] = b
    BY <1>3, <2>1, ConcatProperties
  <2>3. PICK v : v = u \o w
    OBVIOUS
  <2>4. /\ v \in Seq(S) /\ Len(v) = Len(u) + Len(w)
        /\ \A i \in 1..(Len(u) + Len(w)) : v[i] = IF i <= Len(u) THEN u[i] ELSE w[i - Len(u)]
    BY <1>3, <2>2, <2>3, ConcatProperties
  <2>5. 3 - 2 = 1 /\ 4 - 2 = 2 /\ 5 - 2 = 3 /\ 2 + 3 = 5
    OBVIOUS
  <2>6. /\ v \in Seq(S) /\ Len(v) = 5
        /\ v[1] = a /\ v[2] = b /\ v[3] = c /\ v[4] = d /\ v[5] = e
    BY <1>3, <1>4, <2>2, <2>4, <2>5
  <2>7. v = <<a, b, c, d, e>>
    BY <2>6
  <2> QED BY <1>2, <2>1, <2>3, <2>7
<1>6. <<a>> \o <<>> \o <<c, d, e>> = <<a, c, d, e>>
  <2>1. <<a>> \o <<>> = <<a>>
    BY <1>3, ConcatEmptySeq
  <2>2. PICK u : u = <<a>>
    OBVIOUS
  <2>3. PICK v : v = <<a>> \o w
    OBVIOUS
  <2>4. /\ v \in Seq(S) /\ Len(v) = Len(u) + Len(w)
        /\ \A i \in 1..(Len(u) + Len(w)) : v[i] = IF i <= Len(u) THEN u[i] ELSE w[i - Len(u)]
    BY <1>3, <2>2, <2>3, ConcatProperties
  <2>5. 2 - 1 = 1 /\ 3 - 1 = 2 /\ 4 - 1 = 3 /\ 1 + 3 = 4 /\ Len(u) = 1 /\ u[1] = a
    BY <2>2
  <2>6. v \in Seq(S) /\ Len(v) = 4 /\ v[1] = a /\ v[2] = c /\ v[3] = d /\ v[4] = e
    BY <1>3, <1>4, <2>4, <2>5
  <2>7. v = <<a, c, d, e>>
    BY <2>6
  <2> QED BY <1>2, <2>1, <2>3, <2>7
<1> QED BY <1>1, <1>5, <1>6 DEF Documents

\* They are documents, there are some, and the root ACL comes before the type indexes.
LEMMA DocumentFacts ==
    ASSUME NEW plan
    PROVE /\ Len(Documents(plan)) \in Nat \ {0} /\ DOMAIN Documents(plan) = 1..Len(Documents(plan))
          /\ \E S : Documents(plan) \in Seq(S)
          /\ \A i \in DOMAIN Documents(plan) : \E x : Documents(plan)[i] = Doc(x)
          /\ plan.acl => \A i \in DOMAIN Documents(plan) : Documents(plan)[i] \in TypeIndexes =>
                 \E j \in DOMAIN Documents(plan) : j < i /\ Documents(plan)[j] = RootAcl
<1>1. PICK a, b, c, d, e : /\ a = Doc("/profile/card") /\ b = RootAcl
                           /\ c = Doc("/settings/publicTypeIndex.jsonld")
                           /\ d = Doc("/settings/privateTypeIndex.jsonld")
                           /\ e = Doc("/settings/publicTypeIndex.jsonld.acl")
  OBVIOUS
<1>2. PICK S : S = {a, b, c, d, e}
  OBVIOUS
<1>3. PICK D : D = Documents(plan)
  OBVIOUS
<1>4. \A x \in S : \E y : x = Doc(y)
  BY <1>1, <1>2 DEF RootAcl
<1>5. CASE plan.acl
  <2>1. D = <<a, b, c, d, e>>
    BY <1>1, <1>3, <1>5, DocumentsAre
  <2>2. D \in Seq(S) /\ Len(D) = 5 /\ DOMAIN D = 1..5 /\ \A i \in 1..5 : D[i] \in S
    BY <1>2, <2>1
  <2>3. a \notin TypeIndexes /\ b \notin TypeIndexes
    BY <1>1 DEF TypeIndexes, RootAcl, Doc
  <2>4. D[1] = a /\ D[2] = b
    BY <2>1
  <2>5. \A i \in 1..5 : D[i] \in TypeIndexes => 2 < i
    BY <2>3, <2>4
  <2>6. \A i \in 1..5 : D[i] \in TypeIndexes => \E j \in 1..5 : j < i /\ D[j] = RootAcl
    BY <1>1, <2>4, <2>5
  <2> QED BY <1>3, <1>4, <2>2, <2>6
<1>6. CASE ~plan.acl
  <2>1. D = <<a, c, d, e>>
    BY <1>1, <1>3, <1>6, DocumentsAre
  <2>2. D \in Seq(S) /\ Len(D) = 4 /\ DOMAIN D = 1..4 /\ \A i \in 1..4 : D[i] \in S
    BY <1>2, <2>1
  <2> QED BY <1>3, <1>4, <1>6, <2>2
<1> QED BY <1>5, <1>6

\* A sidecar is no document.
LEMMA PathKinds ==
    /\ \A c : Meta(c).meta = TRUE /\ Meta(c).of = c
    /\ \A x : Doc(x).meta = FALSE
    /\ \A c, x : Meta(c) # Doc(x)
<1>1. \A c : Meta(c).meta = TRUE /\ Meta(c).of = c
  BY DEF Meta
<1>2. \A x : Doc(x).meta = FALSE
  BY DEF Doc
<1> QED BY <1>1, <1>2

\* What a plan puts has its place in the pod.
LEMMA PathsOfPlan ==
    ASSUME NEW plan \in Plans
    PROVE /\ \A i \in DOMAIN Documents(plan) : Documents(plan)[i] \in PodPaths
          /\ \A c \in DefaultContainers \cup plan.containers : Meta(c) \in PodPaths
BY DEF PodPaths

\* The type indexes are documents of every plan.
LEMMA IndexesAreDocuments ==
    ASSUME NEW plan \in Plans
    PROVE \A x \in TypeIndexes : x \in PodPaths
<1>1. PICK c, d : /\ c = Doc("/settings/publicTypeIndex.jsonld")
                  /\ d = Doc("/settings/privateTypeIndex.jsonld")
  OBVIOUS
<1>2. PICK D : D = Documents(plan)
  OBVIOUS
<1>3. \E i, j \in DOMAIN D : D[i] = c /\ D[j] = d
  <2>1. CASE plan.acl
    <3>1. DOMAIN D = 1..5 /\ D[3] = c /\ D[4] = d
      BY <1>1, <1>2, <2>1, DocumentsAre
    <3> QED BY <3>1
  <2>2. CASE ~plan.acl
    <3>1. DOMAIN D = 1..4 /\ D[2] = c /\ D[3] = d
      BY <1>1, <1>2, <2>2, DocumentsAre
    <3> QED BY <3>1
  <2> QED BY <2>1, <2>2
<1>4. c \in PodPaths /\ d \in PodPaths
  BY <1>2, <1>3, PathsOfPlan
<1> QED BY <1>1, <1>4 DEF TypeIndexes

\* A path of the pod is a sidecar or a document.
LEMMA PathsAre ==
    ASSUME NEW x \in PodPaths
    PROVE (\E c : x = Meta(c)) \/ (\E y : x = Doc(y))
<1>1. CASE \E c : x = Meta(c)
  BY <1>1
<1>2. CASE \E p \in Plans : \E i \in DOMAIN Documents(p) : x = Documents(p)[i]
  BY <1>2, DocumentFacts
<1> QED BY <1>1, <1>2 DEF PodPaths

\* A document that is there was put for a plan of some run, and nothing else is in its place.
PodHolds ==
    /\ DOMAIN pod = PodPaths /\ DOMAIN provisioning = Provisioners
    /\ \A x \in PodPaths : (\E y : x = Doc(y)) => pod[x] = None \/ \E p \in planned : pod[x] = Some(p)

\* A run has k - 1 documents of its plan behind it.
StandsAt(run, k) ==
    LET D == Documents(run.plan)
    IN  /\ k \in 1..Len(D) /\ run.todo = SubSeq(D, k, Len(D))
        /\ \A i \in 1..Len(D) : i < k => pod[D[i]] # None

\* What a run no longer has to do is done, whoever did it last.
RunStands(run) ==
    /\ DOMAIN run = {"plan", "todo", "containers"} /\ run.plan \in Plans /\ run.plan \in planned
    /\ \E k : StandsAt(run, k)
    /\ \A c \in DefaultContainers \cup run.plan.containers :
           c \notin run.containers => pod[Meta(c)] # None
RunsProgress == \A r \in Provisioners : \A run \in provisioning[r] : RunStands(run)

\* A run that returned Ok has put everything.
FinishedSeeds ==
    \A p \in finished :
        /\ p \in Plans
        /\ \A c \in DefaultContainers \cup p.containers : pod[Meta(c)] # None
        /\ \A i \in DOMAIN Documents(p) : pod[Documents(p)[i]] # None

\* No type index is there before the root ACL of its plan.
IndexesGuarded ==
    \A x \in TypeIndexes : \A p \in pod[x] : p.acl => pod[RootAcl] # None

ProvisionInv == PodHolds /\ RunsProgress /\ FinishedSeeds /\ IndexesGuarded

\* When all runs were for one plan, nothing but that plan can be in the place of a document.
LEMMA ProvisionSeeds == ProvisionInv => ProvisionResumes
<1> SUFFICES ASSUME ProvisionInv PROVE ProvisionResumes
  OBVIOUS
<1>1. ASSUME NEW plan \in Plans, planned = {plan}, plan \in finished
      PROVE /\ \A c \in DefaultContainers \cup plan.containers : pod[Meta(c)] # None
            /\ \A i \in DOMAIN Documents(plan) : pod[Documents(plan)[i]] = Some(plan)
  <2>1. /\ \A c \in DefaultContainers \cup plan.containers : pod[Meta(c)] # None
        /\ \A i \in DOMAIN Documents(plan) : pod[Documents(plan)[i]] # None
    BY <1>1 DEF ProvisionInv, FinishedSeeds
  <2>2. ASSUME NEW i \in DOMAIN Documents(plan) PROVE pod[Documents(plan)[i]] = Some(plan)
    <3>1. PICK x : x = Documents(plan)[i]
      OBVIOUS
    <3>2. x \in PodPaths /\ (\E y : x = Doc(y)) /\ pod[x] # None
      BY <1>1, <2>1, <3>1, PathsOfPlan, DocumentFacts
    <3>3. PICK p \in planned : pod[x] = Some(p)
      BY <3>2 DEF ProvisionInv, PodHolds
    <3> QED BY <1>1, <3>1, <3>3
  <2> QED BY <2>1, <2>2
<1> QED BY <1>1 DEF ProvisionResumes, ProvisionInv, IndexesGuarded

LEMMA ProvisionInitial == ProvisionInit => ProvisionInv
<1> SUFFICES ASSUME ProvisionInit PROVE ProvisionInv
  OBVIOUS
<1>1. /\ provisioning = [r \in Provisioners |-> None] /\ pod = [x \in PodPaths |-> None]
      /\ planned = {} /\ finished = {}
  BY DEF ProvisionInit
<1>2. PodHolds /\ RunsProgress /\ FinishedSeeds
  BY <1>1 DEF PodHolds, RunsProgress, FinishedSeeds, None
<1>3. \A x \in TypeIndexes : x \in PodPaths
  <2>1. PICK p \in Plans : TRUE
    BY ProvisionAssumption
  <2> QED BY <2>1, IndexesAreDocuments
<1>4. IndexesGuarded
  BY <1>1, <1>3 DEF IndexesGuarded, None
<1> QED BY <1>2, <1>4 DEF ProvisionInv

\* What is there stays there, and plans are only added.
PodGrows ==
    /\ DOMAIN pod' = PodPaths /\ \A x \in PodPaths : pod[x] # None => pod'[x] # None
    /\ planned \subseteq planned'

\* Then a run keeps its place.
LEMMA RunKeeps == ASSUME NEW run, RunStands(run), PodGrows PROVE RunStands(run)'
<1>1. PICK D : D = Documents(run.plan)
  OBVIOUS
<1>2. run.plan \in Plans /\ run.plan \in planned' /\ DOMAIN run = {"plan", "todo", "containers"}
  BY DEF RunStands, PodGrows
<1>3. /\ \A i \in DOMAIN D : D[i] \in PodPaths
      /\ \A c \in DefaultContainers \cup run.plan.containers : Meta(c) \in PodPaths
      /\ DOMAIN D = 1..Len(D)
  BY <1>1, <1>2, PathsOfPlan, DocumentFacts
<1>4. PICK k : StandsAt(run, k)
  BY DEF RunStands
<1>5. StandsAt(run, k)'
  BY <1>1, <1>3, <1>4 DEF StandsAt, PodGrows
<1>6. \A c \in DefaultContainers \cup run.plan.containers :
          c \notin run.containers => pod'[Meta(c)] # None
  BY <1>3 DEF RunStands, PodGrows
<1> QED BY <1>2, <1>5, <1>6 DEF RunStands

\* And what runs have finished stays finished.
LEMMA SeedKeeps == ASSUME FinishedSeeds, PodGrows, finished' = finished PROVE FinishedSeeds'
<1> SUFFICES ASSUME NEW p \in finished
             PROVE /\ p \in Plans
                   /\ \A c \in DefaultContainers \cup p.containers : pod'[Meta(c)] # None
                   /\ \A i \in DOMAIN Documents(p) : pod'[Documents(p)[i]] # None
  BY DEF FinishedSeeds
<1>1. /\ p \in Plans
      /\ \A c \in DefaultContainers \cup p.containers : pod[Meta(c)] # None
      /\ \A i \in DOMAIN Documents(p) : pod[Documents(p)[i]] # None
  BY DEF FinishedSeeds
<1> QED BY <1>1, PathsOfPlan DEF PodGrows

\* Writing a sidecar, for the first time or again, takes nothing away.
LEMMA ContainerKeeps ==
    ASSUME ProvisionInv, NEW r \in Provisioners, NEW c, Meta(c) \in PodPaths, PutContainer(r, c)
    PROVE ProvisionInv'
<1>1. PICK run \in provisioning[r] :
          /\ c \in run.containers
          /\ provisioning' = [provisioning EXCEPT ![r] = Some([run EXCEPT !.containers = @ \ {c}])]
          /\ pod' = [pod EXCEPT ![Meta(c)] = Some([body |-> "{}"])]
  BY DEF PutContainer
<1>2. planned' = planned /\ finished' = finished
  BY DEF PutContainer
<1>3. PICK b : b = Some([body |-> "{}"])
  OBVIOUS
<1>4. b # None /\ pod' = [pod EXCEPT ![Meta(c)] = b]
  BY <1>1, <1>3 DEF Some, None
<1>5. /\ DOMAIN pod' = PodPaths /\ pod'[Meta(c)] = b
      /\ \A x \in PodPaths : x # Meta(c) => pod'[x] = pod[x]
  BY <1>4 DEF ProvisionInv, PodHolds
<1>6. PodGrows
  BY <1>2, <1>4, <1>5 DEF PodGrows
<1>7. PodHolds'
  <2>1. DOMAIN provisioning' = Provisioners
    BY <1>1 DEF ProvisionInv, PodHolds
  <2>2. ASSUME NEW x \in PodPaths, \E y : x = Doc(y)
        PROVE pod'[x] = None \/ \E p \in planned' : pod'[x] = Some(p)
    <3>1. x # Meta(c)
      BY <2>2, PathKinds
    <3> QED BY <1>2, <1>5, <2>2, <3>1 DEF ProvisionInv, PodHolds
  <2> QED BY <1>5, <2>1, <2>2 DEF PodHolds
<1>8. RunsProgress'
  <2> SUFFICES ASSUME NEW q \in Provisioners, NEW other \in provisioning'[q] PROVE RunStands(other)'
    BY DEF RunsProgress
  <2>1. CASE q # r
    <3>1. other \in provisioning[q]
      BY <1>1, <2>1 DEF ProvisionInv, PodHolds
    <3> QED BY <1>6, <3>1, RunKeeps DEF ProvisionInv, RunsProgress
  <2>2. CASE q = r
    <3>1. other = [run EXCEPT !.containers = @ \ {c}]
      BY <1>1, <2>2 DEF ProvisionInv, PodHolds, Some
    <3>2. RunStands(run) /\ RunStands(run)'
      BY <1>6, RunKeeps DEF ProvisionInv, RunsProgress
    <3>3. /\ other.plan = run.plan /\ other.todo = run.todo /\ DOMAIN other = DOMAIN run
          /\ other.containers = run.containers \ {c}
      BY <3>1, <3>2 DEF RunStands
    <3>4. PICK k : StandsAt(run, k)'
      BY <3>2 DEF RunStands
    <3>5. StandsAt(other, k)'
      BY <3>3, <3>4 DEF StandsAt
    <3>6. \A d \in DefaultContainers \cup other.plan.containers :
              d \notin other.containers => pod'[Meta(d)] # None
      <4> SUFFICES ASSUME NEW d \in DefaultContainers \cup run.plan.containers,
                          d \notin run.containers \/ d = c
                   PROVE pod'[Meta(d)] # None
        BY <3>3
      <4> QED BY <1>4, <1>5, <3>2 DEF RunStands
    <3> QED BY <3>2, <3>3, <3>5, <3>6 DEF RunStands
  <2> QED BY <2>1, <2>2
<1>9. FinishedSeeds'
  BY <1>2, <1>6, SeedKeeps DEF ProvisionInv
<1>10. IndexesGuarded'
  <2>1. /\ \A x \in TypeIndexes : x \in PodPaths
        /\ RunStands(run)
    BY IndexesAreDocuments DEF ProvisionInv, RunsProgress, RunStands
  <2>2. \A x \in TypeIndexes : pod'[x] = pod[x]
    <3>1. \A x \in TypeIndexes : x # Meta(c)
      BY PathKinds DEF TypeIndexes
    <3> QED BY <1>5, <2>1, <3>1
  <2>3. ASSUME NEW x \in TypeIndexes, NEW p \in pod[x], p.acl PROVE pod'[RootAcl] # None
    <3>1. pod[RootAcl] # None
      BY <2>3 DEF ProvisionInv, IndexesGuarded
    <3>2. RootAcl # Meta(c)
      BY PathKinds DEF RootAcl
    <3> QED BY <1>4, <3>1, <3>2 DEF ProvisionInv, PodHolds
  <2> QED BY <2>2, <2>3 DEF IndexesGuarded
<1> QED BY <1>7, <1>8, <1>9, <1>10 DEF ProvisionInv

\* Where a run stands, the next document it puts is the one at its place.
LEMMA NextDocument ==
    ASSUME NEW run, NEW k, run.plan \in Plans, StandsAt(run, k)
    PROVE LET D == Documents(run.plan)
          IN  /\ Head(run.todo) = D[k] /\ Len(run.todo) = Len(D) - k + 1
              /\ k < Len(D) => Tail(run.todo) = SubSeq(D, k + 1, Len(D))
<1>1. PICK D, n : D = Documents(run.plan) /\ n = Len(D)
  OBVIOUS
<1>2. n \in Nat \ {0} /\ k \in 1..n /\ run.todo = SubSeq(D, k, n)
  BY <1>1, DocumentFacts DEF StandsAt
<1>3. PICK S : D \in Seq(S)
  BY <1>1, DocumentFacts
<1>4. Len(run.todo) = n - k + 1
  BY <1>1, <1>2, <1>3, SubSeqProperties
<1>5. Head(run.todo) = D[k]
  BY <1>1, <1>2, <1>3, HeadTailOfSubSeq
<1>6. k < n => Tail(run.todo) = SubSeq(D, k + 1, n)
  BY <1>1, <1>2, <1>3, HeadTailOfSubSeq
<1> QED BY <1>1, <1>4, <1>5, <1>6

\* A document is put behind the ones before it, so a type index finds its root ACL there; the
\* last one leaves the whole seed.
LEMMA DocumentKeeps ==
    ASSUME ProvisionInv, NEW r \in Provisioners, PutDocument(r)
    PROVE ProvisionInv'
<1>1. PICK run \in provisioning[r] :
          /\ run.containers = {}
          /\ pod' = [pod EXCEPT ![Head(run.todo)] = Some(run.plan)]
          /\ provisioning' = [provisioning EXCEPT ![r] =
                 IF Len(run.todo) = 1 THEN None ELSE Some([run EXCEPT !.todo = Tail(@)])]
          /\ finished' = IF Len(run.todo) = 1 THEN finished \cup {run.plan} ELSE finished
  BY DEF PutDocument
<1>2. planned' = planned
  BY DEF PutDocument
<1>3. RunStands(run) /\ run.plan \in Plans /\ run.plan \in planned
  BY DEF ProvisionInv, RunsProgress, RunStands
<1>4. PICK k : StandsAt(run, k)
  BY <1>3 DEF RunStands
<1>5. PICK D, n : D = Documents(run.plan) /\ n = Len(D)
  OBVIOUS
<1>6. /\ n \in Nat \ {0} /\ k \in 1..n /\ DOMAIN D = 1..n
      /\ \A i \in 1..n : i < k => pod[D[i]] # None
      /\ Head(run.todo) = D[k] /\ Len(run.todo) = n - k + 1
      /\ k < n => Tail(run.todo) = SubSeq(D, k + 1, n)
  BY <1>3, <1>4, <1>5, DocumentFacts, NextDocument DEF StandsAt
<1>7. /\ \A i \in 1..n : D[i] \in PodPaths
      /\ \E y : D[k] = Doc(y)
      /\ run.plan.acl => \A i \in 1..n : D[i] \in TypeIndexes =>
             \E j \in 1..n : j < i /\ D[j] = RootAcl
  <2>1. \A i \in 1..n : D[i] \in PodPaths
    BY <1>3, <1>5, <1>6, PathsOfPlan
  <2>2. \E y : D[k] = Doc(y)
    <3>1. \A i \in DOMAIN D : \E y : D[i] = Doc(y)
      BY <1>5, DocumentFacts
    <3> QED BY <1>6, <3>1
  <2>3. run.plan.acl => \A i \in DOMAIN D : D[i] \in TypeIndexes =>
            \E j \in DOMAIN D : j < i /\ D[j] = RootAcl
    BY <1>5, DocumentFacts
  <2> QED BY <1>6, <2>1, <2>2, <2>3
<1>8. PICK b : b = Some(run.plan)
  OBVIOUS
<1>9. b # None /\ pod' = [pod EXCEPT ![D[k]] = b]
  BY <1>1, <1>6, <1>8 DEF Some, None
<1>10. /\ DOMAIN pod' = PodPaths /\ pod'[D[k]] = b
       /\ \A x \in PodPaths : x # D[k] => pod'[x] = pod[x]
  BY <1>6, <1>7, <1>9 DEF ProvisionInv, PodHolds
<1>11. PodGrows
  BY <1>2, <1>9, <1>10 DEF PodGrows
<1>12. \A i \in 1..n : i < k + 1 => pod'[D[i]] # None
  BY <1>6, <1>7, <1>9, <1>10, <1>11 DEF PodGrows
<1>13. \A c \in DefaultContainers \cup run.plan.containers : pod'[Meta(c)] # None
  BY <1>1, <1>3, <1>11, RunKeeps DEF RunStands
<1>14. PodHolds'
  <2>1. DOMAIN provisioning' = Provisioners
    BY <1>1 DEF ProvisionInv, PodHolds
  <2>2. ASSUME NEW x \in PodPaths, \E y : x = Doc(y)
        PROVE pod'[x] = None \/ \E p \in planned' : pod'[x] = Some(p)
    <3>1. CASE x = D[k]
      BY <1>2, <1>3, <1>8, <1>10, <3>1
    <3>2. CASE x # D[k]
      BY <1>2, <1>10, <2>2, <3>2 DEF ProvisionInv, PodHolds
    <3> QED BY <3>1, <3>2
  <2> QED BY <1>10, <2>1, <2>2 DEF PodHolds
<1>15. RunsProgress'
  <2> SUFFICES ASSUME NEW q \in Provisioners, NEW other \in provisioning'[q] PROVE RunStands(other)'
    BY DEF RunsProgress
  <2>1. CASE q # r
    <3>1. other \in provisioning[q]
      BY <1>1, <2>1 DEF ProvisionInv, PodHolds
    <3> QED BY <1>11, <3>1, RunKeeps DEF ProvisionInv, RunsProgress
  <2>2. CASE q = r
    <3>1. provisioning'[r] = IF Len(run.todo) = 1 THEN None
                             ELSE Some([run EXCEPT !.todo = Tail(@)])
      BY <1>1 DEF ProvisionInv, PodHolds
    <3>2. Len(run.todo) # 1 /\ other = [run EXCEPT !.todo = Tail(@)]
      BY <2>2, <3>1 DEF Some, None
    <3>3. /\ other.plan = run.plan /\ other.todo = Tail(run.todo) /\ DOMAIN other = DOMAIN run
          /\ other.containers = run.containers
      BY <1>3, <3>2 DEF RunStands
    <3>4. k < n
      BY <1>6, <3>2
    <3>5. StandsAt(other, k + 1)'
      BY <1>5, <1>6, <1>12, <3>3, <3>4 DEF StandsAt
    <3> QED BY <1>2, <1>3, <1>13, <3>3, <3>5 DEF RunStands
  <2> QED BY <2>1, <2>2
<1>16. FinishedSeeds'
  <2>1. CASE Len(run.todo) # 1
    BY <1>1, <1>11, <2>1, SeedKeeps DEF ProvisionInv
  <2>2. CASE Len(run.todo) = 1
    <3> SUFFICES ASSUME NEW p \in finished'
                 PROVE /\ p \in Plans
                       /\ \A c \in DefaultContainers \cup p.containers : pod'[Meta(c)] # None
                       /\ \A i \in DOMAIN Documents(p) : pod'[Documents(p)[i]] # None
      BY DEF FinishedSeeds
    <3>1. CASE p = run.plan
      BY <1>3, <1>5, <1>6, <1>12, <1>13, <2>2, <3>1
    <3>2. CASE p \in finished
      <4>1. /\ p \in Plans
            /\ \A c \in DefaultContainers \cup p.containers : pod[Meta(c)] # None
            /\ \A i \in DOMAIN Documents(p) : pod[Documents(p)[i]] # None
        BY <3>2 DEF ProvisionInv, FinishedSeeds
      <4> QED BY <1>11, <4>1, PathsOfPlan DEF PodGrows
    <3> QED BY <1>1, <2>2, <3>1, <3>2
  <2> QED BY <2>1, <2>2
<1>17. IndexesGuarded'
  <2> SUFFICES ASSUME NEW x \in TypeIndexes, NEW p \in pod'[x], p.acl PROVE pod'[RootAcl] # None
    BY DEF IndexesGuarded
  <2>1. x \in PodPaths
    BY <1>3, IndexesAreDocuments
  <2>2. CASE x = D[k]
    <3>1. p = run.plan
      BY <1>8, <1>10, <2>2 DEF Some
    <3>2. PICK j \in 1..n : j < k /\ D[j] = RootAcl
      BY <1>6, <1>7, <2>2, <3>1
    <3> QED BY <1>6, <1>12, <3>2
  <2>3. CASE x # D[k]
    <3>1. p \in pod[x]
      BY <1>10, <2>1, <2>3
    <3>2. pod[RootAcl] # None
      BY <3>1 DEF ProvisionInv, IndexesGuarded
    <3>3. CASE RootAcl = D[k]
      BY <1>9, <1>10, <3>3
    <3>4. CASE RootAcl # D[k]
      BY <1>9, <3>2, <3>4 DEF ProvisionInv, PodHolds
    <3> QED BY <3>3, <3>4
  <2> QED BY <2>2, <2>3
<1> QED BY <1>14, <1>15, <1>16, <1>17 DEF ProvisionInv

\* Every step of every run keeps it, a run that ends early included.
LEMMA ProvisionSteps == ProvisionInv /\ [ProvisionNext]_provisionVars => ProvisionInv'
<1> SUFFICES ASSUME ProvisionInv, [ProvisionNext]_provisionVars PROVE ProvisionInv'
  OBVIOUS
<1>1. ASSUME NEW r \in Provisioners, NEW plan \in Plans, ProvisionStart(r, plan) PROVE ProvisionInv'
  <2>1. PICK run : run = [plan |-> plan, todo |-> Documents(plan),
                          containers |-> DefaultContainers \cup plan.containers]
    OBVIOUS
  <2>2. /\ provisioning' = [provisioning EXCEPT ![r] = Some(run)]
        /\ planned' = planned \cup {plan} /\ pod' = pod /\ finished' = finished
    BY <1>1, <2>1 DEF ProvisionStart
  <2>3. PodGrows
    BY <2>2 DEF PodGrows, ProvisionInv, PodHolds
  <2>4. PodHolds'
    BY <2>2 DEF ProvisionInv, PodHolds
  <2>5. RunStands(run)'
    <3>1. PICK D, n, S : D = Documents(plan) /\ n = Len(D) /\ D \in Seq(S) /\ n \in Nat \ {0}
      BY DocumentFacts
    <3>2. D = SubSeq(D, 1, n)
      BY <3>1, SubSeqFull
    <3>3. StandsAt(run, 1)'
      BY <2>1, <3>1, <3>2 DEF StandsAt
    <3> QED BY <2>1, <2>2, <3>3 DEF RunStands
  <2>6. RunsProgress'
    <3> SUFFICES ASSUME NEW q \in Provisioners, NEW other \in provisioning'[q]
                 PROVE RunStands(other)'
      BY DEF RunsProgress
    <3>1. CASE q = r
      BY <2>2, <2>5, <3>1 DEF ProvisionInv, PodHolds, Some
    <3>2. CASE q # r
      <4>1. other \in provisioning[q]
        BY <2>2, <3>2 DEF ProvisionInv, PodHolds
      <4> QED BY <2>3, <4>1, RunKeeps DEF ProvisionInv, RunsProgress
    <3> QED BY <3>1, <3>2
  <2>7. FinishedSeeds' /\ IndexesGuarded'
    BY <2>2 DEF ProvisionInv, FinishedSeeds, IndexesGuarded
  <2> QED BY <2>4, <2>6, <2>7 DEF ProvisionInv
<1>2. ASSUME NEW r \in Provisioners, NEW x \in PodPaths, x.meta, PutContainer(r, x.of)
      PROVE ProvisionInv'
  <2>1. PICK c : x = Meta(c)
    BY <1>2, PathsAre, PathKinds
  <2>2. x.of = c
    BY <2>1, PathKinds
  <2> QED BY <1>2, <2>1, <2>2, ContainerKeeps
<1>3. ASSUME NEW r \in Provisioners, ProvisionEnds(r) PROVE ProvisionInv'
  <2>1. /\ provisioning' = [provisioning EXCEPT ![r] = None]
        /\ pod' = pod /\ planned' = planned /\ finished' = finished
    BY <1>3 DEF ProvisionEnds
  <2>2. PodHolds' /\ FinishedSeeds' /\ IndexesGuarded'
    BY <2>1 DEF ProvisionInv, PodHolds, FinishedSeeds, IndexesGuarded
  <2>3. PodGrows
    BY <2>1 DEF PodGrows, ProvisionInv, PodHolds
  <2>4. ASSUME NEW q \in Provisioners, NEW run \in provisioning'[q] PROVE RunStands(run)'
    <3>1. run \in provisioning[q]
      BY <2>1, <2>4 DEF ProvisionInv, PodHolds, None
    <3> QED BY <2>3, <3>1, RunKeeps DEF ProvisionInv, RunsProgress
  <2> QED BY <2>2, <2>4 DEF ProvisionInv, RunsProgress
<1>4. CASE UNCHANGED provisionVars
  <2>1. PodGrows /\ provisioning' = provisioning
    BY <1>4 DEF PodGrows, provisionVars, ProvisionInv, PodHolds
  <2>2. RunsProgress'
    BY <2>1, RunKeeps DEF RunsProgress, ProvisionInv
  <2>3. PodHolds' /\ FinishedSeeds' /\ IndexesGuarded'
    BY <1>4 DEF provisionVars, ProvisionInv, PodHolds, FinishedSeeds, IndexesGuarded
  <2> QED BY <2>2, <2>3 DEF ProvisionInv
<1> QED BY <1>1, <1>2, <1>3, <1>4, DocumentKeeps DEF ProvisionNext

\* provision_pod may stop after any put and be run again, also while another run is at work, and
\* callers reserve bytes in two steps.  For any plans and any number of runs a run that returned
\* Ok leaves the whole seed and the type indexes never precede the root ACL; for any word size,
\* holders and sizes, and whatever was in use when the tracker was made, the counter is what is
\* left of that and the sum of what is held; while what is left exceeds the quota nothing is
\* admitted, and after that the quota is passed by at most what the other holders had under way.
THEOREM PodsAreSoundlyProvisioned == Spec => []ProvisioningSound
<1>1. ProvisionInv /\ TrackerInv /\ [Next]_vars => (ProvisionInv /\ TrackerInv)'
  BY SceneSteps, ProvisionSteps, TrackerSteps
<1>2. Init => ProvisionInv /\ TrackerInv
  BY ProvisionInitial, TrackerInitial DEF Init
<1>3. ProvisionInv /\ TrackerInv => ProvisioningSound
  BY ProvisionSeeds, TrackerBounds DEF ProvisioningSound
<1> QED BY <1>1, <1>2, <1>3, PTL DEF Spec

-----------------------------------------------------------------------------
(* The rate limiter.                                                       *)

\* The places of the hits that a request stamped now still counts.
Live(seq, now) == {i \in DOMAIN seq : seq[i] > now - Window}

\* Pruning keeps the live hits, each at its own place, and nothing else.
LEMMA PruneKeeps ==
    ASSUME NEW seq \in Seq(Nat), NEW now \in Int
    PROVE /\ Prune(seq, now) \in Seq(Nat) /\ Len(Prune(seq, now)) <= Len(seq)
          /\ \A n \in DOMAIN Prune(seq, now) : \E i \in DOMAIN seq : Prune(seq, now)[n] = seq[i]
          /\ \A i \in Live(seq, now) :
                 /\ Rank(Live(seq, now), i) \in DOMAIN Prune(seq, now)
                 /\ Prune(seq, now)[Rank(Live(seq, now), i)] = seq[i]
          /\ \A i, j \in Live(seq, now) :
                 Rank(Live(seq, now), i) = Rank(Live(seq, now), j) => i = j
          /\ (\E i \in DOMAIN seq : i \notin Live(seq, now)) => Len(Prune(seq, now)) < Len(seq)
          /\ IsFiniteSet(Live(seq, now)) /\ Cardinality(Live(seq, now)) = Len(Prune(seq, now))
<1>1. PICK P : P = Live(seq, now)
  OBVIOUS
<1>2. PICK new : new = Prune(seq, now)
  OBVIOUS
<1>3. P \subseteq DOMAIN seq /\ new = Thinned(seq, P)
  BY <1>1, <1>2 DEF Live, Prune
<1>4. PICK b \in Nat : b = Len(seq) /\ DOMAIN seq = 1..b
  BY LenProperties
<1>5. /\ IsFiniteSet(P) /\ Cardinality(P) \in Nat /\ \A x \in P : x \in 1..b
      /\ new \in Seq(Nat) /\ Len(new) = Cardinality(P)
  BY <1>3, <1>4, ThinnedSeq
<1>6. DOMAIN new = 1..Cardinality(P)
  BY <1>5, LenProperties
<1>7. \A n \in DOMAIN new : \E i \in DOMAIN seq : new[n] = seq[i]
  <2> SUFFICES ASSUME NEW n \in 1..Cardinality(P) PROVE \E i \in DOMAIN seq : new[n] = seq[i]
    BY <1>6
  <2>1. b \in Nat /\ \A x \in P : x \in 1..b
    BY <1>4, <1>5
  <2>2. \E i \in P : Thinned(seq, P)[n] = seq[i]
    BY <2>1, ThinnedFrom
  <2> QED BY <1>3, <2>2
<1>8. \A i \in P : Rank(P, i) \in DOMAIN new /\ new[Rank(P, i)] = seq[i]
  BY <1>3, <1>4, <1>5, <1>6, ThinnedAt
<1>9. \A i, j \in P : Rank(P, i) = Rank(P, j) => i = j
  BY <1>4, <1>5, RankIsOnce
<1>10. IsFiniteSet(DOMAIN seq) /\ Cardinality(DOMAIN seq) = b
  <2>1. 1 \in Int /\ b \in Int
    OBVIOUS
  <2>2. IsFiniteSet(1..b) /\ Cardinality(1..b) = b
    BY <2>1, FS_Interval
  <2> QED BY <1>4, <2>2
<1>11. P \in SUBSET DOMAIN seq
  BY <1>3
<1>12. Cardinality(P) <= b /\ (Cardinality(P) = b => P = DOMAIN seq)
  BY <1>10, <1>11, FS_Subset
<1>13. (\E i \in DOMAIN seq : i \notin P) => Len(new) < b
  BY <1>5, <1>12
<1> QED BY <1>1, <1>2, <1>4, <1>5, <1>7, <1>8, <1>9, <1>12, <1>13

\* Whole seconds are rounded up.
LEMMA CeilCovers == ASSUME NEW n \in Nat
                    PROVE CeilSecs(n) \in Nat /\ CeilSecs(n) * TicksPerSecond >= n
<1>1. PICK k \in Nat \ {0} : k = TicksPerSecond
  BY SignInAssumption
<1>2. ((n + k - 1) \div k) * k >= n /\ (n + k - 1) \div k \in Nat
  OBVIOUS
<1> QED BY <1>1, <1>2 DEF CeilSecs

\* A refused client that waits as told finds the first hit gone, whenever the refusal was stamped.
LEMMA RetryCovers ==
    ASSUME NEW seq \in Seq(Nat), 1 \in DOMAIN seq, NEW now \in Nat, NEW time \in Nat, now <= time,
           seq[1] <= time
    PROVE LET come == time + RetryAfterSecs(seq, now) * TicksPerSecond
          IN  come \in Nat /\ seq[1] <= come - Window
<1>1. PICK k \in Nat \ {0}, w \in Nat \ {0} : k = TicksPerSecond /\ w = Window
  BY SignInAssumption
<1>2. PICK h \in Nat : h = seq[1]
  BY ElementOfSeq
<1>3. PICK elapsed \in Nat : elapsed = IF now > h THEN now - h ELSE 0
  <2>1. (IF now > h THEN now - h ELSE 0) \in Nat
    BY <1>2
  <2> QED BY <2>1
<1>4. PICK remaining \in Nat : remaining = IF w > elapsed THEN w - elapsed ELSE 0
  <2>1. (IF w > elapsed THEN w - elapsed ELSE 0) \in Nat
    BY <1>1, <1>3
  <2> QED BY <2>1
<1>5. PICK c \in Nat : c = CeilSecs(remaining) /\ c * k >= remaining
  BY <1>1, <1>4, CeilCovers
<1>6. PICK secs \in Nat : secs = IF c > 1 THEN c ELSE 1
  OBVIOUS
<1>7. secs * k >= remaining /\ secs * k \in Nat
  <2>1. CASE secs = c
    BY <1>5, <2>1
  <2>2. CASE secs = 1 /\ c <= 1
    <3>1. c = 0 \/ c = 1
      BY <2>2
    <3>2. CASE c = 0
      BY <1>5, <2>2, <3>2
    <3>3. CASE c = 1
      BY <1>5, <2>2, <3>3
    <3> QED BY <3>1, <3>2, <3>3
  <2> QED BY <1>6, <2>1, <2>2
<1>8. RetryAfterSecs(seq, now) = secs
  BY <1>1, <1>2, <1>3, <1>4, <1>5, <1>6 DEF RetryAfterSecs
<1>9. PICK s \in Nat : s = secs * k /\ s >= remaining
  BY <1>7
<1>10. time + s \in Nat /\ h <= time + s - w
  BY <1>1, <1>2, <1>3, <1>4, <1>9
<1> QED BY <1>1, <1>2, <1>8, <1>9, <1>10

\* Types: stamps lie in the past, no bucket is over its limit.
SignInShape ==
    /\ loginTime \in Nat /\ DOMAIN tasks = LoginTasks
    /\ \A t \in LoginTasks : tasks[t].at = "sampled" =>
           tasks[t].ip \in Addresses /\ tasks[t].now \in Nat /\ tasks[t].now <= loginTime
    /\ hits \in [Addresses -> Seq(Nat)]
    /\ \A ip \in Addresses :
           Len(hits[ip]) <= MaxHits /\ \A i \in DOMAIN hits[ip] : hits[ip][i] <= loginTime
    /\ IsFiniteSet(admitted)
    /\ \A a \in admitted : a.at \in Nat /\ a.wait \in Nat
    /\ DOMAIN promised = Addresses

\* The admissions of an address that are less than a window old by now.
Recent(ip) == {a \in admitted : a.ip = ip /\ a.at + Window > loginTime}

\* Each of them still has a hit of its own in the bucket, at place[a], although requests with older
\* stamps may have pruned it since.
HitsOf(ip, place) ==
    /\ \A a \in Recent(ip) : place[a] \in DOMAIN hits[ip] /\ hits[ip][place[a]] = a.at
    /\ \A a, b \in Recent(ip) : place[a] = place[b] => a = b
HitsKept == \A ip \in Addresses : \E place : HitsOf(ip, place)

\* The first part of RateLimitHonest, for one address.
SpacedOut(ip) ==
    \A S \in SUBSET {a \in admitted : a.ip = ip} :
        Cardinality(S) = MaxHits + 1 => \E a, b, c \in S : a.at - b.at + c.wait >= Window
AdmissionsSpaced == \A ip \in Addresses : SpacedOut(ip)

\* A refused address finds the first hit of its bucket gone when it comes back as told.
PromisesKept ==
    \A ip \in Addresses : promised[ip] # None =>
        \E come \in Nat : /\ promised[ip] = Some(come) /\ 1 \in DOMAIN hits[ip]
                          /\ hits[ip][1] <= come - Window

SignInInv == SignInShape /\ HitsKept /\ AdmissionsSpaced /\ PromisesKept

\* No bucket, no admission, no promise.
LEMMA SignInInitial == SignInInit => SignInInv
<1> SUFFICES ASSUME SignInInit PROVE SignInInv
  OBVIOUS
<1>1. /\ loginTime = 0 /\ tasks = [t \in LoginTasks |-> NoTask] /\ admitted = {}
      /\ hits = [ip \in Addresses |-> <<>>] /\ promised = [ip \in Addresses |-> None]
  BY DEF SignInInit
<1>2. SignInShape
  <2>1. \A t \in LoginTasks : tasks[t].at # "sampled"
    BY <1>1 DEF NoTask
  <2>2. <<>> \in Seq(Nat) /\ Len(<<>>) = 0 /\ DOMAIN <<>> = {}
    OBVIOUS
  <2>3. hits \in [Addresses -> Seq(Nat)]
    BY <1>1, <2>2
  <2>4. \A ip \in Addresses :
            Len(hits[ip]) <= MaxHits /\ \A i \in DOMAIN hits[ip] : hits[ip][i] <= loginTime
    BY <1>1, <2>2, SignInAssumption
  <2>5. IsFiniteSet(admitted)
    BY <1>1, FS_EmptySet
  <2> QED BY <1>1, <2>1, <2>3, <2>4, <2>5 DEF SignInShape
<1>3. HitsKept /\ PromisesKept
  BY <1>1 DEF HitsKept, HitsOf, Recent, PromisesKept
<1>4. AdmissionsSpaced
  <2> SUFFICES ASSUME NEW S, S = {}, Cardinality(S) = MaxHits + 1 PROVE FALSE
    BY <1>1 DEF AdmissionsSpaced, SpacedOut
  <2> QED BY FS_EmptySet, SignInAssumption
<1> QED BY <1>2, <1>3, <1>4 DEF SignInInv

\* The invariant is the property, pruned at the promised instant.
LEMMA SignInHonest == SignInInv => RateLimitHonest
<1> SUFFICES ASSUME SignInInv PROVE RateLimitHonest
  OBVIOUS
<1>1. ASSUME NEW ip \in Addresses, promised[ip] # None
      PROVE Len(Prune(hits[ip], TheOne(promised[ip]))) < MaxHits
  <2>1. PICK come \in Nat : /\ promised[ip] = Some(come) /\ 1 \in DOMAIN hits[ip]
                            /\ hits[ip][1] <= come - Window
    BY <1>1 DEF SignInInv, PromisesKept
  <2>2. TheOne(promised[ip]) = come
    BY <2>1, TheOneOfSome
  <2>3. hits[ip] \in Seq(Nat) /\ Len(hits[ip]) <= MaxHits /\ hits[ip][1] \in Nat
    BY <2>1, ElementOfSeq DEF SignInInv, SignInShape
  <2>4. 1 \notin Live(hits[ip], come)
    BY <2>1, <2>3, SignInAssumption DEF Live
  <2>5. Prune(hits[ip], come) \in Seq(Nat) /\ Len(Prune(hits[ip], come)) < Len(hits[ip])
    BY <2>1, <2>3, <2>4, PruneKeeps
  <2>6. Len(Prune(hits[ip], come)) \in Nat /\ Len(hits[ip]) \in Nat
    BY <2>3, <2>5, LenProperties
  <2> QED BY <2>2, <2>3, <2>5, <2>6, SignInAssumption
<1> QED BY <1>1 DEF RateLimitHonest, SignInInv, AdmissionsSpaced, SpacedOut

\* What a request does under the limiter's lock, the eviction of a bucket included: the addresses
\* gone have no bucket any more, or none yet.
LEMMA LoginEffect ==
    ASSUME NEW t, NEW email, NEW password, Login(t, email, password)
    PROVE \E gone, seq :
        LET r == tasks[t]
            deny == Len(seq) >= MaxHits
            come == loginTime + RetryAfterSecs(seq, r.now) * TicksPerSecond
            kept == {a \in admitted : a.ip \notin gone}
            d == [ip |-> r.ip, at |-> r.now, wait |-> loginTime - r.now,
                  nth |-> Cardinality({a \in kept : a.ip = r.ip})]
        IN  /\ r.at = "sampled" /\ loginTime' = loginTime
            /\ \/ seq = <<>> /\ r.ip \in gone
               \/ seq = Prune(hits[r.ip], r.now) /\ r.ip \notin gone
            /\ hits' = [ip \in Addresses |->
                   IF ip = r.ip THEN (IF deny THEN seq ELSE Append(seq, r.now))
                   ELSE IF ip \in gone THEN <<>> ELSE hits[ip]]
            /\ admitted' = IF deny THEN kept ELSE kept \cup {d}
            /\ promised' = [ip \in Addresses |->
                   IF ip = r.ip THEN (IF deny THEN Some(come) ELSE None)
                   ELSE IF ip \in gone THEN None ELSE promised[ip]]
            /\ \E after : after.at # "sampled" /\ tasks' = [tasks EXCEPT ![t] = after]
<1>1. PICK r, victims : r = tasks[t] /\ victims = LruVictims(recency, r.ip, Buckets)
  OBVIOUS
<1>2. PICK gone : gone = victims \cup (IF r.ip \notin LruKeys(recency) THEN {r.ip} ELSE {})
  OBVIOUS
<1>3. PICK seq : seq = IF r.ip \notin LruKeys(recency) THEN <<>> ELSE Prune(hits[r.ip], r.now)
  OBVIOUS
<1>4. r.ip \in LruKeys(recency) => victims = {}
  BY <1>1 DEF LruVictims
<1>5. \/ seq = <<>> /\ r.ip \in gone
      \/ seq = Prune(hits[r.ip], r.now) /\ r.ip \notin gone
  BY <1>2, <1>3, <1>4
<1>6. \A ip : ip # r.ip => (ip \in gone <=> ip \in victims)
  BY <1>2
<1>7. r.at = "sampled" /\ loginTime' = loginTime
  BY <1>1 DEF Login
<1>8. hits' = [ip \in Addresses |->
          IF ip = r.ip THEN (IF Len(seq) >= MaxHits THEN seq ELSE Append(seq, r.now))
          ELSE IF ip \in gone THEN <<>> ELSE hits[ip]]
  <2>1. hits' = [ip \in Addresses |->
          IF ip = r.ip THEN (IF Len(seq) >= MaxHits THEN seq ELSE Append(seq, r.now))
          ELSE IF ip \in victims THEN <<>> ELSE hits[ip]]
    BY <1>1, <1>3 DEF Login
  <2> QED BY <1>6, <2>1
<1>9. PICK kept : kept = {a \in admitted : a.ip \notin gone}
  OBVIOUS
<1>10. admitted' = IF Len(seq) >= MaxHits THEN kept
                   ELSE kept \cup {[ip |-> r.ip, at |-> r.now, wait |-> loginTime - r.now,
                                    nth |-> Cardinality({a \in kept : a.ip = r.ip})]}
  BY <1>1, <1>2, <1>3, <1>9 DEF Login
<1>11. PICK waits : waits = [ip \in Addresses |-> IF ip \in gone THEN None ELSE promised[ip]]
  OBVIOUS
<1>12. promised' = IF Len(seq) >= MaxHits
           THEN [waits EXCEPT ![r.ip] = Some(loginTime + RetryAfterSecs(seq, r.now) * TicksPerSecond)]
           ELSE [waits EXCEPT ![r.ip] = None]
  BY <1>1, <1>2, <1>3, <1>11 DEF Login
<1>13. \E after : after.at # "sampled" /\ tasks' = [tasks EXCEPT ![t] = after]
  <2>1. \/ tasks' = [tasks EXCEPT ![t] = NoTask]
        \/ tasks' = [tasks EXCEPT ![t] = Authenticate(email, password)]
    BY DEF Login
  <2>2. NoTask.at # "sampled" /\ Authenticate(email, password).at # "sampled"
    BY DEF NoTask, Authenticate
  <2> QED BY <2>1, <2>2
<1>14. promised' = [ip \in Addresses |->
           IF ip = r.ip THEN (IF Len(seq) >= MaxHits
               THEN Some(loginTime + RetryAfterSecs(seq, r.now) * TicksPerSecond) ELSE None)
           ELSE IF ip \in gone THEN None ELSE promised[ip]]
  BY <1>11, <1>12
<1> QED BY <1>1, <1>5, <1>7, <1>8, <1>9, <1>10, <1>13, <1>14

\* A request passes the lock: admitted or refused, in a fresh bucket or in a pruned one.
LEMMA LoginKeeps ==
    ASSUME SignInInv, NEW t \in LoginTasks, NEW email, NEW password, Login(t, email, password)
    PROVE SignInInv'
<1>1. PICK gone, seq :
        LET r == tasks[t]
            deny == Len(seq) >= MaxHits
            come == loginTime + RetryAfterSecs(seq, r.now) * TicksPerSecond
            kept == {a \in admitted : a.ip \notin gone}
            d == [ip |-> r.ip, at |-> r.now, wait |-> loginTime - r.now,
                  nth |-> Cardinality({a \in kept : a.ip = r.ip})]
        IN  /\ r.at = "sampled" /\ loginTime' = loginTime
            /\ \/ seq = <<>> /\ r.ip \in gone
               \/ seq = Prune(hits[r.ip], r.now) /\ r.ip \notin gone
            /\ hits' = [ip \in Addresses |->
                   IF ip = r.ip THEN (IF deny THEN seq ELSE Append(seq, r.now))
                   ELSE IF ip \in gone THEN <<>> ELSE hits[ip]]
            /\ admitted' = IF deny THEN kept ELSE kept \cup {d}
            /\ promised' = [ip \in Addresses |->
                   IF ip = r.ip THEN (IF deny THEN Some(come) ELSE None)
                   ELSE IF ip \in gone THEN None ELSE promised[ip]]
            /\ \E after : after.at # "sampled" /\ tasks' = [tasks EXCEPT ![t] = after]
  BY LoginEffect
<1>2. PICK me, now, kept, d, come :
        /\ me = tasks[t].ip /\ now = tasks[t].now /\ kept = {a \in admitted : a.ip \notin gone}
        /\ d = [ip |-> me, at |-> now, wait |-> loginTime - now,
                nth |-> Cardinality({a \in kept : a.ip = me})]
        /\ come = loginTime + RetryAfterSecs(seq, now) * TicksPerSecond
  OBVIOUS
<1>3. /\ tasks[t].at = "sampled" /\ loginTime' = loginTime
      /\ \/ seq = <<>> /\ me \in gone
         \/ seq = Prune(hits[me], now) /\ me \notin gone
      /\ hits' = [ip \in Addresses |->
             IF ip = me THEN (IF Len(seq) >= MaxHits THEN seq ELSE Append(seq, now))
             ELSE IF ip \in gone THEN <<>> ELSE hits[ip]]
      /\ admitted' = IF Len(seq) >= MaxHits THEN kept ELSE kept \cup {d}
      /\ promised' = [ip \in Addresses |->
             IF ip = me THEN (IF Len(seq) >= MaxHits THEN Some(come) ELSE None)
             ELSE IF ip \in gone THEN None ELSE promised[ip]]
      /\ \E after : after.at # "sampled" /\ tasks' = [tasks EXCEPT ![t] = after]
  BY <1>1, <1>2
<1>4. /\ me \in Addresses /\ now \in Nat /\ now <= loginTime /\ loginTime \in Nat
      /\ hits \in [Addresses -> Seq(Nat)] /\ IsFiniteSet(admitted)
      /\ \A a \in admitted : a.at \in Nat /\ a.wait \in Nat
      /\ \A ip \in Addresses :
             Len(hits[ip]) <= MaxHits /\ \A i \in DOMAIN hits[ip] : hits[ip][i] <= loginTime
      /\ MaxHits \in Nat \ {0} /\ Window \in Nat \ {0}
  BY <1>2, <1>3, SignInAssumption DEF SignInInv, SignInShape
<1>5. d.ip = me /\ d.at = now /\ d.wait = loginTime - now /\ d.wait \in Nat
  BY <1>2, <1>4
<1>6. hits[me] \in Seq(Nat)
  BY <1>4
\* the bucket before the new hit
<1>7. /\ seq \in Seq(Nat) /\ Len(seq) \in Nat /\ Len(seq) <= MaxHits /\ DOMAIN seq = 1..Len(seq)
      /\ \A i \in DOMAIN seq : seq[i] \in Nat /\ seq[i] <= loginTime
  <2>1. CASE seq = <<>>
    BY <1>4, <2>1
  <2>2. CASE seq = Prune(hits[me], now)
    <3>1. /\ seq \in Seq(Nat) /\ Len(seq) <= Len(hits[me])
          /\ \A n \in DOMAIN seq : \E i \in DOMAIN hits[me] : seq[n] = hits[me][i]
      BY <1>4, <1>6, <2>2, PruneKeeps
    <3>2. Len(seq) \in Nat /\ Len(hits[me]) \in Nat /\ DOMAIN seq = 1..Len(seq)
      BY <1>6, <3>1, LenProperties
    <3>3. \A i \in DOMAIN seq : seq[i] \in Nat
      BY <3>1, <3>2, ElementOfSeq
    <3> QED BY <1>4, <3>1, <3>2, <3>3
  <2> QED BY <1>3, <2>1, <2>2
\* and after it
<1>8. PICK new : new = IF Len(seq) >= MaxHits THEN seq ELSE Append(seq, now)
  OBVIOUS
<1>9. /\ new \in Seq(Nat) /\ Len(new) <= MaxHits /\ \A i \in DOMAIN new : new[i] <= loginTime
      /\ \A i \in DOMAIN seq : i \in DOMAIN new /\ new[i] = seq[i]
      /\ Len(seq) < MaxHits => Len(seq) + 1 \in DOMAIN new /\ new[Len(seq) + 1] = now
  <2>1. CASE Len(seq) >= MaxHits
    BY <1>4, <1>7, <1>8, <2>1
  <2>2. CASE Len(seq) < MaxHits
    <3>1. new = Append(seq, now)
      <4>1. ~(Len(seq) >= MaxHits)
        BY <1>4, <1>7, <2>2
      <4> QED BY <1>8, <4>1, Zenon
    <3>2. /\ new \in Seq(Nat) /\ Len(new) = Len(seq) + 1
          /\ \A i \in 1..Len(seq) : new[i] = seq[i]
          /\ new[Len(seq) + 1] = now /\ DOMAIN new = 1..(Len(seq) + 1)
      BY <1>4, <1>7, <3>1, AppendProperties
    <3>3. \A i \in DOMAIN new : i \in DOMAIN seq \/ i = Len(seq) + 1
      BY <1>7, <3>2
    <3>4. \A i \in DOMAIN seq : i \in DOMAIN new /\ new[i] = seq[i]
      BY <1>7, <3>2
    <3>5. Len(seq) + 1 \in DOMAIN new
      BY <1>7, <3>2
    <3>6. \A i \in DOMAIN new : new[i] <= loginTime
      BY <1>4, <1>7, <3>2, <3>3, <3>4
    <3> QED BY <1>4, <1>7, <2>2, <3>2, <3>4, <3>5, <3>6
  <2> QED BY <1>4, <1>7, <2>1, <2>2
<1>10. /\ hits'[me] = new
       /\ \A ip \in Addresses : ip # me => hits'[ip] = IF ip \in gone THEN <<>> ELSE hits[ip]
  BY <1>3, <1>4, <1>8
<1>11. IsFiniteSet(kept) /\ kept \subseteq admitted
  <2>1. kept \in SUBSET admitted
    BY <1>2
  <2> QED BY <1>4, <2>1, FS_Subset
<1>12. SignInShape'
  <2>1. loginTime' \in Nat /\ DOMAIN tasks' = LoginTasks /\ DOMAIN promised' = Addresses
    BY <1>3, <1>4 DEF SignInInv, SignInShape
  <2>2. ASSUME NEW u \in LoginTasks, tasks'[u].at = "sampled"
        PROVE tasks'[u].ip \in Addresses /\ tasks'[u].now \in Nat /\ tasks'[u].now <= loginTime'
    <3>1. tasks'[u] = tasks[u]
      BY <1>3, <2>2 DEF SignInInv, SignInShape
    <3> QED BY <1>3, <2>2, <3>1 DEF SignInInv, SignInShape
  <2>3. ASSUME NEW ip \in Addresses
        PROVE /\ hits'[ip] \in Seq(Nat) /\ Len(hits'[ip]) <= MaxHits
              /\ \A i \in DOMAIN hits'[ip] : hits'[ip][i] <= loginTime'
    <3>1. CASE ip = me
      BY <1>3, <1>9, <1>10, <3>1
    <3>2. CASE ip # me /\ ip \in gone
      <4>1. hits'[ip] = <<>>
        BY <1>10, <3>2
      <4>2. <<>> \in Seq(Nat) /\ Len(<<>>) = 0 /\ DOMAIN <<>> = {}
        OBVIOUS
      <4> QED BY <1>4, <4>1, <4>2
    <3>3. CASE ip # me /\ ip \notin gone
      BY <1>3, <1>4, <1>10, <3>3
    <3> QED BY <3>1, <3>2, <3>3
  <2>4. hits' \in [Addresses -> Seq(Nat)]
    <3>1. DOMAIN hits' = Addresses /\ hits' = [ip \in Addresses |-> hits'[ip]]
      BY <1>3
    <3> QED BY <2>3, <3>1
  <2>5. IsFiniteSet(admitted')
    BY <1>3, <1>11, FS_AddElement
  <2>6. \A a \in admitted' : a.at \in Nat /\ a.wait \in Nat
    BY <1>3, <1>4, <1>5, <1>11
  <2> QED BY <2>1, <2>2, <2>3, <2>4, <2>5, <2>6 DEF SignInShape
<1>13. PromisesKept'
  <2> SUFFICES ASSUME NEW ip \in Addresses, promised'[ip] # None
               PROVE \E back \in Nat : /\ promised'[ip] = Some(back) /\ 1 \in DOMAIN hits'[ip]
                                       /\ hits'[ip][1] <= back - Window
    BY DEF PromisesKept
  <2>1. CASE ip = me
    <3>1. Len(seq) >= MaxHits /\ promised'[ip] = Some(come)
      BY <1>3, <2>1
    <3>2. hits'[ip] = seq /\ 1 \in DOMAIN seq
      BY <1>4, <1>7, <1>8, <1>10, <2>1, <3>1
    <3>3. come \in Nat /\ seq[1] <= come - Window
      BY <1>2, <1>4, <1>7, <3>2, RetryCovers
    <3> QED BY <3>1, <3>2, <3>3
  <2>2. CASE ip # me
    <3>1. ip \notin gone /\ promised'[ip] = promised[ip] /\ hits'[ip] = hits[ip]
      BY <1>3, <1>10, <2>2
    <3> QED BY <3>1 DEF SignInInv, PromisesKept
  <2> QED BY <2>1, <2>2
<1>14. \A a \in admitted' : a \in kept \/ (a = d /\ Len(seq) < MaxHits)
  BY <1>3, <1>4, <1>7
<1>15. \A a : a \in kept <=> a \in admitted /\ a.ip \notin gone
  BY <1>2
\* an admission of this address that was there before has its place in the bucket
<1>16. PICK place : HitsOf(me, place)
  BY <1>4 DEF SignInInv, HitsKept
<1>17. PICK P : P = Live(hits[me], now)
  OBVIOUS
<1>18. ASSUME NEW a \in kept, a.ip = me, a.at > now - Window, a \in Recent(me)
       PROVE place[a] \in P /\ seq = Prune(hits[me], now)
  <2>1. seq = Prune(hits[me], now)
    BY <1>3, <1>15, <1>18
  <2>2. place[a] \in DOMAIN hits[me] /\ hits[me][place[a]] = a.at
    BY <1>16, <1>18 DEF HitsOf
  <2> QED BY <1>17, <1>18, <2>1, <2>2 DEF Live
<1>19. HitsKept'
  <2> SUFFICES ASSUME NEW ip \in Addresses PROVE \E f : HitsOf(ip, f)'
    BY DEF HitsKept
  <2>1. CASE ip # me
    <3>1. PICK f : HitsOf(ip, f)
      BY DEF SignInInv, HitsKept
    <3>2. ASSUME NEW a \in Recent(ip)' PROVE a \in Recent(ip) /\ ip \notin gone
      <4>1. a \in admitted' /\ a.ip = ip /\ a.at + Window > loginTime
        BY <1>3, <3>2 DEF Recent
      <4>2. a \in kept
        BY <1>5, <1>14, <2>1, <4>1
      <4> QED BY <1>15, <4>1, <4>2 DEF Recent
    <3>3. ip \notin gone => hits'[ip] = hits[ip]
      BY <1>10, <2>1
    <3>4. HitsOf(ip, f)'
      BY <3>1, <3>2, <3>3 DEF HitsOf
    <3> QED BY <3>4
  <2>2. CASE ip = me
    <3>1. PICK f : f = [a \in admitted' |-> IF a = d /\ Len(seq) < MaxHits THEN Len(seq) + 1
                                             ELSE Rank(P, place[a])]
      OBVIOUS
    <3>2. ASSUME NEW a \in Recent(me)', ~(a = d /\ Len(seq) < MaxHits)
          PROVE /\ f[a] = Rank(P, place[a]) /\ f[a] \in DOMAIN seq /\ seq[f[a]] = a.at
                /\ place[a] \in P /\ a \in Recent(me)
      <4>1. a \in admitted' /\ a.ip = me /\ a.at + Window > loginTime
        BY <1>3, <3>2 DEF Recent
      <4>2. a \in kept /\ a \in admitted
        BY <1>14, <1>15, <3>2, <4>1
      <4>3. a \in Recent(me)
        BY <4>1, <4>2 DEF Recent
      <4>4. a.at \in Nat /\ a.at > now - Window
        BY <1>4, <4>1, <4>2
      <4>5. place[a] \in P /\ seq = Prune(hits[me], now)
        BY <1>18, <4>1, <4>2, <4>3, <4>4
      <4>6. Rank(P, place[a]) \in DOMAIN seq /\ seq[Rank(P, place[a])] = hits[me][place[a]]
        BY <1>4, <1>6, <1>17, <4>5, PruneKeeps
      <4>7. hits[me][place[a]] = a.at
        BY <1>16, <4>3 DEF HitsOf
      <4> QED BY <3>1, <3>2, <4>1, <4>3, <4>5, <4>6, <4>7
    <3>3. ASSUME NEW a \in Recent(me)', a = d, Len(seq) < MaxHits
          PROVE f[a] = Len(seq) + 1 /\ f[a] \in DOMAIN new /\ new[f[a]] = a.at
      <4>1. a \in admitted'
        BY <3>3 DEF Recent
      <4>2. f[a] = Len(seq) + 1
        BY <3>1, <3>3, <4>1
      <4> QED BY <1>5, <1>9, <3>3, <4>2
    <3>4. ASSUME NEW a \in Recent(me)' PROVE f[a] \in DOMAIN hits'[me] /\ hits'[me][f[a]] = a.at
      BY <1>9, <1>10, <3>2, <3>3
    <3>5. ASSUME NEW a \in Recent(me)', NEW b \in Recent(me)', f[a] = f[b] PROVE a = b
      <4>1. CASE a = d /\ b = d
        BY <4>1
      <4>2. CASE ~(a = d /\ Len(seq) < MaxHits) /\ ~(b = d /\ Len(seq) < MaxHits)
        <5>1. place[a] \in P /\ place[b] \in P /\ Rank(P, place[a]) = Rank(P, place[b])
          BY <3>2, <3>5, <4>2
        <5>2. place[a] = place[b]
          BY <1>4, <1>6, <1>17, <5>1, PruneKeeps
        <5>3. a \in Recent(me) /\ b \in Recent(me)
          BY <3>2, <4>2
        <5> QED BY <1>16, <5>2, <5>3 DEF HitsOf
      <4>3. CASE a = d /\ Len(seq) < MaxHits /\ b # d
        BY <1>7, <3>2, <3>3, <3>5, <4>3
      <4>4. CASE b = d /\ Len(seq) < MaxHits /\ a # d
        BY <1>7, <3>2, <3>3, <3>5, <4>4
      <4> QED BY <4>1, <4>2, <4>3, <4>4
    <3>6. HitsOf(me, f)'
      BY <3>4, <3>5 DEF HitsOf
    <3> QED BY <2>2, <3>6
  <2> QED BY <2>1, <2>2
<1>20. AdmissionsSpaced'
  <2> SUFFICES ASSUME NEW ip \in Addresses, NEW S, \A a \in S : a \in admitted' /\ a.ip = ip,
                      Cardinality(S) = MaxHits + 1
               PROVE \E a, b, c \in S : a.at - b.at + c.wait >= Window
    BY DEF AdmissionsSpaced, SpacedOut
  <2>1. CASE \A a \in S : a \in kept
    <3>1. S \in SUBSET {a \in admitted : a.ip = ip}
      BY <1>15, <2>1
    <3> QED BY <3>1 DEF SignInInv, AdmissionsSpaced, SpacedOut
  <2>2. CASE \E a \in S : a \notin kept
    <3>1. d \in S /\ d \notin kept /\ ip = me /\ Len(seq) < MaxHits
      BY <1>5, <1>14, <2>2
    <3>2. PICK T : T = S \ {d}
      OBVIOUS
    <3>3. IsFiniteSet(S)
      <4>1. IsFiniteSet(kept \cup {d})
        BY <1>11, FS_AddElement
      <4>2. S \in SUBSET (kept \cup {d})
        BY <1>14
      <4> QED BY <4>1, <4>2, FS_Subset
    <3>4. IsFiniteSet(T) /\ Cardinality(T) = MaxHits
      <4>1. IsFiniteSet(T) /\ Cardinality(T) = Cardinality(S) - 1
        BY <3>1, <3>2, <3>3, FS_RemoveElement
      <4> QED BY <1>4, <4>1
    <3>5. \A a \in T : a \in kept /\ a \in admitted /\ a.ip = me /\ a.at \in Nat /\ a \in S
      BY <1>4, <1>14, <1>15, <3>1, <3>2
    <3>6. CASE \E b \in T : b.at + Window <= loginTime
      <4>1. PICK b \in T : b.at + Window <= loginTime
        BY <3>6
      <4>2. d.at - b.at + d.wait >= Window
        BY <1>4, <1>5, <3>5, <4>1
      <4> QED BY <3>1, <3>5, <4>2
    <3>7. CASE \E b \in T : b.at <= now - Window
      <4>1. PICK b \in T : b.at <= now - Window
        BY <3>7
      <4>2. d.at - b.at + d.wait >= Window
        BY <1>4, <1>5, <3>5, <4>1
      <4> QED BY <3>1, <3>5, <4>2
    <3>8. CASE \A b \in T : b.at + Window > loginTime /\ b.at > now - Window
      <4>1. ASSUME NEW b \in T PROVE b \in Recent(me) /\ place[b] \in P /\ seq = Prune(hits[me], now)
        <5>1. b \in Recent(me)
          BY <3>5, <3>8 DEF Recent
        <5> QED BY <1>18, <3>5, <3>8, <5>1
      <4>2. T # {}
        BY <1>4, <3>4, FS_EmptySet
      <4>3. IsFiniteSet(P) /\ Cardinality(P) = Len(seq)
        BY <1>4, <1>6, <1>17, <4>1, <4>2, PruneKeeps
      <4>4. PICK f : f = [b \in T |-> place[b]]
        OBVIOUS
      <4>5. f \in [T -> P]
        BY <4>1, <4>4
      <4>6. Cardinality(P) < Cardinality(T)
        BY <3>1, <3>4, <4>3
      <4>7. PICK x, y \in T : x # y /\ f[x] = f[y]
        BY <3>4, <4>3, <4>5, <4>6, FS_PigeonHole
      <4>8. place[x] = place[y]
        BY <4>4, <4>7
      <4> QED BY <1>16, <4>1, <4>7, <4>8 DEF HitsOf
    <3>9. \A b \in T : b.at \in Nat
      BY <3>5
    <3> QED BY <1>4, <3>6, <3>7, <3>8, <3>9
  <2> QED BY <2>1, <2>2
<1> QED BY <1>12, <1>13, <1>19, <1>20 DEF SignInInv

\* Time only makes admissions old.
LEMMA SignInSteps == SignInInv /\ [SignInNext]_signInVars => SignInInv'
<1> SUFFICES ASSUME SignInInv, [SignInNext]_signInVars PROVE SignInInv'
  OBVIOUS
<1>1. ASSUME UNCHANGED <<hits, admitted, promised>>, loginTime' \in Nat, loginTime <= loginTime',
             DOMAIN tasks' = LoginTasks,
             \A t \in LoginTasks : tasks'[t].at = "sampled" =>
                 tasks'[t].ip \in Addresses /\ tasks'[t].now \in Nat /\ tasks'[t].now <= loginTime'
      PROVE SignInInv'
  <2>1. loginTime \in Nat /\ hits \in [Addresses -> Seq(Nat)] /\ Window \in Nat
    BY SignInAssumption DEF SignInInv, SignInShape
  <2>2. ASSUME NEW ip \in Addresses, NEW i \in DOMAIN hits[ip] PROVE hits[ip][i] <= loginTime'
    <3>1. hits[ip] \in Seq(Nat)
      BY <2>1
    <3>2. hits[ip][i] \in Nat
      BY <3>1, ElementOfSeq, LenProperties
    <3>3. hits[ip][i] <= loginTime
      BY DEF SignInInv, SignInShape
    <3> QED BY <1>1, <2>1, <3>2, <3>3
  <2>3. SignInShape'
    BY <1>1, <2>2 DEF SignInInv, SignInShape
  <2>4. \A ip : \A a \in Recent(ip)' : a \in Recent(ip)
    <3> SUFFICES ASSUME NEW ip, NEW a \in Recent(ip)' PROVE a \in Recent(ip)
      OBVIOUS
    <3>1. a \in admitted /\ a.ip = ip /\ a.at + Window > loginTime' /\ a.at \in Nat
      BY <1>1 DEF Recent, SignInInv, SignInShape
    <3> QED BY <1>1, <2>1, <3>1 DEF Recent
  <2>5. ASSUME NEW ip \in Addresses PROVE \E f : HitsOf(ip, f)'
    <3>1. PICK f : HitsOf(ip, f)
      BY DEF SignInInv, HitsKept
    <3>2. HitsOf(ip, f)'
      BY <1>1, <2>4, <3>1 DEF HitsOf
    <3> QED BY <3>2
  <2>6. AdmissionsSpaced' /\ PromisesKept'
    BY <1>1 DEF SignInInv, AdmissionsSpaced, SpacedOut, PromisesKept
  <2> QED BY <2>3, <2>5, <2>6 DEF SignInInv, HitsKept
<1>2. loginTime \in Nat /\ DOMAIN tasks = LoginTasks
  BY DEF SignInInv, SignInShape
<1>3. ASSUME UNCHANGED <<hits, admitted, promised, tasks, loginTime>> PROVE SignInInv'
  BY <1>1, <1>2, <1>3 DEF SignInInv, SignInShape
<1>4. ASSUME NEW t \in LoginTasks, NEW ip \in Addresses, LoginSample(t, ip) PROVE SignInInv'
  <2>1. PICK r : r = [at |-> "sampled", ip |-> ip, now |-> loginTime]
    OBVIOUS
  <2>2. tasks' = [tasks EXCEPT ![t] = r] /\ UNCHANGED <<hits, admitted, promised, loginTime>>
    BY <1>4, <2>1 DEF LoginSample
  <2>3. r.ip = ip /\ r.now = loginTime
    BY <2>1
  <2>4. ASSUME NEW u \in LoginTasks, tasks'[u].at = "sampled"
        PROVE tasks'[u].ip \in Addresses /\ tasks'[u].now \in Nat /\ tasks'[u].now <= loginTime'
    <3>1. CASE u = t
      BY <1>2, <2>2, <2>3, <3>1
    <3>2. CASE u # t
      BY <1>2, <2>2, <2>4, <3>2 DEF SignInInv, SignInShape
    <3> QED BY <3>1, <3>2
  <2> QED BY <1>1, <1>2, <2>2, <2>4
<1>5. CASE LoginTick
  <2>1. loginTime' = loginTime + 1 /\ UNCHANGED <<hits, admitted, promised, tasks>>
    BY <1>5 DEF LoginTick
  <2>2. ASSUME NEW u \in LoginTasks, tasks[u].at = "sampled"
        PROVE tasks[u].ip \in Addresses /\ tasks[u].now \in Nat /\ tasks[u].now <= loginTime + 1
    BY <1>2, <2>2 DEF SignInInv, SignInShape
  <2> QED BY <1>1, <1>2, <2>1, <2>2
<1>6. ASSUME NEW e, NEW p, InsertUser("u1", e, p) \/ DeleteUser("u1") PROVE SignInInv'
  BY <1>3, <1>6 DEF InsertUser, DeleteUser
<1>7. CASE UNCHANGED signInVars
  BY <1>3, <1>7 DEF signInVars
<1> QED BY <1>4, <1>5, <1>6, <1>7, LoginKeeps DEF SignInNext

\* A hit is stamped before the lock is taken, so stamps reach the bucket out of order.  For any
\* limit, window, number of clients, of requests in flight and of buckets: while its bucket is not
\* evicted, no address gets MaxHits + 1 admissions closer together than one window and the time one
\* of them waited for the lock, and an address that waits as long as it was told finds room.
THEOREM LimiterIsHonest == Spec => []RateLimitHonest
<1>1. SignInInv /\ [Next]_vars => SignInInv'
  BY SceneSteps, SignInSteps
<1>2. Init => SignInInv
  BY SignInInitial DEF Init
<1> QED BY <1>1, <1>2, SignInHonest, PTL DEF Spec
=============================================================================
