---------------------------- MODULE KeyRollover -----------------------------
(***************************************************************************)
(* Signing keys of an identity provider (Jwks in the idp crate) and the       *)
(* cache a pod server reads them through (CachedFetcher in oidc/jwks.rs).     *)
(* A fetch asks for the discovery document, then for the key set, each        *)
(* request within FetchTimeout.  The cache of discovery documents is of the   *)
(* same make; fetch_jwks does not read it.                                  *)
(***************************************************************************)
EXTENDS Chains

CONSTANTS
    Fetches,        \* fetches that can be in flight together
    CacheTtl,       \* DEFAULT_CACHE_TTL
    FetchTimeout,   \* FETCH_TIMEOUT
    Retention,      \* how long a retired key stays published
    MaxKeys,        \* bound: keys generated
    KeyHorizon      \* bound: last tick

ASSUME KeyAssumption == {CacheTtl, FetchTimeout, Retention} \subseteq Nat /\ MaxKeys \in Nat \ {0}

VARIABLES
    keyTime,     \* the clock
    active,      \* the issuer's signing key; keys are numbered
    retired,     \* <<key, since>> for every key retired and still published
    fetches,     \* fetch -> what it is doing
    cache,       \* the cached key set and when it came
    withdrawn    \* history: key -> when the issuer stopped publishing it

keyVars == <<keyTime, active, retired, fetches, cache, withdrawn>>

NoFetch == [at |-> "idle"]

KeyInit ==
    /\ keyTime = 0 /\ active = 1 /\ retired = {}
    /\ fetches = [f \in Fetches |-> NoFetch]
    /\ cache = None
    /\ withdrawn = [k \in 1..MaxKeys |-> None]

----------------------------------------------------------------------------
(* The issuer.                                                             *)

\* public_document: the active key and every retired one
PublicDocument == {active} \cup {e[1] : e \in retired}

\* rotate, insert_signing_key: the old key is retired now
Rotate ==
    /\ active < MaxKeys
    /\ active' = active + 1
    /\ retired' = retired \cup {<<active, keyTime>>}
    /\ UNCHANGED <<keyTime, fetches, cache, withdrawn>>

\* prune_expired
PruneExpired ==
    LET kept == {e \in retired : keyTime - e[2] < Retention}
        gone == {e[1] : e \in retired \ kept}
    IN
    /\ gone # {}
    /\ retired' = kept
    /\ withdrawn' = [k \in DOMAIN withdrawn |->
           IF k \in gone THEN Some(keyTime) ELSE withdrawn[k]]
    /\ UNCHANGED <<keyTime, active, fetches, cache>>

----------------------------------------------------------------------------
(* The pod server.                                                         *)

\* Mutation of CacheGet: an entry never grows old.
CacheGetForever == {e.keys : e \in cache}
\* JwksCache::get
CacheGet == {e.keys : e \in {c \in cache : keyTime - c.fetched <= CacheTtl}}

\* jwks: a fresh entry is served, else the discovery document is asked for,
\* once the guard on outbound addresses lets the issuer pass
FetchStart(f) ==
    /\ fetches[f].at = "idle" /\ CacheGet = None
    /\ fetches' = [fetches EXCEPT ![f] = [at |-> "discovery", since |-> keyTime]]
    /\ UNCHANGED <<keyTime, active, retired, cache, withdrawn>>

\* fetch_oidc_config: the document is in time and names this issuer; fetch_jwks
\* asks for the key set next
FetchConfig(f) ==
    /\ fetches[f].at = "discovery" /\ keyTime - fetches[f].since <= FetchTimeout
    /\ fetches' = [fetches EXCEPT ![f] = [at |-> "jwks", since |-> keyTime]]
    /\ UNCHANGED <<keyTime, active, retired, cache, withdrawn>>

\* the issuer answers with the keys it publishes then
IssuerAnswers(f) ==
    /\ fetches[f].at = "jwks"
    /\ fetches' = [fetches EXCEPT ![f] =
           [at |-> "answer", since |-> fetches[f].since, keys |-> PublicDocument]]
    /\ UNCHANGED <<keyTime, active, retired, cache, withdrawn>>

\* fetch_jwks returns and jwks puts the set, stamped now, over whatever is
\* cached by now
FetchJwks(f) ==
    /\ fetches[f].at = "answer" /\ keyTime - fetches[f].since <= FetchTimeout
    /\ fetches' = [fetches EXCEPT ![f] = NoFetch]
    /\ cache' = Some([fetched |-> keyTime, keys |-> fetches[f].keys])
    /\ UNCHANGED <<keyTime, active, retired, withdrawn>>

\* timeout, a refused address, a status or body that is no success, or another
\* issuer in the document: nothing is cached
FetchFails(f) ==
    /\ fetches[f].at # "idle"
    /\ fetches' = [fetches EXCEPT ![f] = NoFetch]
    /\ UNCHANGED <<keyTime, active, retired, cache, withdrawn>>

KeyTick ==
    /\ keyTime < KeyHorizon
    /\ keyTime' = keyTime + 1
    /\ UNCHANGED <<active, retired, fetches, cache, withdrawn>>

KeyNext ==
    \/ Rotate \/ PruneExpired \/ KeyTick
    \/ \E f \in Fetches :
           \/ FetchStart(f) \/ FetchConfig(f) \/ IssuerAnswers(f) \/ FetchJwks(f) \/ FetchFails(f)

----------------------------------------------------------------------------

\* A slow fetch may put an older key set over a newer one, with a new stamp.
\* Even so, no key set served from the cache still holds a key the issuer
\* withdrew longer ago than the lifetime of an entry and one request.
StaleKeysBounded ==
    \A keys \in CacheGet : \A k \in keys : \A t \in withdrawn[k] :
        keyTime - t <= CacheTtl + FetchTimeout
=============================================================================
