---------------------------- MODULE AuthCodeFlow ----------------------------
(***************************************************************************)
(* The identity provider's authorization-code flow: sessions and codes       *)
(* (session.rs), authorize and token (provider.rs), signing-key rotation     *)
(* (jwks.rs) and the verification of the tokens issued (verify_access_token  *)
(* of oidc/mod.rs, through userinfo).                                        *)
(*                                                                         *)
(* token is not atomic: it reads the clock, takes the code, awaits the user  *)
(* store and then signs with whatever key is active by then.                 *)
(***************************************************************************)
EXTENDS Integers, FiniteSets

CONSTANTS
    Accounts, Clients, Redirects, Verifiers, Jkts,
    SessionIds,      \* session ids
    Browsers,        \* callers of authorize
    Requests,        \* concurrent calls of token
    SessionTTL,      \* session_ttl
    CodeTTL,         \* code_ttl
    TokenTTL,        \* access_token_ttl_secs
    Retention,       \* retention of retired keys
    NoOne,           \* no session, no verifier
    MaxTime, MaxCodes, MaxKeys, MaxCalls   \* bounds

ASSUME AuthAssumption ==
    /\ NoOne \notin Accounts /\ NoOne \notin Verifiers
    /\ SessionTTL \in Nat /\ CodeTTL \in Nat /\ TokenTTL \in Nat
    /\ Retention \in Nat
    /\ MaxTime \in Nat /\ MaxCodes \in Nat /\ MaxKeys \in Nat /\ MaxCalls \in Nat

VARIABLES
    now,
    users,       \* accounts in the user store
    registered,  \* <<client, redirect_uri>> of the client store
    sessions,    \* SessionRecords
    who,         \* session_account_id each browser's request carries
    codes,       \* AuthCodeRecords
    nextCode,
    req,         \* the token request in each slot, Idle or a record
    calls,
    active, retired, nextKey,   \* JwksInner
    tokens,      \* access tokens issued
    grants,      \* history: every code ever issued
    burnt        \* history: codes taken by a request that was then refused

stores == <<users, registered, sessions>>
keys == <<active, retired, nextKey>>
vars == <<now, stores, who, codes, nextCode, req, calls, keys, tokens, grants,
          burnt>>

S256(v) == <<"S256", v>>
CodeIds == 1..MaxCodes
KeyIds == 1..MaxKeys
Times == 0..MaxTime
Codes == [id : Nat, client : Clients, account : Accounts, redirect : Redirects,
          challenge : {S256(v) : v \in Verifiers}, issued : Nat]
SessionRecords == [id : SessionIds, account : Accounts, last : Nat]
Idle == [pc |-> "idle"]
Asks == [pc : {"take"}, code : Nat, client : Clients, redirect : Redirects,
         verifier : Verifiers \cup {NoOne}, jkt : Jkts, now : Nat]
Presented == [client : Clients, redirect : Redirects, verifier : Verifiers]
Holds == [pc : {"find", "sign"}, rec : Codes, by : Presented, jkt : Jkts,
          now : Nat]
\* by is history: what the request that bought the token presented.
Tokens == [code : Nat, client : Clients, account : Accounts, by : Presented,
           jkt : Jkts, kid : Nat, exp : Nat]

\* The records of the stores, and what a token request holds on to.
TypeOK ==
    /\ now \in Nat
    /\ users \subseteq Accounts
    /\ registered \subseteq Clients \X Redirects
    /\ sessions \subseteq SessionRecords
    /\ who \in [Browsers -> Accounts \cup {NoOne}]
    /\ codes \subseteq Codes /\ grants \subseteq Codes
    /\ nextCode \in Nat \ {0} /\ calls \in Nat
    /\ req \in [Requests -> {Idle} \cup Asks \cup Holds]
    /\ active \in Nat /\ nextKey \in Nat
    /\ retired \subseteq Nat \X Nat
    /\ tokens \subseteq Tokens
    /\ burnt \subseteq Nat

Init ==
    /\ now = 0
    /\ users = Accounts
    /\ registered = {}
    /\ sessions = {}
    /\ who = [b \in Browsers |-> NoOne]
    /\ codes = {} /\ nextCode = 1
    /\ req = [r \in Requests |-> Idle]
    /\ calls = 0
    /\ active = 1 /\ retired = {} /\ nextKey = 2
    /\ tokens = {} /\ grants = {} /\ burnt = {}

----------------------------------------------------------------------------
(* Accounts, clients and sessions.                                         *)

Tick ==
    /\ now < MaxTime
    /\ now' = now + 1
    /\ UNCHANGED <<stores, who, codes, nextCode, req, calls, keys, tokens,
                   grants, burnt>>

Register(c, u) ==
    /\ registered' = registered \cup {<<c, u>>}
    /\ UNCHANGED <<now, users, sessions, who, codes, nextCode, req, calls,
                   keys, tokens, grants, burnt>>

DeleteUser(a) ==
    /\ users' = users \ {a}
    /\ UNCHANGED <<now, registered, sessions, who, codes, nextCode, req, calls,
                   keys, tokens, grants, burnt>>

CreateSession(i, a) ==
    /\ \A s \in sessions : s.id # i
    /\ sessions' = sessions \cup {[id |-> i, account |-> a, last |-> now]}
    /\ UNCHANGED <<now, users, registered, who, codes, nextCode, req, calls,
                   keys, tokens, grants, burnt>>

Revoke(i) ==
    /\ sessions' = {s \in sessions : s.id # i}
    /\ UNCHANGED <<now, users, registered, who, codes, nextCode, req, calls,
                   keys, tokens, grants, burnt>>

\* A hit slides the expiry; an idle session is removed.
Lookup(b, s) ==
    /\ s \in sessions
    /\ IF now - s.last > SessionTTL
       THEN /\ sessions' = sessions \ {s}
            /\ who' = [who EXCEPT ![b] = NoOne]
       ELSE /\ sessions' = (sessions \ {s}) \cup {[s EXCEPT !.last = now]}
            /\ who' = [who EXCEPT ![b] = s.account]
    /\ UNCHANGED <<now, users, registered, codes, nextCode, req, calls, keys,
                   tokens, grants, burnt>>

----------------------------------------------------------------------------
(* authorize and token.                                                    *)

\* Every refusal, and NeedsLogin for a request without a session, leaves no
\* trace; the session may be gone by the time the code is issued.
Authorize(b, c, u, v) ==
    /\ <<c, u>> \in registered
    /\ who[b] # NoOne /\ nextCode <= MaxCodes
    /\ LET rec == [id |-> nextCode, client |-> c, account |-> who[b],
                   redirect |-> u, challenge |-> S256(v), issued |-> now] IN
       /\ codes' = codes \cup {rec}
       /\ grants' = grants \cup {rec}
    /\ nextCode' = nextCode + 1
    /\ who' = [who EXCEPT ![b] = NoOne]
    /\ UNCHANGED <<now, stores, req, calls, keys, tokens, burnt>>

\* A request whose DPoP proof, by the key jkt, has been verified.
TokenCall(r, k, c, u, v, jkt) ==
    /\ req[r] = Idle /\ calls < MaxCalls
    /\ k < nextCode
    /\ calls' = calls + 1
    /\ req' = [req EXCEPT ![r] = [pc |-> "take", code |-> k, client |-> c,
                  redirect |-> u, verifier |-> v, jkt |-> jkt, now |-> now]]
    /\ UNCHANGED <<now, stores, who, codes, nextCode, keys, tokens, grants,
                   burnt>>

\* Mutation of Redeemable: the client of the code is not compared.
RedeemableByAny(rec, q) ==
    /\ now - rec.issued <= CodeTTL
    /\ rec.redirect = q.redirect
    /\ q.verifier # NoOne /\ rec.challenge = S256(q.verifier)

\* The expiry of the code and its bindings to the client, the redirect URI
\* and the verifier.
Redeemable(rec, q) ==
    /\ now - rec.issued <= CodeTTL
    /\ rec.client = q.client
    /\ rec.redirect = q.redirect
    /\ q.verifier # NoOne /\ rec.challenge = S256(q.verifier)

Presents(q) == [client |-> q.client, redirect |-> q.redirect,
                verifier |-> q.verifier]

\* Mutation of TakeCode: a request that is refused leaves the code in place.
PeekCode(r) ==
    /\ req[r].pc = "take"
    /\ LET q == req[r] IN
       \/ /\ \A rec \in codes : rec.id # q.code
          /\ req' = [req EXCEPT ![r] = Idle]
          /\ UNCHANGED <<codes, burnt>>
       \/ \E rec \in codes :
             /\ rec.id = q.code
             /\ IF Redeemable(rec, q)
                THEN /\ codes' = codes \ {rec}
                     /\ req' = [req EXCEPT ![r] =
                            [pc |-> "find", rec |-> rec, jkt |-> q.jkt,
                             by |-> Presents(q), now |-> q.now]]
                     /\ UNCHANGED burnt
                ELSE /\ req' = [req EXCEPT ![r] = Idle]
                     /\ burnt' = burnt \cup {rec.id}
                     /\ UNCHANGED codes
    /\ UNCHANGED <<now, stores, who, nextCode, calls, keys, tokens, grants>>

\* take_code removes the code before anything is checked.
TakeCode(r) ==
    /\ req[r].pc = "take"
    /\ LET q == req[r] IN
       \/ /\ \A rec \in codes : rec.id # q.code
          /\ req' = [req EXCEPT ![r] = Idle]
          /\ UNCHANGED <<codes, burnt>>
       \/ \E rec \in codes :
             /\ rec.id = q.code
             /\ codes' = codes \ {rec}
             /\ IF Redeemable(rec, q)
                THEN /\ req' = [req EXCEPT ![r] =
                            [pc |-> "find", rec |-> rec, jkt |-> q.jkt,
                             by |-> Presents(q), now |-> q.now]]
                     /\ UNCHANGED burnt
                ELSE /\ req' = [req EXCEPT ![r] = Idle]
                     /\ burnt' = burnt \cup {rec.id}
    /\ UNCHANGED <<now, stores, who, nextCode, calls, keys, tokens, grants>>

FindUser(r) ==
    /\ req[r].pc = "find"
    /\ IF req[r].rec.account \in users
       THEN /\ req' = [req EXCEPT ![r].pc = "sign"]
            /\ UNCHANGED burnt
       ELSE /\ req' = [req EXCEPT ![r] = Idle]
            /\ burnt' = burnt \cup {req[r].rec.id}
    /\ UNCHANGED <<now, stores, who, codes, nextCode, calls, keys, tokens,
                   grants>>

\* The token counts its life from the start of the request.
SignToken(r) ==
    /\ req[r].pc = "sign"
    /\ tokens' = tokens \cup
          {[code |-> req[r].rec.id, client |-> req[r].rec.client,
            account |-> req[r].rec.account, by |-> req[r].by,
            jkt |-> req[r].jkt, kid |-> active,
            exp |-> req[r].now + TokenTTL]}
    /\ req' = [req EXCEPT ![r] = Idle]
    /\ UNCHANGED <<now, stores, who, codes, nextCode, calls, keys, grants,
                   burnt>>

----------------------------------------------------------------------------
(* Keys.                                                                   *)

\* Mutation of Rotate: only the key just retired is kept.
RotateKeepingOne ==
    /\ nextKey <= MaxKeys
    /\ active' = nextKey
    /\ nextKey' = nextKey + 1
    /\ retired' = {<<active, now>>}
    /\ UNCHANGED <<now, stores, who, codes, nextCode, req, calls, tokens,
                   grants, burnt>>

Rotate ==
    /\ nextKey <= MaxKeys
    /\ active' = nextKey
    /\ nextKey' = nextKey + 1
    /\ retired' = retired \cup {<<active, now>>}
    /\ UNCHANGED <<now, stores, who, codes, nextCode, req, calls, tokens,
                   grants, burnt>>

PruneExpired ==
    /\ retired' = {k \in retired : now - k[2] < Retention}
    /\ UNCHANGED <<now, stores, who, codes, nextCode, req, calls, active,
                   nextKey, tokens, grants, burnt>>

\* public_document
Published == {active} \cup {k[1] : k \in retired}

\* verify_access_token against the published keys.
Verifies(t, jkt) == t.kid \in Published /\ t.exp >= now /\ t.jkt = jkt

Next ==
    \/ Tick
    \/ \E c \in Clients, u \in Redirects : Register(c, u)
    \/ \E a \in Accounts : DeleteUser(a)
    \/ \E i \in SessionIds : Revoke(i) \/ \E a \in Accounts : CreateSession(i, a)
    \/ \E b \in Browsers, s \in sessions : Lookup(b, s)
    \/ \E b \in Browsers, c \in Clients, u \in Redirects, v \in Verifiers :
          Authorize(b, c, u, v)
    \/ \E r \in Requests, k \in CodeIds, c \in Clients, u \in Redirects,
          v \in Verifiers \cup {NoOne}, j \in Jkts : TokenCall(r, k, c, u, v, j)
    \/ \E r \in Requests : TakeCode(r) \/ FindUser(r) \/ SignToken(r)
    \/ Rotate \/ PruneExpired

Spec == Init /\ [][Next]_vars

----------------------------------------------------------------------------
(* Properties.                                                             *)

TokensFor(k) == {t \in tokens : t.code = k}
HoldersOf(k) == {r \in Requests : req[r].pc \in {"find", "sign"} /\ req[r].rec.id = k}

\* However requests race for a code, it is spent by the first that takes it:
\* it buys at most one token, and a request that took it and was refused
\* leaves nothing for a second try.
CodeSpentOnce == TypeOK /\
    \A g \in grants :
        Cardinality(TokensFor(g.id)) + Cardinality(HoldersOf(g.id))
            + Cardinality({k \in burnt : k = g.id})
            + Cardinality({c \in codes : c.id = g.id}) <= 1

\* A token is what some authorization granted: it names the client and the
\* account of the code, and the request that bought it presented that client,
\* that redirect URI and the verifier of that code's challenge.
TokenMatchesGrant ==
    \A t \in tokens : \E g \in grants :
        /\ g.id = t.code /\ g.client = t.client /\ g.account = t.account
        /\ g.client = t.by.client /\ g.redirect = t.by.redirect
        /\ g.challenge = S256(t.by.verifier)

\* Rotating and pruning the keys never cuts off a token before it expires,
\* as long as retired keys are retained for longer than tokens live.
LiveTokenVerifies ==
    \A t \in tokens : t.exp >= now => Verifies(t, t.jkt)
=============================================================================
