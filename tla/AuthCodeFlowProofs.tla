------------------------- MODULE AuthCodeFlowProofs -------------------------
(***************************************************************************)
(* Proofs about AuthCodeFlow, for any number of browsers, token requests,    *)
(* clients, codes and keys, and any lifetimes.                               *)
(***************************************************************************)
EXTENDS AuthCodeFlow, FiniteSetTheorems, TLAPS

Holding(r) == req[r].pc \in {"find", "sign"}

\* Every code was issued once, under a number of its own.
GrantsNumbered ==
    /\ \A g \in grants : g.id < nextCode
    /\ \A g, h \in grants : g.id = h.id => g = h
    /\ codes \subseteq grants

\* A request that took a code holds what was granted, and presented its client,
\* redirect URI and verifier.
HoldersMatch ==
    \A r \in Requests : Holding(r) =>
        LET rec == req[r].rec IN
        /\ rec \in grants
        /\ rec.client = req[r].by.client /\ rec.redirect = req[r].by.redirect
        /\ rec.challenge = S256(req[r].by.verifier)

\* A code is in one place: the store, one request, the refused ones, one token.
OnePlace ==
    /\ \A c \in codes : c.id \notin burnt /\ \A t \in tokens : t.code # c.id
    /\ \A r \in Requests : Holding(r) =>
          /\ \A c \in codes : c.id # req[r].rec.id
          /\ req[r].rec.id \notin burnt
          /\ \A t \in tokens : t.code # req[r].rec.id
          /\ \A s \in Requests : Holding(s) /\ req[s].rec.id = req[r].rec.id => s = r
    /\ \A t \in tokens : t.code \notin burnt
    /\ \A t, u \in tokens : t.code = u.code => t = u

\* Codes that were refused or sold had been issued.
SpentWereIssued ==
    /\ \A k \in burnt : k < nextCode
    /\ \A t \in tokens : t.code < nextCode

CodeInv ==
    /\ TypeOK /\ GrantsNumbered /\ HoldersMatch /\ OnePlace /\ SpentWereIssued
    /\ TokenMatchesGrant

\* Every action keeps the types.
LEMMA TypePreserved == TypeOK /\ [Next]_vars => TypeOK'
<1> SUFFICES ASSUME TypeOK, [Next]_vars PROVE TypeOK'
  OBVIOUS
<1> USE AuthAssumption DEF TypeOK
<1>1. CASE Tick
  BY <1>1 DEF Tick, stores, keys
<1>2. ASSUME NEW c \in Clients, NEW u \in Redirects, Register(c, u) PROVE TypeOK'
  BY <1>2 DEF Register, keys
<1>3. ASSUME NEW a \in Accounts, DeleteUser(a) PROVE TypeOK'
  BY <1>3 DEF DeleteUser, keys
<1>4. ASSUME NEW i \in SessionIds, Revoke(i) PROVE TypeOK'
  BY <1>4 DEF Revoke, keys
<1>5. ASSUME NEW i \in SessionIds, NEW a \in Accounts, CreateSession(i, a) PROVE TypeOK'
  BY <1>5 DEF CreateSession, keys, SessionRecords
<1>6. ASSUME NEW b \in Browsers, NEW s \in sessions, Lookup(b, s) PROVE TypeOK'
  <2>1. s \in SessionRecords /\ [s EXCEPT !.last = now] \in SessionRecords
        /\ s.account \in Accounts
    BY DEF SessionRecords
  <2>2. sessions' \subseteq SessionRecords /\ who' \in [Browsers -> Accounts \cup {NoOne}]
    BY <1>6, <2>1 DEF Lookup
  <2> QED
    BY <1>6, <2>2 DEF Lookup, keys
<1>7. ASSUME NEW b \in Browsers, NEW c \in Clients, NEW u \in Redirects, NEW v \in Verifiers,
             Authorize(b, c, u, v)
      PROVE  TypeOK'
  <2>1. [id |-> nextCode, client |-> c, account |-> who[b], redirect |-> u,
         challenge |-> S256(v), issued |-> now] \in Codes
    BY <1>7 DEF Authorize, Codes
  <2> QED
    BY <1>7, <2>1 DEF Authorize, stores, keys
<1>8. ASSUME NEW r \in Requests, NEW k \in CodeIds, NEW c \in Clients, NEW u \in Redirects,
             NEW v \in Verifiers \cup {NoOne}, NEW j \in Jkts, TokenCall(r, k, c, u, v, j)
      PROVE  TypeOK'
  <2>1. [pc |-> "take", code |-> k, client |-> c, redirect |-> u, verifier |-> v,
         jkt |-> j, now |-> now] \in Asks
    BY DEF Asks, CodeIds
  <2> QED
    BY <1>8, <2>1 DEF TokenCall, stores, keys
<1>9. ASSUME NEW r \in Requests, TakeCode(r) PROVE TypeOK'
  <2>1. req[r] \in Asks
    BY <1>9 DEF TakeCode, Idle, Holds, Asks
  <2>2. ASSUME NEW rec \in codes, Redeemable(rec, req[r])
        PROVE  [pc |-> "find", rec |-> rec, jkt |-> req[r].jkt, by |-> Presents(req[r]),
                now |-> req[r].now] \in Holds
    BY <2>1, <2>2 DEF Redeemable, Presents, Asks, Holds, Presented
  <2>3. \A rec \in codes : rec.id \in Nat
    BY DEF Codes
  <2>4. req' \in [Requests -> {Idle} \cup Asks \cup Holds] /\ codes' \subseteq Codes
        /\ burnt' \subseteq Nat
    BY <1>9, <2>2, <2>3 DEF TakeCode
  <2> QED
    BY <1>9, <2>4 DEF TakeCode, stores, keys
<1>10. ASSUME NEW r \in Requests, FindUser(r) PROVE TypeOK'
  <2>1. req[r] \in Holds /\ req[r].rec.id \in Nat
    BY <1>10 DEF FindUser, Idle, Holds, Asks, Codes
  <2>2. [req[r] EXCEPT !.pc = "sign"] \in Holds
    BY <2>1 DEF Holds
  <2> QED
    BY <1>10, <2>1, <2>2 DEF FindUser, stores, keys
<1>11. ASSUME NEW r \in Requests, SignToken(r) PROVE TypeOK'
  <2>1. req[r] \in Holds
    BY <1>11 DEF SignToken, Idle, Holds, Asks
  <2>2. [code |-> req[r].rec.id, client |-> req[r].rec.client, account |-> req[r].rec.account,
         by |-> req[r].by, jkt |-> req[r].jkt, kid |-> active,
         exp |-> req[r].now + TokenTTL] \in Tokens
    BY <2>1 DEF Holds, Tokens, Codes
  <2> QED
    BY <1>11, <2>2 DEF SignToken, stores, keys
<1>12. CASE Rotate
  BY <1>12 DEF Rotate, stores
<1>13. CASE PruneExpired
  BY <1>13 DEF PruneExpired, stores
<1>14. CASE UNCHANGED vars
  BY <1>14 DEF vars, stores, keys
<1> QED
  BY <1>1, <1>2, <1>3, <1>4, <1>5, <1>6, <1>7, <1>8, <1>9, <1>10, <1>11, <1>12, <1>13, <1>14
  DEF Next

\* What only the code's own actions touch.
codeVars == <<codes, nextCode, req, tokens, grants, burnt>>

LEMMA CodeStep ==
  [Next]_vars =>
      \/ UNCHANGED codeVars
      \/ \E b \in Browsers, c \in Clients, u \in Redirects, v \in Verifiers : Authorize(b, c, u, v)
      \/ \E r \in Requests, k \in CodeIds, c \in Clients, u \in Redirects,
            v \in Verifiers \cup {NoOne}, j \in Jkts : TokenCall(r, k, c, u, v, j)
      \/ \E r \in Requests : TakeCode(r) \/ FindUser(r) \/ SignToken(r)
<1> SUFFICES ASSUME [Next]_vars PROVE
      \/ UNCHANGED codeVars
      \/ \E b \in Browsers, c \in Clients, u \in Redirects, v \in Verifiers : Authorize(b, c, u, v)
      \/ \E r \in Requests, k \in CodeIds, c \in Clients, u \in Redirects,
            v \in Verifiers \cup {NoOne}, j \in Jkts : TokenCall(r, k, c, u, v, j)
      \/ \E r \in Requests : TakeCode(r) \/ FindUser(r) \/ SignToken(r)
  OBVIOUS
<1>1. CASE Tick \/ Rotate \/ PruneExpired
  BY <1>1 DEF Tick, Rotate, PruneExpired, codeVars
<1>2. ASSUME NEW c \in Clients, NEW u \in Redirects, Register(c, u) PROVE UNCHANGED codeVars
  BY <1>2 DEF Register, codeVars
<1>3. ASSUME NEW a \in Accounts, DeleteUser(a) PROVE UNCHANGED codeVars
  BY <1>3 DEF DeleteUser, codeVars
<1>4. ASSUME NEW i \in SessionIds, Revoke(i) \/ \E a \in Accounts : CreateSession(i, a)
      PROVE  UNCHANGED codeVars
  BY <1>4 DEF Revoke, CreateSession, codeVars
<1>5. ASSUME NEW b \in Browsers, NEW s \in sessions, Lookup(b, s) PROVE UNCHANGED codeVars
  BY <1>5 DEF Lookup, codeVars
<1>6. CASE UNCHANGED vars
  BY <1>6 DEF vars, codeVars
<1> QED
  BY <1>1, <1>2, <1>3, <1>4, <1>5, <1>6 DEF Next

\* What a request holds, by its program counter.
LEMMA RequestTypes ==
  ASSUME TypeOK, NEW r \in Requests
  PROVE  /\ req[r].pc = "take" => req[r] \in Asks
         /\ Holding(r) => req[r] \in Holds /\ req[r].rec \in Codes /\ req[r].rec.id \in Nat
         /\ req[r] = Idle => ~Holding(r)
  BY DEF TypeOK, Idle, Asks, Holds, Holding, Codes

LEMMA CodePreserved == CodeInv /\ [Next]_vars => CodeInv'
<1> SUFFICES ASSUME CodeInv, [Next]_vars PROVE CodeInv'
  OBVIOUS
<1> USE DEF CodeInv
<1>0. TypeOK /\ TypeOK'
  BY TypePreserved
<1>t. /\ nextCode \in Nat /\ req \in [Requests -> {Idle} \cup Asks \cup Holds]
      /\ codes \subseteq Codes /\ grants \subseteq Codes /\ tokens \subseteq Tokens
      /\ burnt \subseteq Nat
      /\ \A c \in Codes : c.id \in Nat
      /\ \A t \in Tokens : t.code \in Nat
  BY <1>0 DEF TypeOK, Codes, Tokens
<1>1. CASE UNCHANGED codeVars
  BY <1>0, <1>1 DEF codeVars, GrantsNumbered, HoldersMatch, OnePlace, SpentWereIssued,
     TokenMatchesGrant, Holding
<1>2. ASSUME NEW b \in Browsers, NEW c \in Clients, NEW u \in Redirects, NEW v \in Verifiers,
             Authorize(b, c, u, v)
      PROVE  CodeInv'
  <2> DEFINE new == [id |-> nextCode, client |-> c, account |-> who[b], redirect |-> u,
                     challenge |-> S256(v), issued |-> now]
  <2>1. /\ codes' = codes \cup {new} /\ grants' = grants \cup {new} /\ nextCode' = nextCode + 1
        /\ req' = req /\ tokens' = tokens /\ burnt' = burnt /\ new.id = nextCode
    BY <1>2 DEF Authorize
  <2> HIDE DEF new
  <2>2. GrantsNumbered'
    BY <1>t, <2>1 DEF GrantsNumbered
  <2>3. HoldersMatch' /\ TokenMatchesGrant'
    BY <2>1 DEF HoldersMatch, TokenMatchesGrant, Holding
  <2>4. \A r \in Requests : Holding(r) => req[r].rec.id # nextCode
    BY <1>0, <1>t, RequestTypes DEF HoldersMatch, GrantsNumbered
  <2>5. nextCode \notin burnt /\ \A t \in tokens : t.code # nextCode
    BY <1>t DEF SpentWereIssued
  <2>6. OnePlace'
    BY <2>1, <2>4, <2>5 DEF OnePlace, Holding
  <2>7. SpentWereIssued'
    BY <1>t, <2>1 DEF SpentWereIssued
  <2> QED
    BY <1>0, <2>2, <2>3, <2>6, <2>7
<1>3. ASSUME NEW r \in Requests, NEW k \in CodeIds, NEW c \in Clients, NEW u \in Redirects,
             NEW v \in Verifiers \cup {NoOne}, NEW j \in Jkts, TokenCall(r, k, c, u, v, j)
      PROVE  CodeInv'
  <2>1. /\ UNCHANGED <<codes, nextCode, tokens, grants, burnt>>
        /\ req' = [req EXCEPT ![r] = req'[r]] /\ req'[r].pc = "take"
    BY <1>3, <1>t DEF TokenCall
  <2>2. \A s \in Requests : /\ Holding(s)' => Holding(s) /\ req'[s] = req[s]
    BY <1>t, <2>1 DEF Holding
  <2> QED
    BY <1>0, <2>1, <2>2 DEF GrantsNumbered, HoldersMatch, OnePlace, SpentWereIssued,
       TokenMatchesGrant
<1> DEFINE Freed(r) ==
      \A s \in Requests : Holding(s)' => s # r /\ Holding(s) /\ req'[s] = req[s]
<1>4. ASSUME NEW r \in Requests, req' = [req EXCEPT ![r] = Idle]
      PROVE  Freed(r)
  BY <1>t, <1>4 DEF Holding, Idle
<1>5. ASSUME NEW r \in Requests, TakeCode(r) PROVE CodeInv'
  <2>0. UNCHANGED <<nextCode, tokens, grants>> /\ req[r].pc = "take"
    BY <1>5 DEF TakeCode
  <2>1. CASE req' = [req EXCEPT ![r] = Idle] /\ UNCHANGED <<codes, burnt>>
    <3>1. Freed(r)
      BY <1>4, <2>1
    <3> QED
      BY <1>0, <2>0, <2>1, <3>1 DEF GrantsNumbered, HoldersMatch, OnePlace, SpentWereIssued,
       TokenMatchesGrant
  <2>2. ASSUME NEW rec \in codes, codes' = codes \ {rec},
               req' = [req EXCEPT ![r] = Idle], burnt' = burnt \cup {rec.id}
        PROVE  CodeInv'
    <3>0. Freed(r)
      BY <1>4, <2>2
    <3>1. GrantsNumbered' /\ HoldersMatch' /\ TokenMatchesGrant'
      BY <2>0, <2>2, <3>0 DEF GrantsNumbered, HoldersMatch, TokenMatchesGrant
    <3>2. \A c \in codes' : c.id # rec.id
      BY <2>2 DEF GrantsNumbered
    <3>3. OnePlace'
      BY <2>0, <2>2, <3>0, <3>2 DEF OnePlace
    <3>4. SpentWereIssued'
      BY <2>0, <2>2 DEF SpentWereIssued, GrantsNumbered
    <3> QED
      BY <1>0, <3>1, <3>3, <3>4
  <2>3. ASSUME NEW rec \in codes, Redeemable(rec, req[r]), codes' = codes \ {rec}, burnt' = burnt,
               req' = [req EXCEPT ![r] = [pc |-> "find", rec |-> rec, jkt |-> req[r].jkt,
                                          by |-> Presents(req[r]), now |-> req[r].now]]
        PROVE  CodeInv'
    <3>1. /\ Holding(r)' /\ req'[r].rec = rec /\ req'[r].by = Presents(req[r])
          /\ \A s \in Requests : s # r => req'[s] = req[s] /\ (Holding(s)' <=> Holding(s))
      BY <1>t, <2>3 DEF Holding
    <3>2. GrantsNumbered' /\ TokenMatchesGrant' /\ SpentWereIssued'
      BY <2>0, <2>3 DEF GrantsNumbered, TokenMatchesGrant, SpentWereIssued
    <3>3. HoldersMatch'
      <4>1. /\ rec \in grants /\ rec.client = Presents(req[r]).client
            /\ rec.redirect = Presents(req[r]).redirect
            /\ rec.challenge = S256(Presents(req[r]).verifier)
        BY <2>3 DEF GrantsNumbered, Redeemable, Presents
      <4> QED
        BY <2>0, <3>1, <4>1 DEF HoldersMatch
    <3>4. \A c \in codes' : c.id # rec.id
      BY <2>3 DEF GrantsNumbered
    <3>5. OnePlace'
      BY <2>0, <2>3, <3>1, <3>4 DEF OnePlace
    <3> QED
      BY <1>0, <3>2, <3>3, <3>5
  <2> QED
    BY <1>5, <2>1, <2>2, <2>3 DEF TakeCode
<1>6. ASSUME NEW r \in Requests, FindUser(r) PROVE CodeInv'
  <2>0. UNCHANGED <<codes, nextCode, tokens, grants>> /\ Holding(r) /\ req[r] \in Holds
    BY <1>0, <1>6, RequestTypes DEF FindUser, Holding
  <2>1. CASE req' = [req EXCEPT ![r].pc = "sign"] /\ burnt' = burnt
    <3>1. \A s \in Requests : /\ Holding(s)' <=> Holding(s)
                              /\ Holding(s) => req'[s].rec = req[s].rec /\ req'[s].by = req[s].by
      BY <1>t, <2>0, <2>1 DEF Holding, Holds
    <3> QED
      BY <1>0, <2>0, <2>1, <3>1 DEF GrantsNumbered, HoldersMatch, OnePlace, SpentWereIssued,
         TokenMatchesGrant
  <2>2. CASE req' = [req EXCEPT ![r] = Idle] /\ burnt' = burnt \cup {req[r].rec.id}
    <3>0. Freed(r)
      BY <1>4, <2>2
    <3>1. GrantsNumbered' /\ HoldersMatch' /\ TokenMatchesGrant'
      BY <2>0, <2>2, <3>0 DEF GrantsNumbered, HoldersMatch, TokenMatchesGrant
    <3>2. OnePlace'
      BY <2>0, <2>2, <3>0 DEF OnePlace
    <3>3. SpentWereIssued'
      BY <2>0, <2>2 DEF SpentWereIssued, HoldersMatch, GrantsNumbered
    <3> QED
      BY <1>0, <3>1, <3>2, <3>3
  <2> QED
    BY <1>6, <2>1, <2>2 DEF FindUser
<1>7. ASSUME NEW r \in Requests, SignToken(r) PROVE CodeInv'
  <2> DEFINE tok == [code |-> req[r].rec.id, client |-> req[r].rec.client,
                     account |-> req[r].rec.account, by |-> req[r].by, jkt |-> req[r].jkt,
                     kid |-> active, exp |-> req[r].now + TokenTTL]
  <2>0. /\ UNCHANGED <<codes, nextCode, grants, burnt>> /\ Holding(r)
        /\ tokens' = tokens \cup {tok} /\ req' = [req EXCEPT ![r] = Idle]
        /\ tok.code = req[r].rec.id /\ tok.client = req[r].rec.client
        /\ tok.account = req[r].rec.account /\ tok.by = req[r].by
    BY <1>7 DEF SignToken, Holding
  <2> HIDE DEF tok
  <2>f. Freed(r)
    BY <1>4, <2>0
  <2>1. GrantsNumbered' /\ HoldersMatch'
    BY <2>0, <2>f DEF GrantsNumbered, HoldersMatch
  <2>2. TokenMatchesGrant'
    BY <2>0 DEF TokenMatchesGrant, HoldersMatch
  <2>3. OnePlace'
    BY <2>0, <2>f DEF OnePlace
  <2>4. SpentWereIssued'
    BY <2>0 DEF SpentWereIssued, HoldersMatch, GrantsNumbered
  <2> QED
    BY <1>0, <2>1, <2>2, <2>3, <2>4
<1> QED
  BY <1>1, <1>2, <1>3, <1>5, <1>6, <1>7, CodeStep

LEMMA CodeInvariant == Spec => []CodeInv
<1>1. Init => CodeInv
  BY AuthAssumption DEF Init, CodeInv, TypeOK, GrantsNumbered, HoldersMatch, OnePlace,
     SpentWereIssued, TokenMatchesGrant, Holding, Idle
<1> QED
  BY <1>1, CodePreserved, PTL DEF Spec

\* A set without two different elements has at most one.
LEMMA AtMostOne ==
  ASSUME NEW S, \A x, y \in S : x = y
  PROVE  Cardinality(S) = IF S = {} THEN 0 ELSE 1
<1>1. CASE S = {}
  BY <1>1, FS_EmptySet
<1>2. ASSUME NEW e \in S PROVE S = {e} /\ Cardinality({e}) = 1
  BY FS_Singleton
<1> QED
  BY <1>1, <1>2

\* The state of the stores, of every token request and of the keys keeps its
\* types.
THEOREM AuthTypeCorrect == Spec => []TypeOK
<1>1. CodeInv => TypeOK
  BY DEF CodeInv
<1> QED
  BY <1>1, CodeInvariant, PTL

\* take_code removes a code before anything is checked: whatever number of
\* requests race for it, it buys at most one token and survives no refusal.
THEOREM EachCodeSpentOnce == Spec => []CodeSpentOnce
<1>1. ASSUME CodeInv PROVE CodeSpentOnce
  <2> SUFFICES ASSUME NEW g \in grants
        PROVE Cardinality(TokensFor(g.id)) + Cardinality(HoldersOf(g.id))
                + Cardinality({k \in burnt : k = g.id})
                + Cardinality({c \in codes : c.id = g.id}) <= 1
    BY <1>1 DEF CodeSpentOnce, CodeInv
  <2> DEFINE A == TokensFor(g.id)
             B == HoldersOf(g.id)
             C == {k \in burnt : k = g.id}
             D == {c \in codes : c.id = g.id}
  <2>1. Cardinality(A) = IF A = {} THEN 0 ELSE 1
    <3>1. \A x, y \in A : x = y
      BY <1>1 DEF CodeInv, OnePlace, TokensFor
    <3> HIDE DEF A
    <3> QED
      BY <3>1, AtMostOne
  <2>2. Cardinality(B) = IF B = {} THEN 0 ELSE 1
    <3>1. \A x, y \in B : x = y
      BY <1>1 DEF CodeInv, OnePlace, HoldersOf, Holding
    <3> HIDE DEF B
    <3> QED
      BY <3>1, AtMostOne
  <2>3. Cardinality(C) = IF C = {} THEN 0 ELSE 1
    <3>1. \A x, y \in C : x = y
      OBVIOUS
    <3> HIDE DEF C
    <3> QED
      BY <3>1, AtMostOne
  <2>4. Cardinality(D) = IF D = {} THEN 0 ELSE 1
    <3>1. \A x, y \in D : x = y
      BY <1>1 DEF CodeInv, GrantsNumbered
    <3> HIDE DEF D
    <3> QED
      BY <3>1, AtMostOne
  <2>5. /\ A # {} => B = {} /\ C = {} /\ D = {}
        /\ B # {} => C = {} /\ D = {}
        /\ C # {} => D = {}
    BY <1>1 DEF CodeInv, OnePlace, TokensFor, HoldersOf, Holding
  <2> HIDE DEF A, B, C, D
  <2>6. Cardinality(A) + Cardinality(B) + Cardinality(C) + Cardinality(D) <= 1
    BY <2>1, <2>2, <2>3, <2>4, <2>5
  <2> QED
    BY <2>6 DEF A, B, C, D
<1> QED
  BY <1>1, CodeInvariant, PTL

\* token binds what it issues to the code: a token names the client and account
\* of one authorization, and was bought with its client, redirect URI and
\* verifier, whichever requests ran in between.
THEOREM TokensMatchGrants == Spec => []TokenMatchesGrant
<1>1. CodeInv => TokenMatchesGrant
  BY DEF CodeInv
<1> QED
  BY <1>1, CodeInvariant, PTL

\* A token that has not expired was signed by the active key, or by one retired
\* so recently that the token expires within its lifetime after that.
LiveKeysPublished ==
    /\ \A r \in Requests : req[r] # Idle => req[r].now <= now
    /\ \A t \in tokens :
          \/ t.exp < now
          \/ t.kid = active /\ t.exp <= now + TokenTTL
          \/ \E k \in retired : k[1] = t.kid /\ t.exp <= k[2] + TokenTTL

\* Rotation keeps the old key published and prune_expired drops it only when
\* retention is over: if retention exceeds the life of tokens, no rotation or
\* pruning, however it falls between the steps of token, makes
\* verify_access_token refuse a token that has not expired.
THEOREM LiveTokensVerify == ASSUME TokenTTL < Retention PROVE Spec => []LiveTokenVerifies
<1>1. Init => LiveKeysPublished
  BY DEF Init, LiveKeysPublished
<1>2. ASSUME TypeOK, TypeOK', LiveKeysPublished, [Next]_vars PROVE LiveKeysPublished'
  <2> USE <1>2, AuthAssumption
  <2>t. /\ now \in Nat /\ now' \in Nat /\ active \in Nat /\ retired \subseteq Nat \X Nat
        /\ req \in [Requests -> {Idle} \cup Asks \cup Holds]
        /\ \A t \in tokens : t.exp \in Nat
        /\ \A r \in Requests : req[r] # Idle => req[r].now \in Nat
        /\ \A k \in retired : k = <<k[1], k[2]>> /\ k[1] \in Nat /\ k[2] \in Nat
    BY DEF TypeOK, Tokens, Asks, Holds, Idle
  <2> DEFINE Same == tokens' = tokens /\ active' = active /\ retired' = retired
  <2>1. CASE Tick
    <3>1. now' = now + 1 /\ Same /\ req' = req
      BY <2>1 DEF Tick, keys
    <3> QED
      BY <2>t, <3>1 DEF LiveKeysPublished
  <2>2. ASSUME now' = now, Same,
               \A r \in Requests : req'[r] # Idle => req'[r].now <= now
        PROVE  LiveKeysPublished'
    BY <2>2 DEF LiveKeysPublished
  <2>3. ASSUME now' = now, Same, req' = req PROVE LiveKeysPublished'
    BY <2>2, <2>3 DEF LiveKeysPublished
  <2>4. ASSUME NEW c \in Clients, NEW u \in Redirects, Register(c, u) PROVE LiveKeysPublished'
    BY <2>3, <2>4 DEF Register, keys
  <2>5. ASSUME NEW a \in Accounts, DeleteUser(a) PROVE LiveKeysPublished'
    BY <2>3, <2>5 DEF DeleteUser, keys
  <2>6. ASSUME NEW i \in SessionIds, Revoke(i) \/ \E a \in Accounts : CreateSession(i, a)
        PROVE  LiveKeysPublished'
    BY <2>3, <2>6 DEF Revoke, CreateSession, keys
  <2>7. ASSUME NEW b \in Browsers, NEW s \in sessions, Lookup(b, s) PROVE LiveKeysPublished'
    BY <2>3, <2>7 DEF Lookup, keys
  <2>8. ASSUME NEW b \in Browsers, NEW c \in Clients, NEW u \in Redirects, NEW v \in Verifiers,
               Authorize(b, c, u, v)
        PROVE  LiveKeysPublished'
    BY <2>3, <2>8 DEF Authorize, keys
  <2>9. ASSUME NEW r \in Requests, NEW k \in CodeIds, NEW c \in Clients, NEW u \in Redirects,
               NEW v \in Verifiers \cup {NoOne}, NEW j \in Jkts, TokenCall(r, k, c, u, v, j)
        PROVE  LiveKeysPublished'
    <3>1. now' = now /\ Same
      BY <2>9 DEF TokenCall, keys
    <3>2. req'[r].now = now /\ \A s \in Requests : s # r => req'[s] = req[s]
      BY <2>9, <2>t DEF TokenCall
    <3> QED
      BY <2>2, <2>t, <3>1, <3>2 DEF LiveKeysPublished
  <2>10. ASSUME NEW r \in Requests, TakeCode(r) PROVE LiveKeysPublished'
    <3>1. now' = now /\ Same /\ req[r] # Idle
      BY <2>10 DEF TakeCode, keys, Idle
    <3>2. /\ req'[r] = Idle \/ req'[r].now = req[r].now
          /\ \A s \in Requests : s # r => req'[s] = req[s]
      BY <2>10, <2>t DEF TakeCode
    <3> QED
      BY <2>2, <3>1, <3>2 DEF LiveKeysPublished
  <2>11. ASSUME NEW r \in Requests, FindUser(r) PROVE LiveKeysPublished'
    <3>1. now' = now /\ Same /\ req[r] # Idle
      BY <2>11 DEF FindUser, keys, Idle
    <3>2. req[r] \in Holds
      BY <2>11, RequestTypes DEF FindUser, Holding
    <3>3. /\ req'[r] = Idle \/ req'[r].now = req[r].now
          /\ \A s \in Requests : s # r => req'[s] = req[s]
      BY <2>11, <2>t, <3>2 DEF FindUser, Holds
    <3> QED
      BY <2>2, <3>1, <3>3 DEF LiveKeysPublished
  <2>12. ASSUME NEW r \in Requests, SignToken(r) PROVE LiveKeysPublished'
    <3>1. now' = now /\ active' = active /\ retired' = retired /\ req[r] # Idle
      BY <2>12 DEF SignToken, keys, Idle
    <3>2. \A s \in Requests : req'[s] = IF s = r THEN Idle ELSE req[s]
      BY <2>12, <2>t DEF SignToken
    <3>3. \A t \in tokens' : t \in tokens \/ (t.kid = active /\ t.exp = req[r].now + TokenTTL)
      BY <2>12 DEF SignToken
    <3>4. req[r].now <= now /\ req[r].now \in Nat
      BY <2>t, <3>1 DEF LiveKeysPublished
    <3> QED
      BY <2>t, <3>1, <3>2, <3>3, <3>4 DEF LiveKeysPublished
  <2>13. CASE Rotate
    <3>1. now' = now /\ tokens' = tokens /\ req' = req /\ retired' = retired \cup {<<active, now>>}
      BY <2>13 DEF Rotate
    <3>2. \A t \in tokens : t.kid = active /\ t.exp <= now + TokenTTL =>
            \E k \in retired' : k[1] = t.kid /\ t.exp <= k[2] + TokenTTL
      <4> SUFFICES ASSUME NEW t \in tokens, t.kid = active, t.exp <= now + TokenTTL
                   PROVE  \E k \in retired' : k[1] = t.kid /\ t.exp <= k[2] + TokenTTL
        OBVIOUS
      <4>1. <<active, now>> \in retired'
        BY <3>1
      <4> QED
        BY <4>1
    <3> QED
      BY <3>1, <3>2 DEF LiveKeysPublished
  <2>14. CASE PruneExpired
    <3>1. /\ now' = now /\ tokens' = tokens /\ req' = req /\ active' = active
          /\ retired' = {k \in retired : now - k[2] < Retention}
      BY <2>14 DEF PruneExpired
    <3>2. ASSUME NEW t \in tokens, NEW k \in retired, k \notin retired', t.exp <= k[2] + TokenTTL
          PROVE  t.exp < now
      BY <2>t, <3>1, <3>2
    <3> QED
      BY <2>t, <3>1, <3>2 DEF LiveKeysPublished
  <2>15. CASE UNCHANGED vars
    BY <2>3, <2>15 DEF vars, keys
  <2> QED
    BY <2>1, <2>4, <2>5, <2>6, <2>7, <2>8, <2>9, <2>10, <2>11, <2>12, <2>13, <2>14, <2>15
    DEF Next
<1>3. LiveKeysPublished /\ TypeOK => LiveTokenVerifies
  <2> SUFFICES ASSUME LiveKeysPublished, TypeOK, NEW t \in tokens, t.exp >= now
               PROVE  t.kid \in Published
    BY DEF LiveTokenVerifies, Verifies
  <2>1. t.exp \in Nat /\ now \in Nat
    BY DEF TypeOK, Tokens
  <2> QED
    BY <2>1 DEF LiveKeysPublished, Published
<1> QED
  BY <1>1, <1>2, <1>3, AuthTypeCorrect, PTL DEF Spec
=============================================================================
