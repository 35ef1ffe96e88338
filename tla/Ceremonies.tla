----------------------------- MODULE Ceremonies -----------------------------
(***************************************************************************)
(* Challenge-response sign-in: Schnorr challenges (schnorr.rs) and WebAuthn   *)
(* passkeys (passkey.rs).  Each keeps concurrent maps from an account to the  *)
(* state of its one ceremony in flight.  Challenges are numbered in the order *)
(* they are drawn; a signature is the record of what was signed.              *)
(***************************************************************************)
EXTENDS Chains

CONSTANTS
    Accounts,          \* user or account ids
    SigningKeys,       \* Nostr public keys
    Authenticators,    \* credential ids
    ChallengeTtl,      \* lifetime of a Schnorr challenge
    CeremonyTasks,     \* verifications that can be in flight together
    MaxChallenges,     \* bound: challenges drawn
    CeremonyHorizon    \* bound: last tick

ASSUME CeremonyAssumption == ChallengeTtl \in Nat /\ MaxChallenges \in Nat

VARIABLES
    ceremonyTime,   \* the monotonic clock
    drawn,          \* challenges drawn so far: <<kind, account, time>> by number
    challenges,     \* account -> its Schnorr challenge
    registering,    \* account -> its registration in flight
    authenticating, \* account -> its authentication in flight
    credentials,    \* account -> registered credential ids
    verifying,      \* task -> a verification that has taken its challenge
    successes       \* history: what was asserted from which challenge, and when

ceremonyVars == <<ceremonyTime, drawn, challenges, registering, authenticating,
                  credentials, verifying, successes>>

CeremonyInit ==
    /\ ceremonyTime = 0 /\ drawn = <<>>
    /\ challenges = [a \in Accounts |-> None]
    /\ registering = [a \in Accounts |-> None]
    /\ authenticating = [a \in Accounts |-> None]
    /\ credentials = [a \in Accounts |-> {}]
    /\ verifying = [t \in CeremonyTasks |-> None]
    /\ successes = <<>>

\* a response that does not parse
Garbage == <<>>

Draw(kind, a) ==
    /\ Len(drawn) < MaxChallenges
    /\ drawn' = Append(drawn, [kind |-> kind, account |-> a, at |-> ceremonyTime])

Free(t) == verifying[t] = None
Drop(state, a) == [state EXCEPT ![a] = None]

\* Mutation of Remove: the state is read but stays in the map.
RemoveNothing(state, a) == state
\* DashMap::remove: the state leaves the map with the look-up, whatever follows
Remove(state, a) == Drop(state, a)

----------------------------------------------------------------------------
(* Schnorr.                                                                *)

\* issue_challenge: a new challenge replaces the user's earlier one
IssueChallenge(a) ==
    /\ Draw("schnorr", a)
    /\ challenges' = [challenges EXCEPT ![a] = Some(Len(drawn'))]
    /\ UNCHANGED <<ceremonyTime, registering, authenticating, credentials, verifying, successes>>

\* verify_response, first statement: the challenge is taken, or there is none.
\* The response holds whatever the client signed and names any key.
TakeChallenge(t, a, key, signed) ==
    /\ Free(t) /\ challenges[a] # None
    /\ challenges' = Remove(challenges, a)
    /\ verifying' = [verifying EXCEPT ![t] =
           Some([kind |-> "schnorr", account |-> a, challenge |-> TheOne(challenges[a]),
                 key |-> key, signed |-> signed])]
    /\ UNCHANGED <<ceremonyTime, drawn, registering, authenticating, credentials, successes>>

\* canonical_digest: token, user and key
Digest(challenge, a, key) == <<challenge, a, key>>

\* the rest of verify_response: expiry, then the signature by the key
SchnorrVerdict(v) == FirstOf(<<
    <<"expired", ceremonyTime - drawn[v.challenge].at > ChallengeTtl>>,
    <<"parse", v.signed = Garbage>>,
    <<"bad signature", v.signed # Digest(v.challenge, v.account, v.key)>>>>, "ok")

----------------------------------------------------------------------------
(* Passkeys.                                                               *)

\* registration_options: excludes the credentials the account has
RegistrationOptions(a) ==
    /\ Draw("register", a)
    /\ registering' = [registering EXCEPT ![a] =
           Some([challenge |-> Len(drawn'), exclude |-> credentials[a]])]
    /\ UNCHANGED <<ceremonyTime, challenges, authenticating, credentials, verifying, successes>>

\* registration_verify takes the state first
TakeRegistration(t, a, cred, signed) ==
    /\ Free(t) /\ registering[a] # None
    /\ registering' = Remove(registering, a)
    /\ verifying' = [verifying EXCEPT ![t] =
           Some([kind |-> "register", account |-> a, state |-> TheOne(registering[a]),
                 challenge |-> TheOne(registering[a]).challenge, cred |-> cred, signed |-> signed])]
    /\ UNCHANGED <<ceremonyTime, drawn, challenges, authenticating, credentials, successes>>

\* authentication_options: an account without credentials gets none
AuthenticationOptions(a) ==
    /\ credentials[a] # {}
    /\ Draw("authenticate", a)
    /\ authenticating' = [authenticating EXCEPT ![a] =
           Some([challenge |-> Len(drawn'), allow |-> credentials[a]])]
    /\ UNCHANGED <<ceremonyTime, challenges, registering, credentials, verifying, successes>>

\* authentication_verify: the account is the first the map yields that holds
\* the credential named; its state is taken
TakeAuthentication(t, cred, signed) ==
    /\ Free(t)
    /\ \E a \in {b \in Accounts : cred \in credentials[b]} :
           /\ authenticating[a] # None
           /\ authenticating' = Remove(authenticating, a)
           /\ verifying' = [verifying EXCEPT ![t] =
                  Some([kind |-> "authenticate", account |-> a, state |-> TheOne(authenticating[a]),
                        challenge |-> TheOne(authenticating[a]).challenge, cred |-> cred,
                        signed |-> signed])]
    /\ UNCHANGED <<ceremonyTime, drawn, challenges, registering, credentials, successes>>

\* webauthn-rs: the response answers this challenge and was made by this
\* credential, which is new to the account, or one the state allows.
FinishPasskey(v) ==
    /\ v.signed = <<v.challenge, v.cred>>
    /\ IF v.kind = "register" THEN v.cred \notin v.state.exclude ELSE v.cred \in v.state.allow

----------------------------------------------------------------------------

\* the verification ends, after any time
FinishVerification(t) ==
    LET v == TheOne(verifying[t])
        ok == IF v.kind = "schnorr" THEN SchnorrVerdict(v) = "ok" ELSE FinishPasskey(v)
    IN
    /\ ~Free(t)
    /\ verifying' = [verifying EXCEPT ![t] = None]
    /\ successes' = IF ok THEN Append(successes, [kind |-> v.kind, account |-> v.account,
                            challenge |-> v.challenge, at |-> ceremonyTime]) ELSE successes
    /\ credentials' = IF ok /\ v.kind = "register"
                      THEN [credentials EXCEPT ![v.account] = @ \cup {v.cred}] ELSE credentials
    /\ UNCHANGED <<ceremonyTime, drawn, challenges, registering, authenticating>>

CeremonyTick ==
    /\ ceremonyTime < CeremonyHorizon
    /\ ceremonyTime' = ceremonyTime + 1
    /\ UNCHANGED <<drawn, challenges, registering, authenticating, credentials, verifying, successes>>

\* what a client can have signed: a challenge of the kind it was shown
Shown(kinds) == {c \in DOMAIN drawn : drawn[c].kind \in kinds}
Signatures(key) == {Garbage} \cup {Digest(c, b, key) : c \in Shown({"schnorr"}), b \in Accounts}
Assertions(cred) == {Garbage} \cup {<<c, cred>> : c \in Shown({"register", "authenticate"})}

CeremonyNext ==
    \/ \E a \in Accounts : IssueChallenge(a) \/ RegistrationOptions(a) \/ AuthenticationOptions(a)
    \/ \E t \in CeremonyTasks, a \in Accounts, k \in SigningKeys : \E s \in Signatures(k) :
           TakeChallenge(t, a, k, s)
    \/ \E t \in CeremonyTasks, a \in Accounts, c \in Authenticators : \E s \in Assertions(c) :
           TakeRegistration(t, a, c, s)
    \/ \E t \in CeremonyTasks, c \in Authenticators : \E s \in Assertions(c) :
           TakeAuthentication(t, c, s)
    \/ \E t \in CeremonyTasks : FinishVerification(t)
    \/ CeremonyTick

----------------------------------------------------------------------------

\* verify_response, registration_verify and authentication_verify race with
\* each other and with new challenges for the same account: no challenge is
\* good for two assertions, each counts only for the account and the kind of
\* ceremony it was drawn for, and a Schnorr challenge only within its lifetime.
CeremoniesSpentOnce ==
    /\ \A i, j \in DOMAIN successes :
           successes[i].challenge = successes[j].challenge => i = j
    /\ \A i \in DOMAIN successes :
           LET s == successes[i]
               d == drawn[s.challenge]
           IN  /\ d.kind = s.kind /\ d.account = s.account
               /\ s.kind = "schnorr" => s.at - d.at <= ChallengeTtl
    /\ \A a \in Accounts : Cardinality(credentials[a]) <=
           Cardinality({i \in DOMAIN successes : successes[i].kind = "register" /\ successes[i].account = a})
=============================================================================
