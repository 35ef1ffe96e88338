------------------------------- MODULE SignIn -------------------------------
(***************************************************************************)
(* The credentials endpoint of the identity provider (credentials.rs,        *)
(* user_store.rs) behind the sliding-window rate limiter (rate_limit.rs).    *)
(* Time runs in ticks; Retry-After is sent in seconds of TicksPerSecond.     *)
(***************************************************************************)
EXTENDS LruCache

CONSTANTS
    LoginTasks,     \* requests that can be in flight together
    Addresses,      \* client addresses
    Emails,         \* spellings of email addresses
    Lower(_),       \* to_ascii_lowercase
    Passwords,      \* passwords, "" and one under MIN_PASSWORD_LENGTH included
    MaxHits,        \* policy: hits admitted in one window
    Window,         \* policy: its length in ticks
    TicksPerSecond,
    Buckets,        \* capacity of the limiter's LRU
    LoginHorizon,   \* bound: last tick
    MaxLogins       \* bound: requests in a behaviour

\* with_capacity_and_policies panics on a zero maximum or window
ASSUME SignInAssumption ==
    /\ MaxHits \in Nat \ {0} /\ Window \in Nat \ {0}
    /\ TicksPerSecond \in Nat \ {0} /\ Buckets \in Nat \ {0}

VARIABLES
    loginTime,   \* the monotonic clock
    logins,      \* requests so far
    tasks,       \* task -> what it is doing
    hits,        \* address -> hit instants in the order they were pushed
    recency,     \* addresses of the LRU, least recently used first
    users,       \* lower-cased email -> [id, password]
    admitted,    \* history: admissions of buckets not evicted since
    promised     \* history: address -> the instant a refusal said to come back at

signInVars == <<loginTime, logins, tasks, hits, recency, users, admitted, promised>>

NoTask == [at |-> "idle"]

SignInInit ==
    /\ loginTime = 0 /\ logins = 0
    /\ tasks = [t \in LoginTasks |-> NoTask]
    /\ hits = [ip \in Addresses |-> <<>>]
    /\ recency = <<>>
    /\ users = [e \in {Lower(e) : e \in Emails} |-> None]
    /\ admitted = {}
    /\ promised = [ip \in Addresses |-> None]

----------------------------------------------------------------------------
(* The limiter.                                                            *)

\* Mutation of Prune: a hit that is exactly one window old still counts.
PruneLate(seq, now) == Thinned(seq, {i \in DOMAIN seq : seq[i] >= now - Window})
\* SlidingWindow::prune.  An Instant can lie before the start, so checked_sub has a
\* cutoff also in the first window.
Prune(seq, now) == Thinned(seq, {i \in DOMAIN seq : seq[i] > now - Window})

\* ceil_secs
CeilSecs(ticks) == (ticks + TicksPerSecond - 1) \div TicksPerSecond

\* The first hit pushed stands for the oldest; both subtractions saturate.
RetryAfterSecs(seq, now) ==
    LET elapsed == IF now > seq[1] THEN now - seq[1] ELSE 0
        remaining == IF Window > elapsed THEN Window - elapsed ELSE 0
        secs == CeilSecs(remaining)
    IN  IF secs > 1 THEN secs ELSE 1

\* login asks the limiter, which reads the clock before it takes the lock.
LoginSample(t, ip) ==
    /\ tasks[t].at \in {"idle", "token"} /\ logins < MaxLogins
    /\ logins' = logins + 1
    /\ tasks' = [tasks EXCEPT ![t] = [at |-> "sampled", ip |-> ip, now |-> loginTime]]
    /\ UNCHANGED <<loginTime, hits, recency, users, admitted, promised>>

----------------------------------------------------------------------------
(* login and the in-memory user store.                                     *)

\* The rest of login: empty fields are refused, the user is looked up by the
\* lower-cased email, and the right password gets an access token.
Authenticate(email, password) ==
    LET user == IF email = "" \/ password = "" THEN None ELSE users[Lower(email)]
    IN  IF user # None /\ TheOne(user).password = password
        THEN [at |-> "token", sub |-> TheOne(user).id] ELSE NoTask

\* check_sync under the lock, then the rest of login, which reads only the user
\* store.  A refusal records no hit but touches the bucket.
Login(t, email, password) ==
    LET r == tasks[t]
        victims == LruVictims(recency, r.ip, Buckets)
        fresh == r.ip \notin LruKeys(recency)
        seq == IF fresh THEN <<>> ELSE Prune(hits[r.ip], r.now)
        deny == Len(seq) >= MaxHits
        forgotten == victims \cup (IF fresh THEN {r.ip} ELSE {})
        kept == {a \in admitted : a.ip \notin forgotten}
        waits == [ip \in Addresses |-> IF ip \in forgotten THEN None ELSE promised[ip]]
    IN
    /\ r.at = "sampled"
    /\ recency' = LruPut(recency, r.ip, Buckets)
    /\ hits' = [ip \in Addresses |->
           IF ip = r.ip THEN (IF deny THEN seq ELSE Append(seq, r.now))
           ELSE IF ip \in victims THEN <<>> ELSE hits[ip]]
    /\ IF deny
       THEN /\ tasks' = [tasks EXCEPT ![t] = NoTask]
            /\ admitted' = kept
            /\ promised' = [waits EXCEPT ![r.ip] =
                   Some(loginTime + RetryAfterSecs(seq, r.now) * TicksPerSecond)]
       ELSE /\ tasks' = [tasks EXCEPT ![t] = Authenticate(email, password)]
            /\ admitted' = kept \cup {[ip |-> r.ip, at |-> r.now, wait |-> loginTime - r.now,
                                       nth |-> Cardinality({a \in kept : a.ip = r.ip})]}
            /\ promised' = [waits EXCEPT ![r.ip] = None]
    /\ UNCHANGED <<loginTime, logins, users>>

\* insert_user: a short password is refused, an email in use is overwritten
LongEnough(password) == password \notin {"", "short"}
InsertUser(id, email, password) ==
    /\ LongEnough(password)
    /\ users' = [users EXCEPT ![Lower(email)] = Some([id |-> id, password |-> password])]
    /\ UNCHANGED <<loginTime, logins, tasks, hits, recency, admitted, promised>>

\* delete: a row with that id, if there is one
DeleteUser(id) ==
    /\ \E e \in DOMAIN users :
           /\ users[e] # None /\ TheOne(users[e]).id = id
           /\ users' = [users EXCEPT ![e] = None]
    /\ UNCHANGED <<loginTime, logins, tasks, hits, recency, admitted, promised>>

LoginTick ==
    /\ loginTime < LoginHorizon
    /\ loginTime' = loginTime + 1
    /\ UNCHANGED <<logins, tasks, hits, recency, users, admitted, promised>>

SignInNext ==
    \/ \E t \in LoginTasks, ip \in Addresses : LoginSample(t, ip)
    \/ \E t \in LoginTasks, e \in Emails, p \in Passwords : Login(t, e, p)
    \/ \E e \in Emails \ {""}, p \in Passwords : InsertUser("u1", e, p)
    \/ DeleteUser("u1")
    \/ LoginTick

----------------------------------------------------------------------------

\* A hit is stamped before the lock, so a request that waits for the lock may
\* push an old instant behind newer ones.  While its bucket is not evicted, no
\* address gets MaxHits + 1 admissions closer together than one window, up to
\* the time one of them was held between the stamp and the lock; and an address
\* that waits as long as the last refusal told it, with no admission in
\* between, finds room.
RateLimitHonest ==
    /\ \A ip \in Addresses : \A S \in SUBSET {a \in admitted : a.ip = ip} :
           Cardinality(S) = MaxHits + 1 =>
               \E a, b, c \in S : a.at - b.at + c.wait >= Window
    /\ \A ip \in Addresses :
           (promised[ip] # None /\ ip \in LruKeys(recency)) =>
               Len(Prune(hits[ip], TheOne(promised[ip]))) < MaxHits
=============================================================================
