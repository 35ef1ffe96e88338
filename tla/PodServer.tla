----------------------------- MODULE PodServer -----------------------------
(***************************************************************************)
(* The write handlers of the HTTP server (solid-pod-rs-server/src/lib.rs).   *)
(* A handler looks for the effective ACL with one storage read per level,    *)
(* evaluates it once, and then acts on the resource: a PUT, POST or DELETE   *)
(* with one storage call, a PATCH with a read and a write.  Other requests   *)
(* run between any two of these awaits; no lock spans them.                  *)
(***************************************************************************)
EXTENDS WebAccess, FiniteSets

CONSTANTS
    Workers,       \* requests served at the same time
    Inputs,        \* requests a client may send
    FirstStores,   \* what the pod may hold when the server starts
    MaxRequests    \* bound on the requests sent

BodyKinds == {"json", "turtle", "opaque"}

\* The path of a request as the server sees it: repeated slashes were merged, so
\* that only the last segment may be empty.
WellFormed(p) ==
    /\ p \in [segs : Seq(STRING), acl : Nat] /\ p.segs # <<>>
    /\ \A j \in 1..(Len(p.segs) - 1) : p.segs[j] # Slash

\* Any method may aim at an ACL key, with any body.
ASSUME PodAssumption ==
    /\ MaxRequests \in Nat /\ Inputs # {}
    /\ \A s \in FirstStores : \A k \in DOMAIN s : s[k].kind \in BodyKinds
    /\ \A i \in Inputs :
          /\ WellFormed(i.path)
          /\ i.method \in {"PUT", "POST"} => i.body.kind \in BodyKinds

VARIABLES
    store,     \* the resources present, a function from paths to bodies
    pc,        \* where each worker is
    req,       \* the request it serves
    at,        \* the level the ACL walk has reached
    base,      \* the body a PATCH has read
    granted,   \* what enforce_write returned
    sent,
    quiet,     \* history: no ACL changed since the request came in
    alone      \* history: nobody wrote the resource since PATCH read it

vars == <<store, pc, req, at, base, granted, sent, quiet, alone>>

\* Bodies: a JSON object with its members, a Turtle text with its statements, and
\* bytes that are neither.  A member or statement is an authorization or anything
\* else; Nested stands for brackets nested beyond the limit of ACLs (but within
\* serde_json's own), Bulk for a length over the limit of ACLs.
Json(f) == [kind |-> "json", facts |-> f]
Turtle(f) == [kind |-> "turtle", facts |-> f]
Opaque == [kind |-> "opaque", facts |-> {}]
NoBody == [kind |-> "none", facts |-> {}]
Member(n) == [member |-> n]
Nested == Member("nested too deep")
Bulk == Member("over the size limit")

SomeRequest == CHOOSE i \in Inputs : TRUE

\* The walk only visits the ancestors of the path that was asked for.
TypeOK ==
    /\ \A k \in DOMAIN store : store[k].kind \in BodyKinds
    /\ pc \in [Workers -> {"idle", "walk", "decided", "write"}]
    /\ req \in [Workers -> Inputs]
    /\ \A w \in Workers : pc[w] = "walk" =>
          IsPrefix(Trimmed(at[w]).segs, req[w].path.segs)
    /\ granted \in [Workers -> BOOLEAN]
    /\ sent \in 0..MaxRequests
    /\ quiet \in [Workers -> BOOLEAN] /\ alone \in [Workers -> BOOLEAN]

Init ==
    /\ store \in FirstStores
    /\ pc = [w \in Workers |-> "idle"]
    /\ req = [w \in Workers |-> SomeRequest]
    /\ at = [w \in Workers |-> Root]
    /\ base = [w \in Workers |-> NoBody]
    /\ granted = [w \in Workers |-> FALSE]
    /\ sent = 0
    /\ quiet = [w \in Workers |-> TRUE] /\ alone = [w \in Workers |-> TRUE]

----------------------------------------------------------------------------
(* The storage, as the Storage trait promises it: atomic calls.              *)

Present(k) == k \in DOMAIN store
BodyAt(k) == IF Present(k) THEN store[k] ELSE NoBody

StorePut(k, b) ==
    /\ store' = [j \in DOMAIN store \cup {k} |-> IF j = k THEN b ELSE store[j]]
    /\ quiet' = [w \in Workers |-> quiet[w] /\ k.acl = 0]
    /\ alone' = [w \in Workers |-> alone[w] /\ k # req[w].path]

StoreDelete(k) ==
    /\ store' = [j \in DOMAIN store \ {k} |-> store[j]]
    /\ quiet' = [w \in Workers |-> quiet[w] /\ k.acl = 0]
    /\ alone' = [w \in Workers |-> alone[w] /\ k # req[w].path]

----------------------------------------------------------------------------
(* The request comes in: PUT and PATCH refuse a container at once, and POST    *)
(* is routed for containers below the root only.                            *)

Refused(i) ==
    \/ i.method \in {"PUT", "PATCH"} /\ IsContainer(i.path)
    \/ i.method = "POST" /\ (i.path = Root \/ ~IsContainer(i.path))

Accept(w, i) ==
    /\ pc[w] = "idle" /\ sent < MaxRequests /\ ~Refused(i)
    /\ sent' = sent + 1
    /\ pc' = [pc EXCEPT ![w] = "walk"]
    /\ req' = [req EXCEPT ![w] = i]
    /\ at' = [at EXCEPT ![w] = i.path]
    /\ quiet' = [quiet EXCEPT ![w] = TRUE]
    /\ UNCHANGED <<store, base, granted, alone>>

\* PUT and DELETE need Write; POST, on the container, and PATCH need Append.  An
\* ACL key is a path like any other: Control is asked for nowhere.
Mode(i) == IF i.method \in {"PUT", "DELETE"} THEN "Write" ELSE "Append"

Decide(w, verdict) ==
    /\ granted' = [granted EXCEPT ![w] = verdict]
    /\ pc' = [pc EXCEPT ![w] = "decided"]

\* What the walk makes of a body: bytes over the limit parse neither as JSON-LD nor
\* as Turtle, brackets nested too deep are an error of their own, and any other
\* JSON object or Turtle text is an ACL document, with or without authorizations.
ReadAs(b) ==
    IF b.kind \notin {"json", "turtle"} \/ Bulk \in b.facts THEN "none"
    ELSE IF Nested \in b.facts THEN "too_deep" ELSE "acl"

Authorizations(b) == {f \in b.facts : "modes" \in DOMAIN f}

\* Mutation of Lookup: a pod without any ACL is open.
LookupOpen(w) ==
    LET b == BodyAt(AclKey(at[w]))
        i == req[w]
    IN
    /\ pc[w] = "walk"
    /\ \/ /\ ReadAs(b) = "acl"
          /\ Decide(w, Grants(Authorizations(b), i.agent, i.path, Mode(i)))
          /\ UNCHANGED at
       \/ /\ ReadAs(b) = "too_deep"
          /\ Decide(w, FALSE)
          /\ UNCHANGED at
       \/ /\ ReadAs(b) = "none"
          /\ IF at[w] = Root THEN Decide(w, TRUE) /\ UNCHANGED at
             ELSE at' = [at EXCEPT ![w] = Parent(at[w])] /\ UNCHANGED <<pc, granted>>
    /\ UNCHANGED <<store, req, base, sent, quiet, alone>>

\* One turn of find_effective_acl_dyn's loop, and the evaluation when it ends:
\* the first document that parses decides; one that nests too deep ends the
\* request with 400; one over the size limit fails to parse (the error is
\* PayloadTooLarge) and is passed over like any other body.
Lookup(w) ==
    LET b == BodyAt(AclKey(at[w]))
        i == req[w]
    IN
    /\ pc[w] = "walk"
    /\ \/ /\ ReadAs(b) = "acl"
          /\ Decide(w, Grants(Authorizations(b), i.agent, i.path, Mode(i)))
          /\ UNCHANGED at
       \/ /\ ReadAs(b) = "too_deep"
          /\ Decide(w, FALSE)
          /\ UNCHANGED at
       \/ /\ ReadAs(b) = "none"
          /\ IF at[w] = Root THEN Decide(w, FALSE) /\ UNCHANGED at
             ELSE at' = [at EXCEPT ![w] = Parent(at[w])] /\ UNCHANGED <<pc, granted>>
    /\ UNCHANGED <<store, req, base, sent, quiet, alone>>

----------------------------------------------------------------------------
(* The effect.                                                             *)

Done(w) == pc' = [pc EXCEPT ![w] = "idle"]

\* 401 or 403, or the 400 of a document out of bounds
Deny(w) ==
    /\ pc[w] = "decided" /\ ~granted[w]
    /\ Done(w)
    /\ UNCHANGED <<store, req, at, base, granted, sent, quiet, alone>>

\* handle_put
PutResource(w) ==
    /\ pc[w] = "decided" /\ granted[w] /\ req[w].method = "PUT"
    /\ StorePut(req[w].path, req[w].body)
    /\ Done(w)
    /\ UNCHANGED <<req, at, base, granted, sent>>

\* handle_post: resolve_slug refuses the slug or gives the target, which need not
\* be new and may be an ACL key.
PostChild(w) ==
    /\ pc[w] = "decided" /\ granted[w] /\ req[w].method = "POST"
    /\ IF req[w].slug = InvalidSlug THEN UNCHANGED <<store, quiet, alone>>
       ELSE StorePut(ResolveSlug(req[w].path, req[w].slug), req[w].body)
    /\ Done(w)
    /\ UNCHANGED <<req, at, base, granted, sent>>

\* handle_delete: 404 when it is not there
DeleteResource(w) ==
    /\ pc[w] = "decided" /\ granted[w] /\ req[w].method = "DELETE"
    /\ IF Present(req[w].path) THEN StoreDelete(req[w].path) ELSE UNCHANGED <<store, quiet, alone>>
    /\ Done(w)
    /\ UNCHANGED <<req, at, base, granted, sent>>

\* handle_patch: read the resource
PatchRead(w) ==
    /\ pc[w] = "decided" /\ granted[w] /\ req[w].method = "PATCH"
    /\ pc' = [pc EXCEPT ![w] = "write"]
    /\ base' = [base EXCEPT ![w] = BodyAt(req[w].path)]
    /\ alone' = [alone EXCEPT ![w] = TRUE]
    /\ UNCHANGED <<store, req, at, granted, sent, quiet>>

\* Mutation of JsonSeed: a JSON Patch, like the graph dialects, starts from nothing.
JsonSeedEmpty(b) == {}
\* The members a JSON Patch starts from: none when the body is not JSON.
JsonSeed(b) == IF b.kind = "json" THEN b.facts ELSE {}

Apply(patch, facts) == (facts \ patch.deletes) \cup patch.inserts

\* graph_to_turtle writes each triple as a statement of its own, so that no
\* statement is an authorization any more.
Statements(facts) == {[triple |-> f] : f \in facts}

\* What a patch makes of the body read, or NoBody when it is refused.  The
\* graph dialects start from an empty graph whatever the resource holds.  A
\* JSON Patch cannot create, and its tests and removals must be met.
Patched(patch, b) ==
    IF patch.dialect = "json"
    THEN IF b # NoBody /\ patch.where \cup patch.deletes \subseteq JsonSeed(b)
         THEN Json(Apply(patch, JsonSeed(b))) ELSE NoBody
    ELSE IF patch.where = {} THEN Turtle(Statements(Apply(patch, {}))) ELSE NoBody

PatchWrite(w) ==
    LET out == Patched(req[w].body, base[w])
    IN
    /\ pc[w] = "write"
    /\ IF out = NoBody THEN UNCHANGED <<store, quiet, alone>> ELSE StorePut(req[w].path, out)
    /\ Done(w)
    /\ UNCHANGED <<req, at, base, granted, sent>>

Serve(w) ==
    \/ Lookup(w)
    \/ Deny(w)
    \/ PutResource(w) \/ PostChild(w) \/ DeleteResource(w)
    \/ PatchRead(w) \/ PatchWrite(w)

Next == \E w \in Workers :
    \/ \E i \in Inputs : Accept(w, i)
    \/ Serve(w)

Spec == Init /\ [][Next]_vars

----------------------------------------------------------------------------
(* Properties.                                                             *)

\* The levels a request for p may be decided at, given where an ancestor keeps
\* its ACL: 0 is the root, the last level the path itself.
Levels(p) == 0..Len(Trimmed(p).segs)

AclAt(p, n, keyOf(_)) ==
    IF n = Len(Trimmed(p).segs) THEN keyOf(p)
    ELSE IF n = 0 THEN keyOf(Root)
    ELSE keyOf(Path(Append(SubSeq(p.segs, 1, n), Slash)))

\* The nearest level whose body reads as one of the given kinds has a document that
\* grants the request.
GrantedByNearest(i, kinds, keyOf(_)) ==
    LET Deciding == {n \in Levels(i.path) :
            ReadAs(BodyAt(AclAt(i.path, n, keyOf))) \in kinds}
    IN  \E n \in Deciding :
            LET b == BodyAt(AclAt(i.path, n, keyOf))
            IN  /\ \A m \in Deciding : m <= n
                /\ ReadAs(b) = "acl"
                /\ Grants(Authorizations(b), i.agent, i.path, Mode(i))

Verdicts(kinds, keyOf(_)) == \A w \in Workers :
    (pc[w] = "decided" /\ quiet[w]) => (granted[w] <=> GrantedByNearest(req[w], kinds, keyOf))

\* find_effective_acl_dyn reads level after level while other requests write:
\* if no ACL changed meanwhile (by PUT, PATCH or DELETE on one, or by POST with a
\* slug that ends in ".acl"), enforce_write decides by the nearest ACL that parses,
\* and refuses when the nearest one nests too deep.  The mode is Write or Append
\* for ACL keys too; the docs ask for Control there.
NearestAclDecides == TypeOK /\ Verdicts({"acl", "too_deep"}, AclKey)

\* Deny by default is absorbing: once no ACL holds an authorization and no request
\* that was granted is still to act, enforce_write refuses every write there will
\* be, whatever documents without authorizations and other bodies lie around.
Unowned ==
    /\ \A k \in DOMAIN store : k.acl > 0 => ReadAs(store[k]) # "acl" \/ Authorizations(store[k]) = {}
    /\ \A w \in Workers : pc[w] \in {"decided", "write"} => ~granted[w]
FrozenWithoutAcl == [][Unowned => Unowned' /\ UNCHANGED store]_vars

\* handle_patch reads, patches in memory and writes without a lock.  When nobody
\* wrote the resource in between, a JSON Patch whose tests and removals the
\* stored members meet turns them into what it says, and any other leaves
\* the pod as it is.
UndisturbedPatch == [][\A w \in Workers :
    LET p == req[w].path
        q == req[w].body
    IN  (pc[w] = "write" /\ pc'[w] = "idle" /\ alone[w] /\ q.dialect = "json" /\ BodyAt(p).kind = "json") =>
            IF q.where \cup q.deletes \subseteq store[p].facts
            THEN store'[p] = Json((store[p].facts \ q.deletes) \cup q.inserts)
            ELSE UNCHANGED store]_vars

\* docs/reference/http-endpoints.md: "ACL sidecar for a container `/c/` lives
\* at `/c/.acl`", which is also the link that link_headers sends.
LinkedAclDecides == Verdicts({"acl", "too_deep"}, AclLink)
=============================================================================
