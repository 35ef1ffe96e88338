---------------------------- MODULE RequestRules ----------------------------
(***************************************************************************)
(* The decisions of the server that depend on their inputs alone, put to the *)
(* question one at a time: a step asks one rule about one input, and the     *)
(* properties compare the answer with what the rule has to come to.          *)
(***************************************************************************)
EXTENDS OutboundGuard, LdpPatch, WacDocuments, AuthSchemes, ConfigRules

CONSTANTS
    Outbound,     \* [host, dns, env]: a target, its addresses, the policy's variables
    Guarded,      \* [path, entries, host, base, origin, cors]: requests to be guarded
    Patches,      \* [graph, deletes, inserts, oneLine]: a graph, a patch and its layout
    JsonEdits,    \* [doc, path, value]: a document and a place in it
    Ranges,       \* [header, total]: a Range header and the length of a body
    Literals,     \* literals of a graph
    Accepts,      \* Accept headers
    Conditionals, \* [method, etag, ifMatch, ifNoneMatch]
    Listings,     \* [members, prefs]: a container and the elements of a Prefer header
    Paths,        \* paths to describe
    Bodies,       \* JSON texts, as the bytes that matter
    AclQuestions, \* [auths, ctx, path, mode, groups, registry, origin]
    AclStores,    \* [store, path]: stored ACL documents and a path
    Proofs,       \* [env, order, schnorr]: proofs, and the verifiers asked
    Tokens,       \* [token, keyset, issuer, jwk, now]: access tokens and the key of the proof
    Messages,     \* [scheme, sent, got]: signed messages and what arrived
    Settings_     \* [file, env, cli]: the three places settings come from

Skew == 2         \* DEFAULT_SKEW_SECONDS, 60 s

VARIABLES asked, answer
vars == <<asked, answer>>

Init == asked = [rule |-> "none"] /\ answer = [value |-> "none"]

Ask(rule, input, result) ==
    /\ asked.rule = "none"
    /\ asked' = [rule |-> rule, of |-> input]
    /\ answer' = result

AskOutbound == \E q \in Outbound : Ask("outbound", q, [
    classes |-> [i \in DOMAIN q.dns.addrs |-> Classify(q.dns.addrs[i])],
    policy |-> ResolveAndCheckPolicy(PolicyFromEnv(q.env), q.host, q.dns),
    free |-> ResolveAndCheck(q.host, q.dns), url |-> IsSafeUrl(q.host)])

AskGuards == \E q \in Guarded : Ask("guards", q, [
    allowed |-> IsAllowed(AllowlistFromEnv(q.entries), q.path), static |-> IsPathAllowed(q.path),
    byPath |-> ResolvePath(q.host, q.path), byHost |-> ResolveSubdomain(q.base, q.host, q.path),
    preflight |-> PreflightHeaders(q.cors, q.origin, "GET", {"authorization"}),
    response |-> ResponseHeaders(q.cors, q.origin)])

\* A patch in the two dialects, on a graph that is there and on an absent one.
Lines(q, triples) == IF q.oneLine THEN <<SetToSeq(triples)>>
                     ELSE LET s == SetToSeq(triples) IN [i \in DOMAIN s |-> <<s[i]>>]
N3Of(q) == [inserts |-> Some([lines |-> Lines(q, q.inserts), parses |-> TRUE]),
            deletes |-> Some([lines |-> Lines(q, q.deletes), parses |-> TRUE]), where |-> None]
Quads(triples) == {[triple |-> t, default |-> TRUE, ground |-> TRUE] : t \in triples}
SparqlOf(q) == <<[kind |-> "DeleteData", delete |-> Quads(q.deletes)],
                 [kind |-> "InsertData", insert |-> Quads(q.inserts)]>>
AskPatch == \E q \in Patches : Ask("patch", q, [
    n3 |-> ApplyN3Patch(q.graph, N3Of(q)), sparql |-> ApplySparqlPatch(q.graph, SparqlOf(q)),
    absentN3 |-> ApplyPatchToAbsent(TheOne(PatchDialectFromMime("text/n3")), N3Of(q)),
    absentSparql |-> ApplyPatchToAbsent(TheOne(PatchDialectFromMime("application/sparql-update")), SparqlOf(q))])

Operation(name, path, from, value) == [op |-> name, path |-> path, from |-> from, value |-> value]
AskJson == \E q \in JsonEdits :
    LET add == Operation("add", q.path, q.path, q.value)
        remove == Operation("remove", q.path, q.path, q.value)
        test == Operation("test", q.path, q.path, q.value)
    IN  Ask("json", q, [added |-> ApplyJsonPatch(q.doc, <<add>>),
                        undone |-> ApplyJsonPatch(q.doc, <<add, test, remove>>)])

\* A text made into a JSON string.
Quoted(b) == <<"quote">> \o FlattenSeq([i \in DOMAIN b |->
    IF b[i] \in {"quote", "backslash"} THEN <<"backslash", b[i]>> ELSE <<b[i]>>]) \o <<"quote">>
MaxAclBytes == 3    \* MAX_ACL_BYTES, 1 MiB
MaxAclDepth == 1    \* MAX_ACL_JSON_DEPTH, 32

AskRange == \E q \in Ranges : Ask("range", q, [
    v1 |-> ParseRangeHeader(q.header, q.total), v2 |-> ParseRangeHeaderV2(q.header, q.total)])
AskLiteral == \E q \in Literals : Ask("literal", q, ReadLiteral(WriteLiteral(q)))
AskAccept == \E q \in Accepts : Ask("accept", q, [format |-> NegotiateFormat(q)])
AskConditional == \E q \in Conditionals :
    Ask("conditional", q, [verdict |-> EvaluatePreconditions(q.method, q.etag, q.ifMatch, q.ifNoneMatch)])
AskListing == \E q \in Listings : Ask("listing", q, RenderContainer(q.members, PreferParse(q.prefs)))
AskPath == \E p \in Paths : Ask("path", p, [
    links |-> LinkHeaders(p), options |-> OptionsFor(p), absent |-> NotFoundHeaders(p, TRUE),
    managed |-> ServerManagedTriples(p, "t1", "2", IsContainer(p), {"m1", "m2"})])
AskDepth == \E b \in Bodies : Ask("depth", b, [
    plain |-> JsonDepth(b), nested |-> JsonDepth(<<"open">> \o b), quoted |-> JsonDepth(Quoted(b)),
    bounds |-> ParseJsonldBounds(b, MaxAclBytes, MaxAclDepth)])

\* A condition that every request meets.
AnyClient == [type |-> Curie(ClientCondition), ids |-> {}, groups |-> {}, classes |-> {Curie(Everyone)}]
AskAcl == \E q \in AclQuestions :
    LET Eval(doc, ctx, registry) ==
            EvaluateAccessCtx(doc, ctx, q.path, q.mode, q.origin, q.groups, registry)
        doc == Some(ToSet(q.auths))
    IN  Ask("acl", q, [
            direct |-> Eval(doc, q.ctx, q.registry),
            turtle |-> Eval(ParseTurtleAcl(SerializeTurtleAcl(q.auths)), q.ctx, q.registry),
            anonymous |-> Eval(doc, [q.ctx EXCEPT !.webId = None], q.registry),
            plain |-> EvaluateAccessWithGroups(doc, q.ctx.webId, q.path, q.mode, q.origin, q.groups),
            narrowed |-> Eval(Some({[a EXCEPT !.condition = Append(@, AnyClient)] : a \in ToSet(q.auths)}),
                              q.ctx, q.registry),
            header |-> WacAllowHeader(doc, q.ctx, q.path, q.groups, q.registry),
            unsupported |-> UnsupportedConditions(ToSet(q.auths))])
AskWalk == \E q \in AclStores : Ask("walk", q, FindEffectiveAcl(q.store, q.path))

AskProof == \E q \in Proofs : Ask("proof", q, CidVerify(q.order, q.env, q.schnorr, Skew))
AskToken == \E q \in Tokens : LET t == Thumbprint(q.jwk) IN Ask("token", q,
    IF Accepted(t) THEN Introspect(VerifyAccessToken(q.token, q.keyset, q.issuer, t.ok, q.now))
    ELSE [active |-> FALSE])
AskMessage == \E q \in Messages : Ask("message", q,
    IF q.scheme = "webhook" THEN WebhookVerify(q.key, q.keyid, q.got.msg, q.got.method, q.got.uri)
    ELSE ApVerifyRequest(q.got, q.keys))

AskStartup == \E q \in Settings_ : Ask("startup", q, Startup(q.file, q.env, q.cli))

Next ==
    \/ AskOutbound \/ AskGuards \/ AskPatch \/ AskJson \/ AskRange \/ AskLiteral \/ AskAccept
    \/ AskConditional \/ AskListing \/ AskPath \/ AskDepth \/ AskAcl \/ AskWalk \/ AskProof \/ AskToken \/ AskMessage \/ AskStartup

Spec == Init /\ [][Next]_vars

----------------------------------------------------------------------------
(* Properties.                                                             *)

\* security/ssrf.rs: the classes agree with the table of special ranges by
\* longest prefix, but for Teredo and IPv4-compatible addresses, which the comments
\* put among the special ranges and classify_v6 takes for public; what the strict
\* check lets through has public addresses or one of these only, what the policy
\* lets through is allowlisted or of a class it permits, and a literal that
\* is_safe_url accepts passes the strict check too.
OutboundVerdictSound == asked.rule = "outbound" =>
    LET q == asked.of
        policy == PolicyFromEnv(q.env)
        class(ip) == IF Overlooked(ip) THEN "Public" ELSE DocumentedClass(ip)
    IN  /\ \A i \in DOMAIN q.dns.addrs : answer.classes[i] = class(q.dns.addrs[i])
        /\ "ip" \in DOMAIN answer.free => \A i \in DOMAIN q.dns.addrs : class(q.dns.addrs[i]) = "Public"
        /\ "ip" \in DOMAIN answer.policy =>
              /\ ~ListContainsHost(policy.deny, q.host.name)
              /\ \/ ListContainsHost(policy.allow, q.host.name)
                 \/ Permits(policy, class(answer.policy.ip))
        /\ \A ip \in q.host.ip : answer.url => class(ip) = "Public"

\* The guards on a request do not contradict each other: the default allowlist
\* of dotfile.rs admits no path that is_path_allowed refuses; a host names a pod
\* only by one label in front of the base domain; and no answer lets every
\* origin in together with credentials.
GuardsAgree == asked.rule = "guards" =>
    LET q == asked.of
        wild(headers) == <<"Allow-Origin", "*">> \in headers /\ <<"Allow-Credentials", "true">> \in headers
    IN  /\ q.entries = None /\ answer.allowed => answer.static = "ok"
        /\ answer.byPath.pod = None
        /\ \A pod \in answer.byHost.pod : NoToken(pod, ".") /\ StripSuffix(q.host, q.base) # None
        /\ ~wild(answer.response) /\ \A h \in answer.preflight : ~wild(h)

IsAscii(o) == o.kind = "literal" => \A i \in DOMAIN o.value : Utf8(o.value[i]) = <<o.value[i]>>

\* The patches that N3 can say: a line of their text holds one triple, their
\* literals are ASCII, and xsd:string is left unsaid.  Of two triples on a line the
\* second is dropped, other characters are taken apart into bytes, and a literal
\* typed xsd:string is another one than the plain literal; SPARQL has none of this.
PlainN3(q) ==
    /\ q.oneLine => Cardinality(q.inserts) <= 1 /\ Cardinality(q.deletes) <= 1
    /\ \A t \in q.inserts \cup q.deletes :
          IsAscii(t.o) /\ (t.o.kind = "literal" => t.o.datatype # Some("xsd:string"))

\* ldp.rs: an N3 patch that is plain and the SPARQL update that says the same leave
\* the same graph, on a resource that exists and on one that does not; and a JSON
\* patch that adds a value at a new place, finds it there and removes it restores
\* the document.
PatchDialectsAgree ==
    /\ asked.rule = "patch" /\ PlainN3(asked.of) =>
        /\ answer.n3.graph = answer.sparql.graph
        /\ answer.absentN3.graph = answer.absentSparql.graph
    /\ asked.rule = "json" /\ IsOk(answer.added) /\ Last(asked.of.path).kind # "end" =>
        \/ answer.undone = asked.of.doc
        \/ \E v \in JsonPointerGet(asked.of.doc, Front(asked.of.path)) :   \* a member was replaced
              IsObj(v) /\ Last(asked.of.path).name \in DOMAIN v.obj

\* ldp.rs: a literal read back from N-Triples is the one written exactly when it is
\* ASCII, and another one otherwise; a satisfiable range selects exactly the
\* requested bytes that exist, in both parsers; the negotiated format is offered
\* with the highest q, on ties the first such one (a comment says Turtle), and the
\* parser knows its type by the same name.
RepresentationFaithful ==
    /\ asked.rule = "literal" => (answer = asked.of <=> IsAscii(asked.of))
    /\ asked.rule = "range" /\ IsOk(answer.v2) /\ answer.v2.kind = "Partial" =>
        LET h == TheOne(asked.of.header)
            total == asked.of.total
            wanted == {i \in 0..(total - 1) :
                /\ \A s \in h.start : s <= i
                /\ \A e \in h.end : IF h.start = None THEN i >= total - e ELSE i <= e}
        IN  /\ answer.v1 = answer.v2
            /\ answer.v2.end < total
            /\ SliceRange(total, answer.v2) = wanted /\ wanted # {}
    /\ asked.rule = "accept" =>
        LET offers == {i \in DOMAIN asked.of : FormatOffered(asked.of[i].mime) # None}
            best == {i \in offers : \A j \in offers : asked.of[j].q < asked.of[i].q
                                                     \/ (asked.of[j].q = asked.of[i].q /\ i <= j)}
        IN  /\ offers # {} => Some(answer.format) = FormatOffered(asked.of[TheOne(best)].mime)
            /\ \A i \in offers : FromMime(asked.of[i].mime) \in {None, FormatOffered(asked.of[i].mime)}

\* ldp.rs: a conditional write proceeds exactly when its tags name the stored
\* state, and a read is refused only by If-Match; what no preference of the
\* header asks to leave out is listed; the links of a resource lead to an ACL
\* that has none of its own, and a client may not send any statement that the
\* server adds by itself.
ConditionsProtect ==
    /\ asked.rule = "conditional" =>
        LET q == asked.of
            named(h) == \E tags \in h : q.etag # None /\ ("*" \in tags \/ q.etag \cap tags # {})
            current == q.ifMatch # None => named(q.ifMatch)
        IN  /\ (answer.verdict = "Proceed") = (current /\ ~named(q.ifNoneMatch))
            /\ q.method = "GET" /\ answer.verdict = "PreconditionFailed" => ~current
            /\ answer.verdict = "NotModified" => q.method = "GET"
    /\ asked.rule = "listing" =>
        LET known(p) == p.head = "return=representation" /\ p.include # <<>>
        IN  answer = RenderContainer(asked.of.members, PreferParse(SelectSeq(asked.of.prefs, known)))
    /\ asked.rule = "path" =>
        /\ \A l \in answer.links : l[1] = "acl" =>
              /\ InferDotfileContentType(l[2]) = Some("application/ld+json")
              /\ \A k \in LinkHeaders(l[2]) : k[1] # "acl"
        /\ FindIllegalServerManaged(answer.managed) = answer.managed
        /\ answer.absent.acceptPost = ("POST" \in answer.options.allow)

\* Both: what is sent, and when it is sent.
AnswersFaithful == RepresentationFaithful /\ ConditionsProtect

\* What the serializer of wac/ writes, the parser reads as the same grant, for
\* documents whose condition types are abbreviated and whose identifiers are
\* IRIs or carry no full stop: one in a bare identifier, as in ./c/x or /c/x.txt,
\* ends the statement for the parser.
Writable(a) ==
    /\ \A i \in DOMAIN a.condition : a.condition[i].type.form = "curie"
    /\ \A f \in {"agent", "agentClass", "agentGroup", "origin", "accessTo", "default", "mode"} :
          \A id \in a[f] : id.dotted => id.form = "http"

\* wac/: logging in never loses access, one more condition on an authorization
\* never gains any, who may PUT may POST, the WAC-Allow header never shows the
\* public more than the user, an evaluation without conditions registered grants
\* no more than one with them, and a document validate_for_write accepts has no
\* condition the full registry cannot decide.
AccessMonotone == asked.rule = "acl" =>
    LET q == asked.of
        decidable(a) == \A i \in DOMAIN a.condition :
            Dispatch(a.condition[i], q.ctx, q.groups, KnownConditions) # "NotApplicable"
    IN  /\ answer.anonymous => answer.direct
        /\ answer.narrowed => answer.direct
        /\ answer.header.public \subseteq answer.header.user
        /\ MethodToMode("PUT") \in answer.header.user => MethodToMode("POST") \in answer.header.user
        /\ answer.plain => answer.direct
        /\ answer.unsupported = {} => \A a \in ToSet(q.auths) : decidable(a)

\* wac/resolver.rs: an ACL that breaks the size or depth bounds ends the walk to
\* the root with an error instead of letting a document further up decide; the
\* depth counts every bracket that opens and none that stands in a string.
BoundsEndTheWalk ==
  /\ asked.rule = "depth" =>
    /\ answer.quoted = 0
    /\ answer.nested >= answer.plain
    /\ (\A i \in DOMAIN asked.of : asked.of[i] # "close") => answer.nested = answer.plain + 1
    /\ answer.bounds = "ok" => Len(asked.of) <= MaxAclBytes /\ answer.plain <= MaxAclDepth
  /\ asked.rule = "walk" =>
    LET keys == [i \in DOMAIN WalkPaths(asked.of.path) |-> AclKey(WalkPaths(asked.of.path)[i])]
        store == asked.of.store
        At(i) == keys[i] \in DOMAIN store
    IN  \A i \in DOMAIN keys :
            /\ At(i) /\ (store[keys[i]].bytes = "over" \/ store[keys[i]].depth = "over")
            /\ \A j \in 1..(i - 1) : ~At(j)
            => answer.as \in {"too_large", "bounds"}

\* The verdicts of wac/: monotone in who asks and in what is asked for, and
\* never reached past a document that breaks the bounds.
AclVerdictsSound == AccessMonotone /\ BoundsEndTheWalk

\* auth/, didkey, oidc: an accepted proof names this URL and method, was made
\* inside the clock tolerance, and is signed by the key it is accepted for (for
\* NIP-98 with the feature that checks signatures); an accepted access token is
\* signed by a key of the set, unexpired, from the issuer and bound to the key.
ProofBindsRequest ==
    /\ asked.rule = "proof" /\ Accepted(answer) =>
        LET q == asked.of
            proof == q.env.proof
            event == proof.event
            claims == proof.jwt.claims
        IN  IF proof.shape = "jws"
            THEN /\ SameButForm(claims.htu, q.env.uri) /\ SameButForm(claims.htm, q.env.method)
                 /\ Distance(q.env.now, claims.iat) <= Skew
                 /\ TheOne(answer.ok).did = DidEncode(proof.jwt.sig.key)
                 /\ proof.jwt.sig.base = [header |-> proof.jwt.header, claims |-> claims]
            ELSE /\ SameButForm(TheOne(event.u), q.env.uri)
                 /\ SameButForm(TheOne(event.method), q.env.method)
                 /\ Distance(q.env.now, event.created) <= Tolerance
                 /\ q.schnorr => event.sig.key = TheOne(answer.ok).did[2]
    /\ asked.rule = "token" /\ answer.active =>
        LET t == asked.of.token
            keys == IF asked.of.keyset.kind = "Symmetric" THEN {asked.of.keyset.secret}
                    ELSE {k.key : k \in asked.of.keyset.keys}
        IN  /\ t.sig.key \in keys /\ (t.alg = "HS256") = (asked.of.keyset.kind = "Symmetric")
            /\ t.claims.iss = asked.of.issuer /\ t.claims.exp >= asked.of.now
            /\ t.claims.cnf = Some(Thumbprint(asked.of.jwk).ok)

\* signing.rs and http_sig.rs: what the sender signed is accepted exactly when it
\* arrives unchanged; only parts the signature does not cover may differ.
SignaturesCover == asked.rule = "message" =>
    LET q == asked.of IN
    IF q.scheme = "webhook"
    THEN Accepted(answer) <=> q.got = q.sent
    ELSE /\ q.got = q.sent => Accepted(answer)
         /\ Accepted(answer) => q.got.body = q.sent.body /\ q.got.path = q.sent.path
                                /\ q.got.method = q.sent.method

\* No credential of one request or message serves another.
CredentialsBindRequest == ProofBindsRequest /\ SignaturesCover

\* config/: a server that starts uses, for every field, the value of the last of
\* defaults, file and environment that gave a readable one; the command line has
\* the host and port; and a storage root from the environment is never used
\* with another backend than the file system.
ConfigLayered == asked.rule = "startup" /\ answer.ok =>
    LET q == asked.of
        sources == <<[kind |-> "defaults"]>> \o [i \in 1..Cardinality(q.file) |-> [kind |-> "file", file |-> TheOne(q.file)]]
                   \o <<[kind |-> "env", env |-> q.env]>>
    IN  /\ \A k \in SchemaFields :
            IF k \in DOMAIN q.cli THEN answer.cfg[k] = q.cli[k]
            ELSE IF k \in DOMAIN answer.cfg THEN Some(answer.cfg[k]) = LastGiven(sources, k)
            ELSE LastGiven(sources, k) = None
        /\ "JSS_ROOT" \in DOMAIN q.env /\ "JSS_STORAGE_TYPE" \notin DOMAIN q.env =>
              answer.cfg[<<"storage", "type">>] = "fs" /\ answer.cfg[<<"storage", "root">>] = q.env["JSS_ROOT"]
        /\ answer.cfg[<<"auth", "oidc_enabled">>] => <<"auth", "oidc_issuer">> \in DOMAIN answer.cfg
=============================================================================
