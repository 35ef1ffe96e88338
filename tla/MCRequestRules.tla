--------------------------- MODULE MCRequestRules ---------------------------
\* Inputs for every rule: both sides of each edge the code tests.
EXTENDS RequestRules

----------------------------------------------------------------------------
(* Addresses on both sides of the special ranges, and hosts that name them.   *)

Edges4 == {<<0, 0, 0, 0>>, <<0, 0, 0, 1>>, <<1, 0, 0, 0>>, <<9, 255, 255, 255>>, <<10, 0, 0, 0>>,
    <<11, 0, 0, 0>>, <<100, 63, 255, 255>>, <<100, 64, 0, 0>>, <<100, 96, 0, 0>>, <<100, 127, 255, 255>>,
    <<100, 128, 0, 0>>, <<127, 255, 0, 1>>, <<128, 0, 0, 0>>, <<169, 253, 0, 1>>, <<169, 254, 0, 1>>,
    <<169, 254, 169, 254>>, <<169, 255, 0, 0>>, <<172, 15, 0, 0>>, <<172, 16, 0, 0>>, <<172, 31, 255, 255>>,
    <<172, 32, 0, 0>>, <<192, 0, 0, 1>>, <<192, 0, 1, 0>>, <<192, 0, 2, 9>>, <<192, 88, 99, 1>>,
    <<192, 167, 0, 1>>, <<192, 168, 0, 1>>, <<198, 17, 0, 1>>, <<198, 18, 0, 1>>, <<198, 19, 255, 255>>,
    <<198, 20, 0, 0>>, <<198, 51, 100, 7>>, <<203, 0, 113, 7>>, <<223, 255, 255, 255>>, <<224, 0, 0, 0>>,
    <<239, 255, 255, 255>>, <<240, 0, 0, 0>>, <<255, 255, 255, 255>>, <<8, 8, 8, 8>>}
Mapped4(o) == <<0, 0, 0, 0, 0, 65535, o[1] * 256 + o[2], o[3] * 256 + o[4]>>
Edges6 == {Mapped4(o) : o \in Edges4} \cup {Zeros6(s) : s \in {
    <<255>>, <<256>>, <<256, 0, 0, 1>>, <<8193, 0, 1>>, <<8193, 1>>, <<8193, 3511>>, <<8193, 3512>>, <<8193, 3513>>, <<9734>>, <<64511>>,
    <<64512>>, <<65023>>, <<65024>>, <<65151>>, <<65152>>, <<65215>>, <<65216>>, <<65279>>, <<65280>>,
    <<65535>>, <<>>}}
    \cup {<<0, 0, 0, 0, 0, 0, 0, 1>>, <<0, 0, 0, 0, 0, 0, 0, 2>>, <<0, 0, 0, 0, 0, 0, 2570, 2570>>,
          <<0, 0, 0, 0, 0, 0, 2056, 2056>>, <<64768, 3778, 0, 0, 0, 0, 0, 596>>}

Host(name, ip) == [name |-> name, literal6 |-> FALSE, ip |-> ip]
Host6 == [name |-> "[::1]", literal6 |-> TRUE, ip |-> Some(V6(<<0, 0, 0, 0, 0, 0, 0, 1>>))]
NoEnv == [private |-> "", loopback |-> "", linkLocal |-> "", allow |-> {}, deny |-> {}]
Target(host, ok, addrs, env) == [host |-> host, dns |-> [ok |-> ok, addrs |-> addrs], env |-> env]
Public4 == V4(<<8, 8, 8, 8>>)
OutboundInputs ==
    {Target(Host("h", Some(ip)), TRUE, <<ip>>, NoEnv) : ip \in {V4(o) : o \in Edges4} \cup {V6(s) : s \in Edges6}}
    \cup {Target(h, ok, addrs, env) :
        h \in {Host("h", None), Host("", None), Host("metadata", None), Host6}, ok \in BOOLEAN,
        addrs \in {<<>>, <<Public4>>, <<Public4, V4(<<10, 0, 0, 1>>)>>, <<V4(<<127, 0, 0, 1>>), Public4>>},
        env \in {NoEnv, [NoEnv EXCEPT !.private = "on"], [NoEnv EXCEPT !.loopback = "1", !.deny = {Host("h", None)}],
                 [NoEnv EXCEPT !.linkLocal = "no", !.allow = {Host("h", None), Host("", None), Host6}]}}

----------------------------------------------------------------------------
(* Paths with dotfiles, hosts around a base domain, and CORS policies.        *)

P2(abs, segs) == [abs |-> abs, segs |-> segs]
SomePaths == {P2(abs, segs) : abs \in BOOLEAN, segs \in
    {<<a, b>> : a \in {"", "x", ".", "..", ".account"},
                b \in {"", "x", ".", "..", ".acl", ".meta", ".account", ".well-known", ".git", ".acl.meta"}}}
Base == <<"pods", ".", "org">>
Hosts == {Base, <<"org">>} \cup {pre \o <<".">> \o Base : pre \in
    {<<>>, <<"a">>, <<"a", ".", "b">>, <<"a", ".", "ttl">>, <<"a", ".", ".", "b">>, <<".", ".">>, <<".", "a">>, <<"a", "/">>}}
    \cup {<<"a">> \o Base}
Guard(path, entries, host, origin, cors) ==
    [path |-> path, entries |-> entries, host |-> host, base |-> Base, origin |-> origin, cors |-> cors]
SomeCors == {CorsFromEnv(raw, cred, age) : raw \in {None, Some({}), Some({"*"}), Some({"o1"}), Some({"o1", "*"})},
    cred \in {"", "true"}, age \in {None, Some(5)}}
GuardedInputs ==
    {Guard(p, e, Base, None, CorsFromEnv(None, "", None)) : p \in SomePaths,
        e \in {None, Some({}), Some({"git", ".acl"}), Some({"", "."})}}
    \cup {Guard(P2(TRUE, <<"x">>), None, h, o, c) : h \in Hosts, o \in {None, Some("o1"), Some("o2")}, c \in SomeCors}

----------------------------------------------------------------------------
(* Graphs, JSON documents, ranges, literals and Accept headers.              *)

Objects == {Iri("i"), Blank("b"), Literal(<<"x">>, None, None), Literal(<<"x">>, Some("xsd:int"), None),
            Literal(<<"x">>, None, Some("en"))}
Triples(objects) == {Triple("s", "p", o) : o \in objects}
Accented == Literal(<<"eacute">>, None, None)
TypedString == Literal(<<"x">>, Some("xsd:string"), None)
PatchInputs ==
    {[graph |-> Triples(g), deletes |-> Triples(d), inserts |-> Triples(i), oneLine |-> l] :
        g \in SUBSET (Objects \ {Blank("b")}), l \in BOOLEAN,
        d \in {{}} \cup {{o} : o \in Objects \ {Blank("b")}} \cup {{TypedString}, {Iri("i"), Accented}},
        i \in {{}, {Iri("i")}, {Literal(<<"x">>, None, None)}, {Blank("b"), Literal(<<"x">>, Some("xsd:int"), None)},
               {TypedString}, {Accented}}}

Num(n) == [num |-> n]
Key(k) == [kind |-> "key", name |-> k, at |-> 0]
Index(i, text) == [kind |-> "index", name |-> text, at |-> i]
End == [kind |-> "end", name |-> "-", at |-> 0]
Docs == {Num(0), [arr |-> <<Num(1), Num(2)>>], [obj |-> ("a" :> Num(1) @@ "b" :> [arr |-> <<Num(3)>>])],
         [obj |-> ("0" :> [obj |-> ("a" :> Num(1))])]}
Steps == {Key("a"), Key("b"), Index(0, "0"), Index(1, "1"), Index(2, "2"), End}
JsonInputs == {[doc |-> d, path |-> p, value |-> v] : d \in Docs, v \in {Num(9), [arr |-> <<>>]},
               p \in {<<s>> : s \in Steps} \cup {<<s, t>> : s \in {Key("b"), Index(0, "0"), Index(1, "1")}, t \in Steps}}

RangeInputs == {[header |-> h, total |-> n] : n \in 0..4,
    h \in {None} \cup {Some([form |-> f, start |-> s, end |-> e]) :
        f \in {"bytes", "unit", "not_a_number"}, s \in {None} \cup {Some(i) : i \in 0..4}, e \in {Some(i) : i \in 0..4}}
      \cup {Some([form |-> "bytes", start |-> Some(i), end |-> None]) : i \in 0..4}}

Chars == {"bs", "quote", "nl", "tab", "cr", "n", "t", "r", "x", "eacute"}
LiteralInputs == {Literal(v, dt, lang) : v \in SeqOf(Chars, 2) \cup SeqOf({"bs", "quote", "n", "eacute"}, 3),
                  dt \in {None, Some("xsd:int")}, lang \in {None}}
    \cup {Literal(v, None, Some("en")) : v \in SeqOf(Chars, 1)}

Entry(mime, q) == [mime |-> mime, q |-> q]
AcceptInputs == SeqOf({Entry(t, q) : t \in {"*/*", "application/ld+json", "application/n-triples", "image/png"},
                                     q \in {0, 5, 10}}, 2)

Tags == {None, Some({"*"}), Some({"e1"}), Some({"e2", "e3"}), Some({"e1", "e3"})}
ConditionalInputs == {[method |-> m, etag |-> e, ifMatch |-> a, ifNoneMatch |-> b] :
    m \in {"GET", "PUT"}, e \in {None, Some("e1"), Some("e2")}, a \in Tags, b \in Tags}
Pref(head, include, omit) == [head |-> head, include |-> include, omit |-> omit]
ListingInputs == {[members |-> ms, prefs |-> ps] : ms \in {{}, {"m"}}, ps \in SeqOf({
    Pref("return=minimal", <<"minimal">>, {}), Pref("return=representation", <<>>, {"membership"}),
    Pref("return=representation", <<"minimal">>, {}), Pref("return=representation", <<"minimal", "contained">>, {}),
    Pref("return=representation", <<"other">>, {})}, 2)}
PathInputs == {Path(s) : s \in {<<"">>, <<"c", "">>, <<"c", "x">>, <<"c", ".meta">>, <<"x.meta">>}}
    \cup {AclKey(Path(<<"c", "x">>)), AclLink(Path(<<"c", "">>))}
BodyInputs == SeqOf({"open", "close", "quote", "backslash", "x"}, 4)

----------------------------------------------------------------------------
(* ACL documents, and requests for /c/x.                                     *)

\* Targets as they are written: "./c/x" has a full stop in front, "/c/x.txt" one
\* behind "/c/x".
At(lead, p) == LET target == [lead |-> lead, path |-> p]
               IN  IF lead = "./" THEN Dotted(target, <<>>) ELSE Bare(target)
c == Path(<<"c", "">>)
x == Path(<<"c", "x">>)
WithSuffix == Dotted([lead |-> "/", path |-> Path(<<"c", "x.txt">>)], <<[lead |-> "/", path |-> x]>>)
Written(scheme, host, tail) == Http([scheme |-> scheme, host |-> host, port |-> 0, tail |-> tail])
Condition(type, ids, groups, classes) == [type |-> type, ids |-> ids, groups |-> groups, classes |-> classes]
Rule(agent, class, group, origin, to, default, mode, cond) ==
    [agent |-> agent, agentClass |-> class, agentGroup |-> group, origin |-> origin,
     accessTo |-> to, default |-> default, mode |-> mode, condition |-> cond]
Conditions == {<<>>, <<Condition(Curie(ClientCondition), {Http("app")}, {}, {})>>,
    <<Condition(Curie(IssuerCondition), {Http("idp"), Http("idp2")}, {Http("g")}, {}),
      Condition(Curie(ClientCondition), {}, {Bare("g")}, {})>>,
    <<Condition(Curie(ClientCondition), {}, {}, {Curie(Everyone)}), Condition(Http("acl:Other"), {}, {}, {})>>,
    <<Condition(Curie("acl:Other"), {}, {}, {})>>}
Subjects == {<<{Http("alice"), Http("bob")}, {}, {}>>, <<{}, {Curie(Everyone)}, {}>>,
             <<{}, {Curie(Authenticated)}, {}>>, <<{}, {}, {Http("g")}>>, <<{Dotted("alice", <<"ali">>)}, {}, {}>>}
Rules == {Rule(s[1], s[2], s[3], {}, {to}, {}, {Curie("Read"), Curie("Write")}, cond) :
              s \in Subjects, to \in {At("./", x), At("/", x)}, cond \in Conditions}
    \cup {Rule({}, {Curie(Everyone)}, {}, origin, to, {At("/", c)}, {Curie("Read")}, <<>>) :
              to \in {{}, {At("relative", x)}, {WithSuffix}},
              origin \in {{}, {Written("https", <<"o", "org">>, "")}, {Written("https", <<"*", "org">>, "")},
                          {Written("https", <<"o", "org">>, "path")}}}
Requester(w, client, issuer) == [webId |-> w, client |-> client, issuer |-> issuer]
Requesters == {Requester(w, cl, is) : w \in {None, Some("alice"), Some("eve")},
               cl \in {None, Some("app")}, is \in {None, Some("idp")}}
Question(auths, ctx, mode, registry, origin) == [auths |-> auths, ctx |-> ctx, path |-> x, mode |-> mode,
    groups |-> {<<"g", "eve">>, <<"g", "app">>}, registry |-> registry, origin |-> origin]
TheOrigin == Some([scheme |-> "https", host |-> <<"o", "org">>, port |-> 0])
AclInputs ==
    {Question(<<r>>, ctx, m, KnownConditions, None) : r \in Rules, ctx \in Requesters, m \in {"Read", "Append"}}
    \cup {Question(<<r, s>>, ctx, "Control", reg, o) : r \in {r \in Rules : r.origin # {}},
            s \in {Rule({}, {Curie(Authenticated)}, {}, {}, {At("/", x)}, {}, {Curie("Control"), Curie("Read")}, cond) : cond \in Conditions},
            ctx \in {Requester(Some("eve"), None, Some("idp"))}, reg \in {{}, KnownConditions}, o \in {None, TheOrigin}}

Body(bytes, depth, syntax) == [bytes |-> bytes, depth |-> depth, syntax |-> syntax, contentType |-> "turtle", mentionsAcl |-> FALSE]
AclBodies == {Body("over", "ok", "json"), Body("ok", "over", "json"), Body("ok", "ok", "json"), Body("ok", "ok", "other"),
           [Body("ok", "ok", "other") EXCEPT !.contentType = "other"]}
StoreInputs == {[store |-> s, path |-> p] : p \in {x, c, Root},
    s \in UNION {[keys -> AclBodies] : keys \in SUBSET {AclKey(x), AclKey(c), AclKey(Root)}}}

----------------------------------------------------------------------------
(* Proofs, tokens and signed messages.                                       *)

Form(n, v) == [name |-> n, variant |-> v]
Ed(b) == [curve |-> "ed25519", bytes |-> b]
Sign(key, base) == [key |-> key, base |-> base]
Event(kind, hex, created, u, method, id, signer) ==
    LET e == [kind |-> kind, key |-> "k1", keyHex |-> hex, created |-> created, u |-> u, method |-> method,
              payload |-> None, claimsId |-> id]
    IN  [kind |-> kind, key |-> "k1", keyHex |-> hex, created |-> created, u |-> u, method |-> method,
         payload |-> None, claimsId |-> id, sig |-> Sign(signer, EventId(e))]
Jwt(kid, jwk, alg, claims, signer) ==
    LET h == [kid |-> kid, jwk |-> jwk, alg |-> alg]
    IN  [decodes |-> TRUE, header |-> h, claims |-> claims, sig |-> Sign(signer, [header |-> h, claims |-> claims])]
Claims(htu, htm, iat, exp) == [htu |-> htu, htm |-> htm, iat |-> iat, exp |-> exp]
NoJwt == Jwt(None, None, "none", Claims(Form("", 1), Form("", 1), 0, None), Ed("k1"))
NoEvent == Event(0, FALSE, 0, None, None, FALSE, "k1")
Proof(shape, prefix, event, jwt) ==
    [shape |-> shape, prefix |-> prefix, size |-> "ok", decodes |-> TRUE, event |-> event, jwt |-> jwt]
Names2 == {Form("u", 1), Form("u", 2), Form("v", 1)}
Events == {Event(k, TRUE, 9 + t, Some(u), Some(Form("GET", 2)), TRUE, s) :
              k \in {27235, 1}, t \in {-3, -2, 0, 2, 3}, u \in Names2, s \in {"k1", "k2"}}
    \cup {Event(27235, FALSE, 9, None, None, FALSE, "k1"), Event(27235, TRUE, 9, Some(Form("u", 1)), Some(Form("PUT", 1)), TRUE, "k1")}
Jwk(kty, crv, len) == [kty |-> kty, crv |-> crv, len |-> len, complete |-> TRUE, bytes |-> "k1"]
Jwts == {Jwt(Some(DidEncode(Ed("k1"))), None, alg, Claims(u, Form("GET", 1), 9 + t, exp), Ed(s)) :
            alg \in {"EdDSA", "ES256"}, u \in Names2, t \in {-3, -2, 2, 3},
            exp \in {None, Some(5), Some(9), Some(WordSize - 1)}, s \in {"k1", "k2"}}
    \cup {Jwt(kid, jwk, "EdDSA", Claims(Form("u", 1), Form("GET", 1), 9, None), Ed("k1")) :
            kid \in {None, Some([DidEncode(Ed("k1")) EXCEPT !.base = "u"]), Some([DidEncode(Ed("k1")) EXCEPT !.len = 31])},
            jwk \in {None, Some(Jwk("OKP", "ed25519", 32)), Some(Jwk("EC", "p256", 32)), Some(Jwk("RSA", "p256", 32))}}
ProofInputs ==
    {[env |-> [proof |-> p, uri |-> Form("u", 1), method |-> Form("GET", 1), now |-> 9], order |-> o, schnorr |-> s] :
        p \in {Proof("nip98", pre, e, NoJwt) : e \in Events, pre \in BOOLEAN}
              \cup {Proof("jws", pre, NoEvent, j) : j \in Jwts, pre \in BOOLEAN},
        o \in {<<"nip98", "didkey">>, <<"didkey", "nip98">>}, s \in BOOLEAN}

Token(alg, kid, claims, signer) ==
    [alg |-> alg, kid |-> kid, claims |-> claims, sig |-> Sign(signer, [alg |-> alg, claims |-> claims])]
TokenInputs == {[token |-> Token(alg, kid, [iss |-> iss, exp |-> 9 + t, cnf |-> cnf, webid |-> w, sub |-> [id |-> "s", url |-> FALSE]], signer),
                 keyset |-> ks, issuer |-> "i1", jwk |-> jwk, now |-> 9] :
    jwk \in {Jwk("EC", "p256", 32), Jwk("OKP", "ed25519", 32), [Jwk("EC", "p256", 32) EXCEPT !.complete = FALSE]},
    alg \in {"HS256", "ES256", "none"}, kid \in {None, Some("kid1"), Some("kid2")}, iss \in {"i1", "i2"}, t \in {-1, 0},
    cnf \in {None, Some(<<"EC", "p256", "k1">>)}, w \in {None, Some([id |-> "w", url |-> TRUE])}, signer \in {"k1", "secret"},
    ks \in {[kind |-> "Symmetric", secret |-> "secret", keys |-> {}],
            [kind |-> "Asymmetric", secret |-> "", keys |-> {[kid |-> "kid1", alg |-> "ES256", key |-> "k1"]}]}}

Sent == [msg |-> WebhookSign([key |-> "k1", keyid |-> "id1"], Form("POST", 1), "u", "json", "b1", "n1", "t5"),
         method |-> Form("POST", 1), uri |-> "u"]
WebhookMessages ==
    LET m == Sent.msg
        h == m.headers
        altered == {[m EXCEPT !.body = "b2"], [m EXCEPT !.body = "b2", !.headers.digest = "b2"],
            [m EXCEPT !.headers.id = "n2"], [m EXCEPT !.headers.date = "t6"], [m EXCEPT !.headers.contentType = "text"],
            [m EXCEPT !.headers.id = "missing"], [m EXCEPT !.input.created = "t6"], [m EXCEPT !.input.keyid = "id2"],
            [m EXCEPT !.input.alg = "none"], [m EXCEPT !.input.covered = "some"], [m EXCEPT !.signature.key = "k2"]}
    IN  {[scheme |-> "webhook", key |-> "k1", keyid |-> "id1", sent |-> Sent, got |-> g] :
            g \in {Sent, [Sent EXCEPT !.uri = "v"], [Sent EXCEPT !.method = Form("PUT", 1)]}
                  \cup {[Sent EXCEPT !.msg = a] : a \in altered}}
ApSent == ApSignRequest([method |-> "POST", path |-> "/inbox", headers |-> << >>, body |-> "b1", sig |-> None], "k1", "h", 5)
ApMessages ==
    LET s == TheOne(ApSent.sig)
        sig(t) == [ApSent EXCEPT !.sig = Some(t)]
    IN  {[scheme |-> "ap", keys |-> ("k1" :> "k1" @@ "k2" :> "k2"), sent |-> ApSent, got |-> g] : g \in {
            ApSent, [ApSent EXCEPT !.body = "b2"], [ApSent EXCEPT !.body = "b2", !.headers["digest"] = "b2"],
            [ApSent EXCEPT !.path = "/other"], [ApSent EXCEPT !.method = "GET"], [ApSent EXCEPT !.sig = None],
            [ApSent EXCEPT !.headers = [k \in DOMAIN @ \ {"date"} |-> @[k]]],
            [ApSent EXCEPT !.headers = [k \in DOMAIN @ \ {"digest"} |-> @[k]]],
            sig([s EXCEPT !.algorithm = "none"]), sig([s EXCEPT !.keyId = ""]), sig([s EXCEPT !.keyId = "k2"]),
            sig([s EXCEPT !.keyId = "k3"]), sig([s EXCEPT !.headers = {}])}}
MessageInputs == WebhookMessages \cup ApMessages

----------------------------------------------------------------------------
(* Configurations.                                                         *)

Files == {None, Some([status |-> "Io", tree |-> << >>])} \cup {Some([status |-> "object", tree |-> t]) : t \in {
    << >>, <<"", "port">> :> 1 @@ <<"", "baseUrl">> :> "b1" @@ <<"", "base_url">> :> "b2",
    <<"server", "host">> :> "h1" @@ <<"", "port">> :> 1,
    <<"storage", "type">> :> "memory", <<"storage", "root">> :> "r1",
    <<"storage", "type">> :> "s3" @@ <<"storage", "bucket">> :> "b" @@ <<"storage", "region">> :> "r",
    <<"auth", "oidc_enabled">> :> TRUE @@ <<"extras", "unknown">> :> 1 @@ <<"server", "port">> :> 2}}
Size(form, n, unit) == [form |-> form, tenths |-> n, suffix |-> unit]
Envs == {<< >>, "JSS_PORT" :> "70000" @@ "JSS_HOST" :> "h2", "JSS_PORT" :> "65535" @@ "JSS_BASE_URL" :> "b3",
    "JSS_ROOT" :> "r2", "JSS_ROOT" :> "r2" @@ "JSS_STORAGE_TYPE" :> "memory",
    "JSS_STORAGE_TYPE" :> "s3" @@ "JSS_S3_BUCKET" :> "", "JSS_STORAGE_TYPE" :> "nfs",
    "JSS_IDP" :> "yes" @@ "JSS_OIDC_ENABLED" :> "maybe", "JSS_IDP" :> "on" @@ "JSS_IDP_ISSUER" :> "i1",
    "JSS_NOTIFICATIONS" :> "off" @@ "JSS_NOTIFICATIONS_WEBHOOK" :> "1" @@ "JSS_NOTIFICATIONS_LEGACY" :> "?",
    "JSS_MAX_ACL_BYTES" :> Size("number", 15, "KB") @@ "JSS_MAX_BODY_SIZE" :> Size("none", 0, "MB")
        @@ "JSS_DEFAULT_QUOTA" :> Size("number", 15, "B"),
    "JSS_SSRF_ALLOWLIST" :> {"a", ""} @@ "JSS_DOTFILE_ALLOWLIST" :> {} @@ "JSS_DPOP_REPLAY_TTL_SECONDS" :> "0"}
Clis == {<< >>, <<"server", "port">> :> 3, <<"server", "host">> :> "h3" @@ <<"server", "port">> :> 3}
SettingsInputs == {[file |-> f, env |-> e, cli |-> a] : f \in Files, e \in Envs, a \in Clis}
=============================================================================
