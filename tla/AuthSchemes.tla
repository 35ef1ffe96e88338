---------------------------- MODULE AuthSchemes ----------------------------
(***************************************************************************)
(* The proofs a request may carry: NIP-98 events (auth/nip98.rs), did:key    *)
(* tokens (crate solid-pod-rs-didkey) behind the CidVerifier (self_signed.rs)*)
(* OIDC access tokens (oidc/mod.rs), the signatures of federation            *)
(* (http_sig.rs) and those of webhooks (notifications/signing.rs).           *)
(*                                                                         *)
(* A signature is the pair [key, base] of the key that made it and what it   *)
(* covers, so that it verifies under that key and for that text alone.  A    *)
(* digest of a body is the body.  URLs and methods are [name, variant]: two   *)
(* variants differ in case or in trailing slashes only.                      *)
(***************************************************************************)
EXTENDS Chains

Ok(v) == [ok |-> v]
Err(e) == [err |-> e]
Accepted(r) == "ok" \in DOMAIN r
Distance(a, b) == IF a < b THEN b - a ELSE a - b
SameButForm(a, b) == a.name = b.name
SigVerifies(key, base, sig) == sig.key = key /\ sig.base = base

----------------------------------------------------------------------------
(* NIP-98.  An event is [kind, key, keyHex, created, u, method, payload,      *)
(* claimsId, sig]; u, method and payload are the first tags of their names.   *)

Tolerance == 2      \* TIMESTAMP_TOLERANCE, 60 s

\* compute_event_id covers all but the id and the signature.
EventId(e) == [key |-> e.key, created |-> e.created, kind |-> e.kind,
               u |-> e.u, method |-> e.method, payload |-> e.payload]

\* verify_schnorr_signature, compiled in by a feature
VerifySchnorrSignature(e) ==
    /\ e.claimsId
    /\ SigVerifies(e.key, EventId(e), e.sig)

\* Mutation of UrlMatches: the query and path of the request are not compared.
UrlIgnored(u, url) == u # None
UrlMatches(u, url) == u # None /\ SameButForm(TheOne(u), url)

VerifyAt(header, url, method, body, now, schnorr) ==
    LET e == header.event
    IN  FirstOf(<<
        <<Err("prefix"), ~header.prefix>>,
        <<Err("size"), header.size # "ok">>,
        <<Err("decode"), ~header.decodes>>,
        <<Err("kind"), e.kind # 27235>>,
        <<Err("pubkey"), ~e.keyHex>>,
        <<Err("timestamp"), Distance(now, e.created) > Tolerance>>,
        <<Err("URL mismatch"), ~UrlMatches(e.u, url)>>,
        <<Err("method mismatch"), e.method = None \/ ~SameButForm(TheOne(e.method), method)>>,
        <<Err("payload"), body # None /\ TheOne(body) # "" /\ e.payload # body>>,
        <<Err("schnorr"), schnorr /\ ~VerifySchnorrSignature(e)>>>>, Ok(e.key))

\* Nip98Verifier: an error in a proof with the prefix ends the search, a proof
\* without it is somebody else's when it does not verify.
Nip98Error(e) == CASE e = "timestamp" -> "OutOfTimeWindow"
    [] e \in {"URL mismatch", "method mismatch"} -> "ScopeMismatch"
    [] e = "schnorr" -> "InvalidSignature" [] OTHER -> "Malformed"
Nip98Verify(env, schnorr) ==
    LET header == [env.proof EXCEPT !.prefix = TRUE]
        r == VerifyAt(header, env.uri, env.method, None, env.now, schnorr)
    IN  IF env.proof.shape = "jws"
        THEN IF env.proof.prefix THEN Err("Malformed") ELSE Ok(None)
        ELSE IF Accepted(r) THEN Ok(Some([did |-> <<"nip98", r.ok>>, method |-> <<"nip98", r.ok>>]))
        ELSE IF env.proof.prefix THEN Err(Nip98Error(r.err)) ELSE Ok(None)

----------------------------------------------------------------------------
(* did:key.  A key is [curve, bytes]; an identifier is [prefix, base, codec,  *)
(* bytes, len], with or without a fragment.                                  *)

JwsAlg == [ed25519 |-> "EdDSA", p256 |-> "ES256", secp256k1 |-> "ES256K"]
KeyLen == [ed25519 |-> 32, p256 |-> 33, secp256k1 |-> 33]
DidEncode(key) == [prefix |-> "did:key:", base |-> "z", codec |-> key.curve,
                   bytes |-> key.bytes, len |-> KeyLen[key.curve]]
DidDecode(did) == FirstOf(<<
    <<Err("NotDidKey"), did.prefix # "did:key:">>,
    <<Err("InvalidMultibase"), did.base # "z">>,
    <<Err("UnknownCodec"), did.codec \notin DOMAIN KeyLen>>,
    <<Err("InvalidKeyLength"), did.codec \in DOMAIN KeyLen /\ did.len # KeyLen[did.codec]>>>>,
    Ok([curve |-> did.codec, bytes |-> did.bytes]))

\* jwk_to_pubkey: the coordinates are there and have 32 bytes; an EC point is
\* compressed to the parity of y and x.
JwkToPubkey(jwk) == FirstOf(<<
    <<Err("InvalidHeader"), jwk.kty \notin {"OKP", "EC"}>>,
    <<Err("InvalidHeader"), ~jwk.complete>>,
    <<Err("InvalidKeyLength"), jwk.kty = "OKP" /\ jwk.len # 32>>,
    <<Err("InvalidHeader"), jwk.len # 32>>,
    <<Err("InvalidHeader"), jwk.crv \notin (IF jwk.kty = "OKP" THEN {"ed25519"} ELSE {"p256", "secp256k1"})>>>>,
    Ok([curve |-> jwk.crv, bytes |-> jwk.bytes]))

\* resolve_key: kid decides when it is there
ResolveKey(h) ==
    IF h.kid # None THEN DidDecode(TheOne(h.kid))
    ELSE IF h.jwk # None THEN JwkToPubkey(TheOne(h.jwk))
    ELSE Err("InvalidHeader")

\* exp + skew is computed in 64 bits and wraps in a release build.
WordSize == 64      \* stands for 2^64
ExpPassed(exp, skew, now) == (exp + skew) % WordSize < now

\* verify_self_signed_jwt: the signature covers header and claims
VerifySelfSignedJwt(jwt, uri, method, now, skew) ==
    LET k == ResolveKey(jwt.header)
    IN  IF ~jwt.decodes THEN Err("MalformedJwt")
        ELSE IF ~Accepted(k) THEN k
        ELSE FirstOf(<<
        <<Err("InvalidHeader"), jwt.header.alg # JwsAlg[k.ok.curve]>>,
        <<Err("BadSignature"), ~SigVerifies(k.ok, [header |-> jwt.header, claims |-> jwt.claims], jwt.sig)>>,
        <<Err("InvalidClaims"), ~SameButForm(jwt.claims.htm, method)>>,
        <<Err("InvalidClaims"), ~SameButForm(jwt.claims.htu, uri)>>,
        <<Err("InvalidClaims"), Distance(now, jwt.claims.iat) > skew>>,
        <<Err("InvalidClaims"), \E e \in jwt.claims.exp : ExpPassed(e, skew, now)>>>>,
        Ok([did |-> DidEncode(k.ok),
            method |-> IF jwt.header.kid # None THEN TheOne(jwt.header.kid) ELSE DidEncode(k.ok)]))

\* DidKeyVerifier: a header that names no did:key is left to the others.
DidKeyError(e) == CASE e = "MalformedJwt" -> Err("Malformed")
    [] e \in {"InvalidHeader", "NotDidKey"} -> Ok(None)
    [] e = "InvalidClaims" -> Err("ScopeMismatch")
    [] e = "BadSignature" -> Err("InvalidSignature") [] OTHER -> Err("Other")
DidKeyVerify(env, skew) ==
    IF env.proof.shape # "jws" \/ env.proof.prefix THEN Ok(None)
    ELSE LET r == VerifySelfSignedJwt(env.proof.jwt, env.uri, env.method, env.now, skew)
         IN  IF Accepted(r) THEN Ok(Some(r.ok)) ELSE DidKeyError(r.err)

\* CidVerifier: the first verifier that knows the proof decides.
VerifyWith(v, env, schnorr, skew) ==
    IF v = "nip98" THEN Nip98Verify(env, schnorr) ELSE DidKeyVerify(env, skew)
CidVerify(inner, env, schnorr, skew) ==
    LET r(i) == VerifyWith(inner[i], env, schnorr, skew)
    IN  FirstOf([i \in DOMAIN inner |-> <<r(i), r(i) # Ok(None)>>], Err("UnrecognisedFormat"))

----------------------------------------------------------------------------
(* OIDC access tokens: [alg, kid, sig, claims].                               *)

\* Jwk::thumbprint covers the members that the key type requires.
Thumbprint(jwk) == CASE
    jwk.kty = "EC" -> IF jwk.complete THEN Ok(<<"EC", jwk.crv, jwk.bytes>>) ELSE Err("missing")
    [] jwk.kty \in {"RSA", "OKP", "oct"} ->
        IF jwk.complete THEN Ok(<<jwk.kty, jwk.bytes>>) ELSE Err("missing")
    [] OTHER -> Err("kty")

\* The decoding key for a pair of algorithm and key set: exact kid, or the
\* first key that advertises the algorithm.
AsymmetricAlgs == {"RS256", "ES256", "EdDSA"}
TokenKey(token, keyset) ==
    LET named == {k \in keyset.keys : IF token.kid # None THEN Some(k.kid) = token.kid
                                      ELSE k.alg = token.alg}
    IN  IF token.alg = "HS256"
        THEN IF keyset.kind = "Symmetric" THEN Ok(keyset.secret) ELSE Err("HS256")
        ELSE IF token.alg \notin AsymmetricAlgs THEN Err("alg")
        ELSE IF keyset.kind = "Symmetric" THEN Err("keyset")
        ELSE IF named = {} THEN Err("kid") ELSE Ok(TheOne(named).key)

\* extract_webid: the claim, or a subject that is a URL
ExtractWebid(c) == IF \E w \in c.webid : w.url THEN c.webid
                   ELSE IF c.sub.url THEN Some(c.sub) ELSE None

\* the library checks the algorithm of the key, the signature and the issuer
VerifyAccessToken(token, keyset, issuer, jkt, now) ==
    LET k == TokenKey(token, keyset)
        c == token.claims
    IN  IF ~Accepted(k) THEN k
        ELSE FirstOf(<<
        <<Err("decode"), ~SigVerifies(k.ok, [alg |-> token.alg, claims |-> c], token.sig)>>,
        <<Err("decode"), c.iss # issuer>>,
        <<Err("expired"), c.exp < now>>,
        <<Err("cnf"), c.cnf # Some(jkt)>>,
        <<Err("webid"), ExtractWebid(c) = None>>>>,
        Ok([webid |-> ExtractWebid(c), iss |-> c.iss, jkt |-> jkt, exp |-> c.exp]))

\* IntrospectionResponse::from_verified and inactive
Introspect(r) == IF Accepted(r) THEN [active |-> TRUE, claims |-> r.ok] ELSE [active |-> FALSE]

----------------------------------------------------------------------------
(* HTTP signatures of federation.  A request is [method, path, headers, body];*)
(* headers is a function from names, sig its parsed Signature header.        *)

\* parse_signature_header: what the header leaves out gets a default
ParsedSignature(s) == [s EXCEPT
    !.algorithm = IF @ = "" THEN "rsa-sha256" ELSE @,
    !.headers = IF @ = {} THEN {"date"} ELSE @]

\* build_signature_base: the covered lines, with their values
CoveredValue(req, h) ==
    IF h = "(request-target)" THEN <<req.method, req.path>> ELSE <<req.headers[h]>>
SignatureBase(req, covered) == [h \in covered |-> CoveredValue(req, h)]

ApSignRequest(req, key, host, date) ==
    LET signed == [req EXCEPT !.headers = [host |-> host, date |-> date, digest |-> req.body]]
        covered == {"(request-target)", "host", "date", "digest"}
    IN  [signed EXCEPT !.sig = Some([keyId |-> key, algorithm |-> "rsa-sha256", headers |-> covered,
            signature |-> [key |-> key, base |-> SignatureBase(signed, covered)]])]

\* verify_request_signature: keys is what the resolver finds for a key id.  A
\* digest is compared only when the signature covers it.
ApVerifyRequest(req, keys) ==
    IF req.sig = None THEN Err("MissingHeader")
    ELSE LET s == ParsedSignature(TheOne(req.sig))
             missing == s.headers \ ({"(request-target)"} \cup DOMAIN req.headers)
    IN  FirstOf(<<
        <<Err("MissingKeyId"), s.keyId = "">>,
        <<Err("UnsupportedAlgorithm"), s.algorithm \notin {"rsa-sha256", "hs2019"}>>,
        <<Err("MissingHeader"), "digest" \in s.headers /\ "digest" \in missing>>,
        <<Err("DigestMismatch"), "digest" \in s.headers \ missing /\ req.headers["digest"] # req.body>>,
        <<Err("ActorFetch"), s.keyId \notin DOMAIN keys>>,
        <<Err("VerifyFailed"), missing # {}>>>>,
        IF SigVerifies(keys[s.keyId], SignatureBase(req, s.headers), s.signature)
        THEN Ok(s.keyId) ELSE Err("VerifyFailed"))

----------------------------------------------------------------------------
(* RFC 9421 signatures of webhooks.                                        *)

\* Mutation of WebhookBase: the id of the notification is not covered.
WebhookBaseWithoutId(method, uri, h, created, keyid) ==
    <<method.name, uri, h.contentType, h.digest, h.date, created, keyid>>
\* build_signature_base: the method in capitals, the rest as it is
WebhookBase(method, uri, h, created, keyid) ==
    <<method.name, uri, h.contentType, h.digest, h.date, h.id, created, keyid>>

\* sign_request: digest, date, signature and its parameters
WebhookSign(cfg, method, uri, contentType, body, id, now) ==
    LET h == [contentType |-> contentType, digest |-> body, date |-> now, id |-> id]
    IN  [headers |-> h, body |-> body,
         input |-> [covered |-> "all", created |-> now, keyid |-> cfg.keyid, alg |-> "ed25519"],
         signature |-> [key |-> cfg.key, base |-> WebhookBase(method, uri, h, now, cfg.keyid)]]

\* verify_signed_request, with parse_signature_input: the list of components
\* has to be the expected one.  A header is None when it is missing.
WebhookVerify(key, keyid, msg, method, uri) == FirstOf(<<
    <<Err("MissingHeader"), \E f \in DOMAIN msg.headers : msg.headers[f] = "missing">>,
    <<Err("DigestMismatch"), msg.headers.digest # msg.body>>,
    <<Err("MalformedInput"), msg.input.covered # "all" \/ msg.input.alg # "ed25519">>,
    <<Err("KeyIdMismatch"), msg.input.keyid # keyid>>,
    <<Err("BadSignature"), ~SigVerifies(key,
        WebhookBase(method, uri, msg.headers, msg.input.created, keyid), msg.signature)>>>>,
    Ok(msg.body))
=============================================================================
