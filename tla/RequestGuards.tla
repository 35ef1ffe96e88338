--------------------------- MODULE RequestGuards ---------------------------
(***************************************************************************)
(* Decisions taken on a request before it reaches the storage: the dotfile   *)
(* allowlists (security/dotfile.rs), the pod a host names (multitenant.rs),  *)
(* CORS (security/cors.rs) and the acl:origin gate (wac/origin.rs).          *)
(* A path is [abs, segs]; a segment is a name.                               *)
(***************************************************************************)
EXTENDS Chains

----------------------------------------------------------------------------
(* Dotfiles.                                                               *)

DotNames == {".", "..", ".acl", ".meta", ".acl.meta", ".account", ".well-known",
             ".quota.json", ".git", ".env"}

DefaultAllowed == {".acl", ".meta", ".account"}

\* normalise_entry puts the leading dot where an entry lacks it.
WithDot == [acl |-> ".acl", meta |-> ".meta", account |-> ".account", git |-> ".git", env |-> ".env"]
NormaliseEntry(e) == IF e \in DotNames \cup {""} THEN e ELSE WithDot[e]

\* DotfileAllowlist::new and from_env: entries without a name are dropped, and
\* an empty list from the environment falls back to the defaults.
AllowlistNew(entries) == {NormaliseEntry(e) : e \in entries} \ {"", "."}
AllowlistFromEnv(raw) ==
    IF raw = None \/ AllowlistNew(TheOne(raw)) = {} THEN DefaultAllowed
    ELSE AllowlistNew(TheOne(raw))

\* Path::components: empty segments vanish, and so does "." except at the head
\* of a relative path.
Components(p) == {i \in DOMAIN p.segs :
    p.segs[i] # "" /\ (p.segs[i] = "." => ~p.abs /\ i = 1)}

\* DotfileAllowlist::is_allowed
IsAllowed(allowed, p) == \A i \in Components(p) :
    p.segs[i] \in DotNames => p.segs[i] \in allowed \ {".", ".."}

\* Mutation of StaticAllowedDotfiles: the identity provider's login is missing.
StaticWithoutAccount == {".acl", ".meta", ".well-known", ".quota.json", ".acl.meta"}
StaticAllowedDotfiles == {".acl", ".meta", ".well-known", ".quota.json", ".acl.meta", ".account"}

\* is_path_allowed: the first segment that is not admissible gives the error.
SegmentError(s) == FirstOf(<<
    <<"ok", s \in {"", "."}>>,
    <<"ParentTraversal", s = "..">>,
    <<"ok", s \notin DotNames>>,
    <<"ok", s \in StaticAllowedDotfiles>>>>, "NotAllowed")
IsPathAllowed(p) == FirstOf([i \in DOMAIN p.segs |->
    <<SegmentError(p.segs[i]), SegmentError(p.segs[i]) # "ok">>], "ok")

----------------------------------------------------------------------------
(* Pods by host name.  A host is a sequence of tokens, "." among them, that  *)
(* has already lost its capitals, with its port apart.                       *)

FileExtensions == {"ttl", "html", "ico", "svg", "json", "jsonld", "png", "jpg",
                   "jpeg", "gif", "css", "js", "woff", "woff2", "txt"}
IsFileLikeLabel(name) ==
    Len(name) >= 2 /\ name[Len(name)] \in FileExtensions /\ name[Len(name) - 1] = "."

\* scrub_dotdot: of a run of dots one is left when the run is odd.  One pass of
\* the loop is enough, since what stands between two runs is never empty.
DotRun(s, i) == {j \in DOMAIN s : \A k \in DOMAIN s :
    (i <= k /\ k <= j) \/ (j <= k /\ k <= i) => s[k] = "."}
ScrubDotdot(s) ==
    LET kept == {i \in DOMAIN s : s[i] = "." =>
                    /\ Cardinality(DotRun(s, i)) % 2 = 1
                    /\ \A j \in DotRun(s, i) : i <= j}
        nth(n) == CHOOSE i \in kept : Cardinality({j \in kept : j <= i}) = n
    IN  [n \in 1..Cardinality(kept) |-> s[nth(n)]]

StripSuffix(host, suffix) ==
    LET n == Len(host) - Len(suffix)
    IN  IF n >= 0 /\ SubSeq(host, n + 1, Len(host)) = suffix THEN Some(SubSeq(host, 1, n)) ELSE None

NoToken(name, t) == \A i \in DOMAIN name : name[i] # t

\* PathResolver and SubdomainResolver: the pod, or None for the shared root.
\* The storage path is the URL path in every case.
ResolvePath(host, path) == [pod |-> None, path |-> path]
ResolveSubdomain(base, host, path) ==
    LET label == StripSuffix(host, <<".">> \o base)
        safe == IF label = None THEN <<>> ELSE ScrubDotdot(TheOne(label))
    IN  [path |-> path,
         pod |-> FirstOf(<<
            <<None, host = base>>,
            <<None, label # None /\ IsFileLikeLabel(IF label = None THEN <<>> ELSE TheOne(label))>>,
            <<Some(safe), safe # <<>> /\ NoToken(safe, ".") /\ NoToken(safe, "/")>>>>, None)]

----------------------------------------------------------------------------
(* CORS.  A policy is [any, origins, credentials, expose, maxAge].            *)

\* parse_origins, from_env: "*" or an empty list is the wildcard.
CorsFromEnv(raw, credentials, maxAge) == [
    any |-> raw = None \/ TheOne(raw) \in {{}, {"*"}},
    origins |-> IF raw = None THEN {} ELSE TheOne(raw),
    credentials |-> credentials \in {"1", "true", "yes", "on"},
    expose |-> {"WAC-Allow", "Link", "ETag", "Accept-Patch", "Accept-Post", "Updates-Via"},
    maxAge |-> IF maxAge = None THEN 3600 ELSE TheOne(maxAge)]

\* Mutation of EchoOrigin: a wildcard answers "*" to requests without Origin
\* also when credentials are allowed.
EchoOriginStar(policy, origin) ==
    IF policy.any THEN IF origin = None THEN Some("*") ELSE origin
    ELSE origin \cap policy.origins
EchoOrigin(policy, origin) ==
    IF policy.any
    THEN IF origin = None /\ ~policy.credentials THEN Some("*") ELSE origin
    ELSE origin \cap policy.origins

Allowance(policy, echoed) ==
    {<<"Allow-Origin", e>> : e \in echoed} \cup {<<"Vary", "Origin">> : e \in echoed}
    \cup {<<"Allow-Credentials", "true">> : e \in {e \in echoed : policy.credentials}}

\* None when the origin is refused: the caller sends no CORS header.
PreflightHeaders(policy, origin, method, headers) ==
    LET echoed == EchoOrigin(policy, origin)
    IN  IF echoed = None THEN None
        ELSE Some(Allowance(policy, echoed) \cup {
            <<"Allow-Methods", IF method = "" THEN "all" ELSE method>>,
            <<"Allow-Headers", headers \ {""}>>, <<"Max-Age", policy.maxAge>>})

ResponseHeaders(policy, origin) ==
    Allowance(policy, EchoOrigin(policy, origin))
    \cup {<<"Expose-Headers", h>> : h \in {h \in {policy.expose} : h # {}}}

----------------------------------------------------------------------------
(* acl:origin.  An origin as written is [scheme, host, port, tail], the host  *)
(* a sequence of labels, port 0 when none is written, tail "" or a path.      *)

DefaultPort(scheme) == IF scheme = "https" THEN 443 ELSE 80

\* Origin::parse and from_url drop the tail and elide the default port.
OriginParse(t) ==
    IF t.host = <<>> THEN None
    ELSE Some([scheme |-> t.scheme, host |-> t.host,
               port |-> IF t.port = DefaultPort(t.scheme) THEN 0 ELSE t.port])

\* OriginPattern::parse: "*", a wildcard suffix without tail or second star, or
\* an exact origin, which has to be written in its canonical form.
PatternParse(t) ==
    IF t.host = <<"*">> /\ t.scheme = "" THEN Some([kind |-> "any"])
    ELSE IF Len(t.host) > 1 /\ t.host[1] = "*"
    THEN IF t.tail = "" /\ NoToken(Tail(t.host), "*")
         THEN Some([kind |-> "wildcard", scheme |-> t.scheme, suffix |-> Tail(t.host)])
         ELSE None
    ELSE IF t.tail = "" /\ t.port # DefaultPort(t.scheme)
    THEN {[kind |-> "exact", origin |-> o] : o \in OriginParse(t)}
    ELSE None

\* OriginPattern::matches: a wildcard ignores the port and wants at least one
\* label before its suffix.
PatternMatches(p, o) ==
    \/ p.kind = "any"
    \/ p.kind = "exact" /\ p.origin = o
    \/ p.kind = "wildcard" /\ p.scheme = o.scheme /\ Len(o.host) > Len(p.suffix)
       /\ StripSuffix(o.host, p.suffix) # None

\* extract_origin_patterns drops what does not parse.
ExtractOriginPatterns(auth) == UNION {PatternParse(t.name) : t \in auth.origin}

\* check_origin over a whole document
CheckOrigin(doc, origin) ==
    LET patterns == UNION {ExtractOriginPatterns(a) : a \in doc}
        matched == \E p \in patterns, o \in origin : PatternMatches(p, o)
    IN  FirstOf(<<
        <<"NoPolicySet", patterns = {}>>,
        <<"Permitted", matched>>,
        <<"RejectedNoOrigin", origin = None>>>>, "RejectedMismatch")
=============================================================================
