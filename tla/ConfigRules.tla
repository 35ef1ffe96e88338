---------------------------- MODULE ConfigRules ----------------------------
(***************************************************************************)
(* Loading the server's configuration (config/ of the core crate) and the    *)
(* start of the binary that uses it (main.rs of the server crate).  A tree   *)
(* of settings is a function from <<section, key>> to a value; the merge of  *)
(* two trees is leaf by leaf.  An environment is a function from variable    *)
(* names to text.                                                            *)
(***************************************************************************)
EXTENDS Chains, TLC

\* parse_bool, after trim and lower-casing.
ParseBool(s) ==
    IF s \in {"1", "true", "yes", "on"} THEN Some(TRUE)
    ELSE IF s \in {"0", "false", "no", "off", ""} THEN Some(FALSE) ELSE None

\* Decimal text as str::parse reads it, up to the largest value of the type.
Numerals == "0" :> 0 @@ "1" :> 1 @@ "300" :> 300 @@ "3000" :> 3000 @@ "65535" :> 65535 @@ "70000" :> 70000
ParseUnsigned(s, largest) ==
    IF s \in DOMAIN Numerals /\ Numerals[s] <= largest THEN Some(Numerals[s]) ELSE None

\* A size is written [form, tenths, suffix]: its digits and dots (well formed,
\* none, or a stray dot), ten times its number, and its unit.
Multipliers == "" :> <<1, 0>> @@ "B" :> <<1, 0>>
    @@ "KB" :> <<1000, 1>> @@ "MB" :> <<1000, 2>> @@ "GB" :> <<1000, 3>> @@ "TB" :> <<1000, 4>>
    @@ "KIB" :> <<1024, 1>> @@ "MIB" :> <<1024, 2>> @@ "GIB" :> <<1024, 3>> @@ "TIB" :> <<1024, 4>>
\* The number of bytes: exact tenths times a power, floored when the power is 1.
ParseSize(t) ==
    IF t.form # "number" \/ t.suffix \notin DOMAIN Multipliers THEN None
    ELSE LET m == Multipliers[t.suffix] IN
         Some([tenths |-> IF m[2] = 0 THEN t.tenths - (t.tenths % 10) ELSE t.tenths, unit |-> m])

Read(kind, v) ==
    CASE kind = "bool" -> ParseBool(v)
      [] kind = "u16"  -> ParseUnsigned(v, 65535)
      [] kind = "u64"  -> ParseUnsigned(v, 70000)
      [] kind = "size" -> ParseSize(v)
      [] kind = "csv"  -> Some(v \ {""})
      [] OTHER         -> Some(v)

\* The first of several variables that is set, whether or not it can be read.
FirstSet(env, vars) ==
    LET set == {i \in DOMAIN vars : vars[i] \in DOMAIN env}
    IN  IF set = {} THEN None ELSE Some(env[vars[CHOOSE i \in set : \A j \in set : i <= j]])

----------------------------------------------------------------------------
(* One row per setting that one variable, or the first of its aliases, gives. *)

Setting(section, key, kind, vars) == [key |-> <<section, key>>, kind |-> kind, vars |-> vars]

ServerSettings == {
    Setting("server", "host", "text", <<"JSS_HOST">>),
    Setting("server", "port", "u16", <<"JSS_PORT">>),
    Setting("server", "base_url", "text", <<"JSS_BASE_URL">>)}
AuthSettings == {
    Setting("auth", "oidc_enabled", "bool", <<"JSS_OIDC_ENABLED", "JSS_IDP">>),
    Setting("auth", "oidc_issuer", "text", <<"JSS_OIDC_ISSUER", "JSS_IDP_ISSUER">>),
    Setting("auth", "nip98_enabled", "bool", <<"JSS_NIP98_ENABLED">>),
    Setting("auth", "dpop_replay_ttl_seconds", "u64", <<"JSS_DPOP_REPLAY_TTL_SECONDS">>)}
SecuritySettings == {
    Setting("security", "ssrf_allow_private", "bool", <<"JSS_SSRF_ALLOW_PRIVATE">>),
    Setting("security", "ssrf_allowlist", "csv", <<"JSS_SSRF_ALLOWLIST">>),
    Setting("security", "ssrf_denylist", "csv", <<"JSS_SSRF_DENYLIST">>),
    Setting("security", "dotfile_allowlist", "csv", <<"JSS_DOTFILE_ALLOWLIST">>),
    Setting("security", "acl_origin_enabled", "bool", <<"JSS_ACL_ORIGIN_ENABLED">>),
    Setting("security", "default_quota_bytes", "size", <<"JSS_DEFAULT_QUOTA", "JSS_QUOTA_DEFAULT_BYTES">>)}
ExtrasSettings == {
    Setting("extras", "conneg_enabled", "bool", <<"JSS_CONNEG">>),
    Setting("extras", "cors_allowed_origins", "csv", <<"JSS_CORS_ALLOWED_ORIGINS">>),
    Setting("extras", "max_body_size_bytes", "size", <<"JSS_MAX_BODY_SIZE", "JSS_MAX_REQUEST_BODY">>),
    Setting("extras", "max_acl_bytes", "size", <<"JSS_MAX_ACL_BYTES">>),
    Setting("extras", "rate_limit_writes_per_min", "u64", <<"JSS_RATE_LIMIT_WRITES_PER_MIN">>),
    Setting("extras", "subdomains_enabled", "bool", <<"JSS_SUBDOMAINS">>),
    Setting("extras", "base_domain", "text", <<"JSS_BASE_DOMAIN">>),
    Setting("extras", "idp_enabled", "bool", <<"JSS_IDP_ENABLED">>),
    Setting("extras", "invite_only", "bool", <<"JSS_INVITE_ONLY">>),
    Setting("extras", "admin_key", "text", <<"JSS_ADMIN_KEY">>)}

\* A setting with an alias reads the first variable that is set; each
\* notification switch falls back to the master switch when it cannot be read.
ReadSetting(env, s) == UNION {Read(s.kind, v) : v \in FirstSet(env, s.vars)}
PlainTree(env) ==
    LET rows == {s \in ServerSettings \cup AuthSettings \cup SecuritySettings \cup ExtrasSettings :
                    ReadSetting(env, s) # None}
    IN  [k \in {s.key : s \in rows} |-> TheOne(ReadSetting(env, CHOOSE s \in rows : s.key = k))]

NotificationSwitch == "ws2023_enabled" :> "JSS_NOTIFICATIONS_WS2023"
    @@ "webhook2023_enabled" :> "JSS_NOTIFICATIONS_WEBHOOK"
    @@ "legacy_solid_01_enabled" :> "JSS_NOTIFICATIONS_LEGACY"
NotificationTree(env) ==
    LET Bool(var) == UNION {ParseBool(v) : v \in FirstSet(env, <<var>>)}
        Value(k) == IF Bool(NotificationSwitch[k]) # None THEN Bool(NotificationSwitch[k])
                    ELSE Bool("JSS_NOTIFICATIONS")
    IN  [key \in {<<"notifications", k>> : k \in {k \in DOMAIN NotificationSwitch : Value(k) # None}}
            |-> TheOne(Value(key[2]))]

\* The type decides; a root alone means the file system; a root next to
\* another type is dropped, and so is an unknown type.
StorageTree(env) ==
    LET type == FirstSet(env, <<"JSS_STORAGE_TYPE">>)
        root == FirstSet(env, <<"JSS_STORAGE_ROOT", "JSS_ROOT">>)
        Leaf(key, value) == [k \in {<<"storage", key>> : v \in value} |-> TheOne(value)]
    IN  CASE type = Some("memory") -> Leaf("type", type)
          [] type = Some("s3") -> Leaf("type", type)
                @@ Leaf("bucket", FirstSet(env, <<"JSS_S3_BUCKET">>))
                @@ Leaf("region", FirstSet(env, <<"JSS_S3_REGION">>))
                @@ Leaf("prefix", FirstSet(env, <<"JSS_S3_PREFIX">>))
          [] type = Some("fs") \/ (type = None /\ root # None) ->
                Leaf("type", Some("fs")) @@ Leaf("root", root)
          [] OTHER -> Leaf("type", None)

EnvFrom(env) == PlainTree(env) @@ NotificationTree(env) @@ StorageTree(env)

----------------------------------------------------------------------------
(* Files, the command line, and the defaults.                                *)

\* A flat file keeps host, port and base URL at its root (section ""); one
\* with a server section is taken as it is.
NormaliseFileShape(tree) ==
    LET moved == "host" :> "host" @@ "port" :> "port" @@ "baseUrl" :> "base_url" @@ "base_url" :> "base_url"
        Flat(k) == k[1] = "" /\ k[2] \in DOMAIN moved
        New(k) == IF Flat(k) THEN <<"server", moved[k[2]]>> ELSE k
        Old(n) == {k \in DOMAIN tree : New(k) = n}
        \* both spellings of the base URL: the one that sorts last stays
        From(n) == IF <<"", "base_url">> \in Old(n) THEN <<"", "base_url">> ELSE TheOne(Old(n))
    IN  IF \E k \in DOMAIN tree : k[1] = "server" THEN tree
        ELSE [n \in {New(k) : k \in DOMAIN tree} |-> tree[From(n)]]

\* A file is [status, tree]; its status is what reading and parsing it gave.
LoadFile(file) ==
    IF file.status = "object" THEN [ok |-> TRUE, tree |-> NormaliseFileShape(file.tree)]
    ELSE [ok |-> FALSE, error |-> file.status]

\* The schema: every field with its default.  An optional field has none.
Defaults ==
    <<"server", "host">> :> "0.0.0.0" @@ <<"server", "port">> :> 3000
    @@ <<"storage", "type">> :> "fs" @@ <<"storage", "root">> :> "./data"
    @@ <<"auth", "nip98_enabled">> :> TRUE @@ <<"auth", "oidc_enabled">> :> FALSE
    @@ <<"auth", "dpop_replay_ttl_seconds">> :> 300
    @@ <<"notifications", "ws2023_enabled">> :> TRUE
    @@ <<"notifications", "webhook2023_enabled">> :> FALSE
    @@ <<"notifications", "legacy_solid_01_enabled">> :> TRUE
    @@ <<"security", "ssrf_allow_private">> :> FALSE
    @@ <<"security", "ssrf_allowlist">> :> {} @@ <<"security", "ssrf_denylist">> :> {}
    @@ <<"security", "dotfile_allowlist">> :> {".acl", ".meta", ".account"}
    @@ <<"security", "acl_origin_enabled">> :> TRUE
OptionalFields ==
    {s.key : s \in ExtrasSettings} \cup {<<"auth", "oidc_issuer">>, <<"server", "base_url">>,
     <<"storage", "bucket">>, <<"storage", "region">>, <<"storage", "prefix">>}
SchemaFields == DOMAIN Defaults \cup OptionalFields

\* A command-line overlay: a storage root also chooses the file system.
CliOverlay(args) ==
    IF <<"storage", "root">> \in DOMAIN args THEN (<<"storage", "type">> :> "fs") @@ args ELSE args

OverlaySections(base, over) ==
    over @@ [k \in {k \in DOMAIN base : \A j \in DOMAIN over : j[1] # k[1]} |-> base[k]]
Overlay(base, over) == over @@ base

\* A source is [kind, tree] with kind defaults, file, env or cli.
ResolveSource(source) ==
    CASE source.kind = "defaults" -> [ok |-> TRUE, tree |-> Defaults]
      [] source.kind = "file"     -> LoadFile(source.file)
      [] source.kind = "env"      -> [ok |-> TRUE, tree |-> EnvFrom(source.env)]
      [] source.kind = "cli"      -> [ok |-> TRUE, tree |-> CliOverlay(source.args)]

\* The sources in order, the defaults when there is none; the first that
\* cannot be read ends the load.
MergeSources(sources) ==
    LET list == IF sources = <<>> THEN <<[kind |-> "defaults"]>> ELSE sources
        at[i \in 0..Len(list)] ==
            IF i = 0 THEN [ok |-> TRUE, tree |-> << >>]
            ELSE IF ~at[i - 1].ok THEN at[i - 1]
            ELSE LET next == ResolveSource(list[i]) IN
                 IF ~next.ok THEN next
                 ELSE [ok |-> TRUE, tree |-> Overlay(at[i - 1].tree, next.tree)]
    IN  at[Len(list)]

\* serde: a storage section must name a known type, and s3 its bucket and
\* region; absent fields take their default, unknown ones are dropped.
Deserialise(tree) ==
    LET Has(k) == <<"storage", k>> \in DOMAIN tree
        type == IF Has("type") THEN tree[<<"storage", "type">>] ELSE ""
    IN  IF (\E k \in DOMAIN tree : k[1] = "storage")
              /\ (type \notin {"fs", "memory", "s3"} \/ (type = "s3" /\ ~(Has("bucket") /\ Has("region"))))
        THEN [ok |-> FALSE, error |-> "shape"]
        ELSE [ok |-> TRUE, cfg |-> [k \in (DOMAIN tree \cap SchemaFields) \cup DOMAIN Defaults |->
                IF k \in DOMAIN tree THEN tree[k] ELSE Defaults[k]]]

Validate(cfg) ==
    /\ cfg[<<"auth", "oidc_enabled">>] => <<"auth", "oidc_issuer">> \in DOMAIN cfg
    /\ cfg[<<"storage", "type">>] = "s3" =>
          cfg[<<"storage", "bucket">>] # "" /\ cfg[<<"storage", "region">>] # ""

Load(sources) ==
    LET merged == MergeSources(sources) IN
    IF ~merged.ok THEN merged
    ELSE LET read == Deserialise(merged.tree) IN
         IF read.ok /\ ~Validate(read.cfg) THEN [ok |-> FALSE, error |-> "invalid"] ELSE read

\* main: defaults, the file if one is named, the environment; the host and
\* port of the command line replace what was loaded; s3 storage is not built.
Startup(file, env, cli) ==
    LET loaded == Load(<<[kind |-> "defaults"]>>
                       \o [i \in 1..Cardinality(file) |-> [kind |-> "file", file |-> TheOne(file)]]
                       \o <<[kind |-> "env", env |-> env]>>)
        cfg == cli @@ loaded.cfg
    IN  IF ~loaded.ok THEN loaded
        ELSE IF cfg[<<"storage", "type">>] = "s3" THEN [ok |-> FALSE, error |-> "no s3 backend"]
        ELSE [ok |-> TRUE, cfg |-> cfg,
              baseUrl |-> IF <<"server", "base_url">> \in DOMAIN cfg THEN cfg[<<"server", "base_url">>]
                          ELSE <<"http", cfg[<<"server", "host">>], cfg[<<"server", "port">>]>>]

----------------------------------------------------------------------------
(* What loading has to come to: every field holds what the last source that  *)
(* gave it a readable value gave.                                            *)

LastGiven(sources, k) ==
    LET givers == {i \in DOMAIN sources : k \in DOMAIN ResolveSource(sources[i]).tree}
    IN  IF givers = {} THEN None
        ELSE Some(ResolveSource(sources[CHOOSE i \in givers : \A j \in givers : j <= i]).tree[k])
=============================================================================
