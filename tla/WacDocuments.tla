---------------------------- MODULE WacDocuments ----------------------------
(***************************************************************************)
(* The whole of wac/: the conditions of WAC 2.0, the evaluation with groups, *)
(* conditions and origins, the bounds of the parsers, and the Turtle form of *)
(* an ACL document, written by serializer.rs and read back by parser.rs.     *)
(*                                                                         *)
(* An identifier is [name, form, dotted]: the form is "curie" for a name     *)
(* with a known prefix, "http" for an absolute IRI and "bare" for the rest;  *)
(* dotted says whether a full stop occurs in it, and stem what stands before  *)
(* it in a bare one: one name, or none in "./c/x".  An authorization has a    *)
(* set of identifiers for each predicate, and a sequence of conditions.      *)
(***************************************************************************)
EXTENDS WebAccess, RequestGuards

Curie(n) == [name |-> n, form |-> "curie", dotted |-> FALSE, stem |-> <<>>]
Http(n) == [name |-> n, form |-> "http", dotted |-> TRUE, stem |-> <<>>]
Bare(n) == [name |-> n, form |-> "bare", dotted |-> FALSE, stem |-> <<>>]
Dotted(n, stem) == [name |-> n, form |-> "bare", dotted |-> TRUE, stem |-> stem]
Names(ids) == {i.name : i \in ids}

----------------------------------------------------------------------------
(* Conditions: [type, ids, groups, classes], the type an identifier.          *)

ClientCondition == "acl:ClientCondition"
IssuerCondition == "acl:IssuerCondition"
KnownConditions == {ClientCondition, IssuerCondition}

\* ClientConditionEvaluator and IssuerConditionEvaluator differ in the subject:
\* the client or the issuer of the request, which may be missing.
EvaluateCondition(cond, subject, groups) ==
    IF \/ Everyone \in Names(cond.classes)
       \/ \E s \in subject : \/ s \in Names(cond.ids)
                             \/ \E g \in Names(cond.groups) : <<g, s>> \in groups
    THEN "Satisfied" ELSE "Denied"

\* ConditionRegistry::dispatch; the EmptyDispatcher is the empty registry.
Dispatch(cond, ctx, groups, registry) ==
    IF cond.type.name \notin registry \cap KnownConditions THEN "NotApplicable"
    ELSE EvaluateCondition(cond, IF cond.type.name = ClientCondition THEN ctx.client ELSE ctx.issuer, groups)

\* validate_for_write: the first condition of a type nobody knows
UnsupportedConditions(auths) ==
    {c \in UNION {ToSet(a.condition) : a \in auths} : c.type.name \notin KnownConditions}

----------------------------------------------------------------------------
(* Evaluation.                                                             *)

\* normalize_path: "./", "." and "/" all lead to an absolute path; a path that
\* starts otherwise stays relative and matches no request.
NormalizePath(w) == IF w.lead = "relative" THEN None ELSE Some(Trimmed(w.path))

\* path_matches for the targets of one predicate

TargetMatches(targets, p, isDefault) ==
    \E w \in Names(targets) : \E r \in NormalizePath(w) : PathMatches(r, p, isDefault)

AgentMatchesWithGroups(auth, webId, groups) ==
    \/ webId \cap Names(auth.agent) # {}
    \/ Everyone \in Names(auth.agentClass)
    \/ webId # None /\ Authenticated \in Names(auth.agentClass)
    \/ \E u \in webId, g \in Names(auth.agentGroup) : <<g, u>> \in groups

\* Mutation of ConditionsHold: one satisfied condition is enough.
AnyConditionHolds(auth, ctx, groups, registry) == auth.condition = <<>> \/
    \E i \in DOMAIN auth.condition : Dispatch(auth.condition[i], ctx, groups, registry) = "Satisfied"
ConditionsHold(auth, ctx, groups, registry) ==
    \A i \in DOMAIN auth.condition : Dispatch(auth.condition[i], ctx, groups, registry) = "Satisfied"

\* evaluate_access_ctx_inner: doc is None or the authorizations of the graph;
\* Control passes without the origin gate.
EvaluateAccessCtx(doc, ctx, p, mode, origin, groups, registry) ==
    /\ \E auths \in doc : \E auth \in auths :
        /\ \E m \in Names(auth.mode) : mode \in MapMode(m)
        /\ AgentMatchesWithGroups(auth, ctx.webId, groups)
        /\ TargetMatches(auth.accessTo, p, FALSE) \/ TargetMatches(auth.default, p, TRUE)
        /\ ConditionsHold(auth, ctx, groups, registry)
    /\ mode = "Control" \/ CheckOrigin(TheOne(doc), origin) \in {"NoPolicySet", "Permitted"}

\* evaluate_access_with_groups, and evaluate_access without any group
Anonymous == [webId |-> None, client |-> None, issuer |-> None]
EvaluateAccessWithGroups(doc, webId, p, mode, origin, groups) ==
    EvaluateAccessCtx(doc, [Anonymous EXCEPT !.webId = webId], p, mode, origin, groups, {})

AllModes == {"Read", "Write", "Append", "Control"}
MethodToMode(method) == CASE method \in {"PUT", "DELETE", "PATCH"} -> "Write"
    [] method = "POST" -> "Append" [] OTHER -> "Read"

\* wac_allow_header_with_dispatcher; wac_allow_header is the case without
\* groups and conditions.
WacAllowHeader(doc, ctx, p, groups, registry) ==
    LET modes(c) == {m \in AllModes : EvaluateAccessCtx(doc, c, p, m, None, groups, registry)}
    IN  [user |-> modes(ctx), public |-> modes([ctx EXCEPT !.webId = None])]

----------------------------------------------------------------------------
(* The bounds.  A body is a sequence of the bytes that matter.                *)

\* check_json_depth, one byte: the scan ignores what stands in a string
DepthStep(s, b) ==
    IF s.inStr
    THEN [s EXCEPT !.esc = ~s.esc /\ b = "backslash", !.inStr = s.esc \/ b # "quote"]
    ELSE CASE b = "quote" -> [s EXCEPT !.inStr = TRUE]
           [] b = "open" -> [s EXCEPT !.depth = @ + 1, !.top = IF @ > s.depth THEN @ ELSE s.depth + 1]
           [] b = "close" -> [s EXCEPT !.depth = IF @ = 0 THEN 0 ELSE @ - 1]
           [] OTHER -> s
JsonDepth(body) ==
    FoldLeft(DepthStep, [depth |-> 0, top |-> 0, inStr |-> FALSE, esc |-> FALSE], body).top

\* parse_jsonld_acl_with_limits up to the call of serde
ParseJsonldBounds(body, maxBytes, maxDepth) == FirstOf(<<
    <<"PayloadTooLarge", Len(body) > maxBytes>>,
    <<"BadRequest", JsonDepth(body) > maxDepth>>>>, "ok")

\* Mutation of ReadAclBody: a document beyond the bounds is passed over.
ReadAclBodyOrPass(b) == FirstOf(<<
    <<"next", b.bytes = "over" \/ b.depth = "over">>,
    <<"jsonld", b.syntax = "json">>,
    <<"turtle", b.contentType = "turtle" \/ b.mentionsAcl>>>>, "next")
\* One document found on the walk of find_effective_acl: the JSON-LD parser
\* first; what it refuses as JSON is tried as Turtle, or the walk goes on.
ReadAclBody(b) == FirstOf(<<
    <<"too_large", b.bytes = "over">>,
    <<"bounds", b.depth = "over">>,
    <<"jsonld", b.syntax = "json">>,
    <<"turtle", b.contentType = "turtle" \/ b.mentionsAcl>>>>, "next")

\* StorageAclResolver: the paths of the walk, and the first document that ends it
WalkPaths(p) ==
    LET walk[n \in Nat] == IF n = 1 THEN <<p>>
            ELSE IF Last(walk[n - 1]) = Root THEN walk[n - 1]
            ELSE Append(walk[n - 1], Parent(Last(walk[n - 1])))
    IN  walk[Len(p.segs) + 2]
FindEffectiveAcl(store, p) ==
    LET keys == [i \in DOMAIN WalkPaths(p) |-> AclKey(WalkPaths(p)[i])]
        read(k) == IF k \in DOMAIN store THEN ReadAclBody(store[k]) ELSE "next"
    IN  FirstOf([i \in DOMAIN keys |-> <<[key |-> keys[i], as |-> read(keys[i])], read(keys[i]) # "next">>],
                [as |-> "none"])

----------------------------------------------------------------------------
(* Turtle.  A document is a sequence of tokens; a term is <<id, quoted>>.      *)

Punct == {"a", ";", ",", ".", "[", "]"}
Tok(id, iri) == [id |-> id, iri |-> iri]
IsTerm(t) == t \notin {[p |-> x] : x \in Punct}
P(x) == [p |-> x]

\* emit_pairs and emit_body_pair quote what starts with http; a full stop in a
\* bare identifier is a token of its own, between the stem and the rest.
Rest == Bare("rest")
WriteTerm(id, quoted) ==
    IF quoted THEN <<Tok(id, TRUE)>>
    ELSE IF id.dotted
    THEN [k \in DOMAIN id.stem |-> Tok(Bare(id.stem[k]), FALSE)] \o <<P("."), Tok(Rest, FALSE)>>
    ELSE <<Tok(id, FALSE)>>
EmitPairs(pred, ids) ==
    LET order == SetToSeq(ids)
        one(i) == (IF i = 1 THEN <<>> ELSE <<P(",")>>) \o WriteTerm(order[i], order[i].form = "http")
    IN  IF ids = {} THEN <<>>
        ELSE <<P(";"), Tok(Curie(pred), FALSE)>> \o FlattenSeq([i \in DOMAIN order |-> one(i)])

ConditionPredicates ==
    (ClientCondition :> [ids |-> "acl:client", groups |-> "acl:clientGroup", classes |-> "acl:clientClass"])
    @@ (IssuerCondition :> [ids |-> "acl:issuer", groups |-> "acl:issuerGroup", classes |-> "acl:issuerClass"])

\* emit_conditions: the type is written without brackets
EmitCondition(c) ==
    LET pred == ConditionPredicates[c.type.name]
    IN  <<P(";"), Tok(Curie("acl:condition"), FALSE), P("["), P("a")>> \o WriteTerm(c.type, FALSE)
        \o (IF c.type.name \notin KnownConditions THEN <<>>
            ELSE EmitPairs(pred.ids, c.ids) \o EmitPairs(pred.groups, c.groups)
                 \o EmitPairs(pred.classes, c.classes))
        \o <<P("]")>>

SerializeAuthorization(a) ==
    <<Tok(Bare("#rule"), TRUE), P("a"), Tok(Curie("acl:Authorization"), FALSE)>>
    \o EmitPairs("acl:agent", a.agent) \o EmitPairs("acl:agentClass", a.agentClass)
    \o EmitPairs("acl:agentGroup", a.agentGroup) \o EmitPairs("acl:origin", a.origin)
    \o EmitPairs("acl:accessTo", a.accessTo) \o EmitPairs("acl:default", a.default)
    \o EmitPairs("acl:mode", a.mode)
    \o FlattenSeq([i \in DOMAIN a.condition |-> EmitCondition(a.condition[i])]) \o <<P(".")>>
SerializeTurtleAcl(auths) == FlattenSeq([i \in DOMAIN auths |-> SerializeAuthorization(auths[i])])

\* The sequence cut at the separators where no bracket is open.  The splitting
\* of statements does not look at brackets, that of predicate lists does.
SplitAt(toks, sep, nesting) ==
    LET open(i) == IF ~nesting THEN FALSE
                   ELSE Cardinality({j \in 1..i : toks[j] = P("[")})
                        > Cardinality({j \in 1..i : toks[j] = P("]")})
        cuts == {i \in DOMAIN toks : toks[i] = P(sep) /\ ~open(i)} \cup {0, Len(toks) + 1}
        next(c) == CHOOSE d \in cuts : d > c /\ \A e \in cuts : e > c => d <= e
        starts == SetToSortSeq(cuts \ {Len(toks) + 1}, <)
    IN  SelectSeq([k \in DOMAIN starts |-> SubSeq(toks, starts[k] + 1, next(starts[k]) - 1)],
                  LAMBDA s : s # <<>>)

\* expand_curie_or_iri: a curie with a known prefix becomes the full IRI
ExpandCurie(t) == IF t.id.form = "curie" THEN [t.id EXCEPT !.form = "http", !.dotted = TRUE] ELSE t.id

\* parse_object_list: terms with commas between them, up to what is neither
ObjectList(toks) ==
    LET good == {n \in 0..Len(toks) : \A i \in 1..n :
                    IF i % 2 = 1 THEN IsTerm(toks[i]) ELSE toks[i] = P(",")}
        n == CHOOSE n \in good : \A m \in good : m <= n
    IN  {ExpandCurie(toks[i]) : i \in {i \in 1..n : i % 2 = 1}}

\* The objects of the pairs of a predicate; in an authorization the last pair
\* with the predicate counts, in a condition all do.
PairsFor(pairs, pred) == SelectSeq(pairs, LAMBDA q :
    IsTerm(q[1]) /\ q[1].id.name = pred)
LastObjects(pairs, pred) ==
    LET found == PairsFor(pairs, pred)
    IN  IF found = <<>> THEN {} ELSE ObjectList(Tail(Last(found)))
AllObjects(pairs, pred) ==
    UNION {ObjectList(Tail(q)) : q \in ToSet(PairsFor(pairs, pred))}
TypesOf(pairs) == UNION {ObjectList(Tail(q)) : q \in {q \in ToSet(pairs) : q[1] = P("a")}}

\* parse_turtle_condition_body: None without a type
ConditionBody(toks) ==
    LET pairs == SplitAt(toks, ";", TRUE)
        type == TypesOf(pairs)
        of(t, field) == IF t.name \notin KnownConditions THEN {}
                        ELSE AllObjects(pairs, ConditionPredicates[t.name][field])
    IN  {[type |-> t, ids |-> of(t, "ids"), groups |-> of(t, "groups"), classes |-> of(t, "classes")] : t \in type}

\* parse_turtle_condition_objects, for one object: a balanced body, or an
\* identifier kept as an unknown type; an unbalanced body leaves nothing.
ConditionObjects(toks) ==
    IF toks = <<>> THEN <<>>
    ELSE IF toks[1] # P("[")
    THEN <<[type |-> ExpandCurie(toks[1]), ids |-> {}, groups |-> {}, classes |-> {}]>>
    ELSE IF Last(toks) # P("]") THEN <<>>
    ELSE SetToSeq(ConditionBody(SubSeq(toks, 2, Len(toks) - 1)))

\* parse_turtle_authorization: the subject goes, then one pair after the other
ParseAuthorization(toks) ==
    LET pairs == SplitAt(Tail(toks), ";", TRUE)
        of(pred) == LastObjects(pairs, pred)
        conds == PairsFor(pairs, "acl:condition")
    IN  IF "acl:Authorization" \notin Names(TypesOf(pairs)) THEN {}
        ELSE {[agent |-> of("acl:agent"), agentClass |-> of("acl:agentClass"),
               agentGroup |-> of("acl:agentGroup"), origin |-> of("acl:origin"),
               accessTo |-> of("acl:accessTo"), default |-> of("acl:default"), mode |-> of("acl:mode"),
               condition |-> FlattenSeq([i \in DOMAIN conds |-> ConditionObjects(Tail(conds[i]))])]}

ParseTurtleAcl(toks) ==
    LET auths == UNION {ParseAuthorization(s) : s \in ToSet(SplitAt(toks, ".", FALSE))}
    IN  IF auths = {} THEN None ELSE Some(auths)
=============================================================================
