------------------------------ MODULE LdpRules ------------------------------
(***************************************************************************)
(* The algorithms of ldp.rs: links, Prefer, content negotiation, the graph   *)
(* model with its N-Triples form, the three PATCH dialects, preconditions,   *)
(* byte ranges and the headers of OPTIONS and of 404.                        *)
(* Paths are those of WebAccess; an optional value is a set of at most one.  *)
(***************************************************************************)
EXTENDS WebAccess, Chains

----------------------------------------------------------------------------
(* Links and content types.                                                *)

MetaNames == {".meta", "x.meta"}
IsAclPath(p) == p.acl > 0
IsMetaPath(p) == p.acl = 0 /\ Last(p.segs) \in MetaNames
MetaSidecarFor(p) == IF IsMetaPath(p) THEN p ELSE [meta |-> p]

LinkHeaders(p) ==
    {<<"type", t>> : t \in {"Resource"} \cup
        (IF IsContainer(p) THEN {"BasicContainer", "Container"} ELSE {})}
    \cup {<<"acl", AclLink(q)>> : q \in {q \in {p} : ~IsAclPath(q)}}
    \cup {<<"describedby", MetaSidecarFor(q)>> : q \in {q \in {p} : ~IsMetaPath(q) /\ ~IsAclPath(q)}}
    \cup {<<"storage", q>> : q \in {p} \cap {Root}}

\* infer_dotfile_content_type looks at the last name, trailing slashes aside.
InferDotfileContentType(p) ==
    IF IsAclPath(p) \/ (Trimmed(p).segs # <<>> /\ Last(Trimmed(p).segs) \in MetaNames)
    THEN Some("application/ld+json") ELSE None

\* resolve_slug: why a name is refused; an absent or empty one gets a UUID.
MaxSlugBytes == 255
SlugVerdict(slug) == FirstOf(<<
    <<"uuid", slug = None>>,
    <<"too_long", \E s \in slug : s.bytes > MaxSlugBytes>>,
    <<"invalid", \E s \in slug : s.class \in {"slash", "dotdot", "nul"}>>,
    <<"disallowed", \E s \in slug : s.class = "other">>>>, "named")

----------------------------------------------------------------------------
(* Prefer and content negotiation.  A header is a sequence of its elements.   *)

\* Every include of a return=representation preference sets a flag, and the
\* last one decides the representation.
PreferParse(prefs) ==
    LET iris == FoldLeft(LAMBDA acc, p : IF p.head = "return=representation"
                            THEN acc \o p.include ELSE acc, <<>>, prefs)
        known == SelectSeq(iris, LAMBDA i : i \in {"minimal", "contained"})
    IN  [representation |-> IF known = <<>> THEN "Full"
                            ELSE IF Last(known) = "minimal" THEN "MinimalContainer"
                            ELSE "ContainedIRIsOnly",
         includeMinimal |-> \E i \in DOMAIN known : known[i] = "minimal",
         includeContained |-> \E i \in DOMAIN known : known[i] = "contained",
         omitMembership |-> \E i \in DOMAIN prefs :
            prefs[i].head = "return=representation" /\ "membership" \in prefs[i].omit]

\* RdfFormat::from_mime knows more spellings than negotiate_format.
FromMime(mime) == FirstOf(<<
    <<Some("Turtle"), mime \in {"text/turtle", "application/turtle", "application/x-turtle"}>>,
    <<Some("JsonLd"), mime \in {"application/ld+json", "application/json+ld"}>>,
    <<Some("NTriples"), mime \in {"application/n-triples", "text/plain+ntriples"}>>,
    <<Some("RdfXml"), mime = "application/rdf+xml">>>>, None)

FormatOffered(mime) == FirstOf(<<
    <<Some("Turtle"), mime \in {"text/turtle", "application/turtle", "*/*", "application/*", "text/*"}>>,
    <<Some("JsonLd"), mime = "application/ld+json">>,
    <<Some("NTriples"), mime = "application/n-triples">>,
    <<Some("RdfXml"), mime = "application/rdf+xml">>>>, None)

\* Mutation of Better: a later entry with the same q wins.
BetterOrEqual(q, best) == best = None \/ q >= TheOne(best).q
Better(q, best) == best = None \/ q > TheOne(best).q

\* negotiate_format: the loop keeps the best entry so far; q is in tenths and
\* counts as 10 when it is missing or does not parse.
NegotiateFormat(accept) ==
    LET keep(best, e) == IF FormatOffered(e.mime) # None /\ Better(e.q, best)
                         THEN Some([q |-> e.q, format |-> TheOne(FormatOffered(e.mime))])
                         ELSE best
        best == FoldLeft(keep, None, accept)
    IN  IF best = None THEN "Turtle" ELSE TheOne(best).format

\* render_container_jsonld and render_container_turtle: which members and which
\* statements of type a representation carries.
RenderContainer(members, prefer) ==
    [contains |-> IF prefer.representation = "MinimalContainer" THEN {} ELSE members,
     types |-> prefer.representation # "ContainedIRIsOnly"]

----------------------------------------------------------------------------
(* Terms, graphs and N-Triples.  A literal's value is a sequence of           *)
(* characters; "bs" is a backslash, "nl" a newline, "tab" and "cr" likewise.  *)

Literal(v, dt, lang) == [kind |-> "literal", value |-> v, datatype |-> dt, language |-> lang]
Iri(i) == [kind |-> "iri", value |-> i]
Blank(b) == [kind |-> "blank", value |-> b]

\* Mutation of Escape: a backslash is written as it is.
EscapeKeepsBackslash(c) ==
    IF c \in {"quote", "nl", "cr", "tab"}
    THEN <<"bs", CASE c = "quote" -> "quote" [] c = "nl" -> "n" [] c = "cr" -> "r" [] OTHER -> "t">>
    ELSE <<c>>
Escape(c) ==
    IF c \in {"bs", "quote", "nl", "cr", "tab"}
    THEN <<"bs", CASE c = "bs" -> "bs" [] c = "quote" -> "quote" [] c = "nl" -> "n"
                   [] c = "cr" -> "r" [] OTHER -> "t">>
    ELSE <<c>>
Unescape(c) == CASE c = "n" -> "nl" [] c = "t" -> "tab" [] c = "r" -> "cr" [] OTHER -> c

\* write_ntriples, for the value between the quotes and what follows them
WriteLiteral(l) ==
    <<"quote">> \o FlattenSeq([i \in DOMAIN l.value |-> Escape(l.value[i])]) \o <<"quote">>
    \o (IF l.language # None THEN <<"@", TheOne(l.language)>>
        ELSE IF l.datatype # None THEN <<"^^<", TheOne(l.datatype), ">">> ELSE <<>>)

\* The bytes of a character, named by the character that has their value:
\* "eacute" stands for the characters beyond ASCII.
Utf8(c) == IF c = "eacute" THEN <<"A-tilde", "copyright">> ELSE <<c>>

\* read_literal scans to the first quote that no backslash precedes, and takes
\* every byte for a character.
ReadLiteral(text) ==
    LET s == FlattenSeq([i \in DOMAIN text |-> Utf8(text[i])])
        scan[i \in 1..Len(s) + 2] ==
            IF i > Len(s) THEN [value |-> <<>>, end |-> i]
            ELSE IF s[i] = "bs" /\ i < Len(s)
            THEN [value |-> <<Unescape(s[i + 1])>> \o scan[i + 2].value, end |-> scan[i + 2].end]
            ELSE IF s[i] = "quote" THEN [value |-> <<>>, end |-> i + 1]
            ELSE [value |-> <<s[i]>> \o scan[i + 1].value, end |-> scan[i + 1].end]
        r == scan[2]
        rest == SubSeq(s, r.end, Len(s))
    IN  IF rest # <<>> /\ rest[1] = "^^<" THEN Literal(r.value, Some(rest[2]), None)
        ELSE IF rest # <<>> /\ rest[1] = "@" THEN Literal(r.value, None, Some(rest[2]))
        ELSE Literal(r.value, None, None)

Triple(s, p, o) == [s |-> s, p |-> p, o |-> o]

\* server_managed_triples and find_illegal_server_managed
ServerManagedPredicates == {"dcterms:modified", "stat:size", "stat:mtime", "ldp:contains"}
ServerManagedTriples(r, modified, size, container, contained) ==
    {Triple(r, "dcterms:modified", modified), Triple(r, "stat:size", size), Triple(r, "stat:mtime", modified)}
    \cup {Triple(r, "ldp:contains", c) : c \in IF container THEN contained ELSE {}}
FindIllegalServerManaged(graph) == {t \in graph : t.p \in ServerManagedPredicates}
=============================================================================
