------------------------------ MODULE LdpPatch ------------------------------
(***************************************************************************)
(* The PATCH dialects, the preconditions, the byte ranges and the discovery  *)
(* headers of ldp.rs.                                                      *)
(***************************************************************************)
EXTENDS LdpRules

Failed(e) == [err |-> e]
IsOk(r) == "err" \notin DOMAIN r

----------------------------------------------------------------------------
(* N3: [inserts, deletes, where], blocks found by extract_block (which counts  *)
(* the braces inside literals too: such texts are left out).  A block is a     *)
(* sequence of lines, each the sequence of the triples written on it; one that *)
(* does not parse as N-Triples makes the patch unsupported.                   *)

\* read_term: an IRI or a blank node is cut out of the text, a literal is read
\* byte by byte.
ReadTerm(o) == IF o.kind = "literal" THEN ReadLiteral(WriteLiteral(o)) ELSE o

\* parse_ntriples skips empty lines; parse_nt_line reads the first triple of a
\* line and drops what follows it.
BlockTriples(b) ==
    LET lines == IF b = None THEN <<>> ELSE SelectSeq(TheOne(b).lines, LAMBDA l : l # <<>>)
    IN  {[lines[i][1] EXCEPT !.o = ReadTerm(@)] : i \in DOMAIN lines}
BlockParses(b) == b = None \/ TheOne(b).parses

ApplyN3Patch(target, patch) == FirstOf(<<
    <<Failed("unsupported"), ~BlockParses(patch.inserts) \/ ~BlockParses(patch.deletes)>>,
    <<Failed("unsupported"), ~BlockParses(patch.where)>>,
    <<Failed("precondition"), ~(BlockTriples(patch.where) \subseteq target)>>>>,
    [graph |-> (target \ BlockTriples(patch.deletes)) \cup BlockTriples(patch.inserts),
     inserted |-> Cardinality(BlockTriples(patch.inserts)),
     deleted |-> Cardinality(BlockTriples(patch.deletes) \cap target)])

----------------------------------------------------------------------------
(* SPARQL Update: a sequence of operations on quads [triple, default, ground]. *)

\* Mutation of BuildLiteral: xsd:string is kept on plain literals.
BuildLiteralTyped(l) == l
\* build_literal: spargebra gives every plain literal the type xsd:string,
\* which is dropped again.
BuildLiteral(l) == IF l.datatype = Some("xsd:string") THEN [l EXCEPT !.datatype = None] ELSE l
FromSpargebra(l) ==
    IF l.datatype = None /\ l.language = None THEN [l EXCEPT !.datatype = Some("xsd:string")] ELSE l
MapTerm(t) == IF t.kind = "literal" THEN BuildLiteral(FromSpargebra(t)) ELSE t

\* quad_to_triple and its two siblings: only quads of the default graph, and
\* for the patterns only ground ones, take part.
MapTriple(t) == [t EXCEPT !.o = MapTerm(@)]
QuadTriples(quads) == {MapTriple(q.triple) : q \in {q \in quads : q.default /\ q.ground}}

ApplyOperation(r, op) ==
    LET del == IF op.kind = "InsertData" THEN {} ELSE QuadTriples(op.delete)
        ins == IF op.kind = "DeleteData" THEN {} ELSE QuadTriples(op.insert)
        left == r.graph \ del
    IN  IF ~IsOk(r) THEN r
        ELSE IF op.kind \notin {"InsertData", "DeleteData", "DeleteInsert"} THEN Failed("unsupported")
        ELSE [graph |-> left \cup ins, inserted |-> r.inserted + Cardinality(ins \ left),
              deleted |-> r.deleted + Cardinality(del \cap r.graph)]

ApplySparqlPatch(target, ops) ==
    FoldLeft(ApplyOperation, [graph |-> target, inserted |-> 0, deleted |-> 0], ops)

\* apply_patch_to_absent
ApplyPatchToAbsent(dialect, patch) == CASE
    dialect = "N3" -> ApplyN3Patch({}, patch)
    [] dialect = "SparqlUpdate" -> ApplySparqlPatch({}, patch)
    [] OTHER -> Failed("unsupported")

PatchDialectFromMime(mime) == FirstOf(<<
    <<Some("N3"), mime \in {"text/n3", "application/n3"}>>,
    <<Some("SparqlUpdate"), mime \in {"application/sparql-update", "application/sparql-update+update"}>>,
    <<Some("JsonPatch"), mime = "application/json-patch+json">>>>, None)

----------------------------------------------------------------------------
(* JSON Patch.  A value is an object [obj], an array [arr] or a scalar [num].  *)
(* A pointer is a sequence of tokens: keys, indices (from 0) or "-".          *)

IsObj(v) == "obj" \in DOMAIN v
IsArr(v) == "arr" \in DOMAIN v
IsIndex(t) == t.kind = "index"

\* serde_json's pointer, one token: the child, if there is one
Child(v, t) ==
    IF IsObj(v) THEN IF t.name \in DOMAIN v.obj THEN Some(v.obj[t.name]) ELSE None
    ELSE IF IsArr(v) /\ IsIndex(t) /\ t.at < Len(v.arr) THEN Some(v.arr[t.at + 1])
    ELSE None

JsonPointerGet(v, path) ==
    FoldLeft(LAMBDA acc, t : UNION {Child(x, t) : x \in acc}, Some(v), path)

\* Replaces what stands at a pointer that leads somewhere.
RECURSIVE Rebuild(_, _, _)
Rebuild(v, path, new) ==
    IF path = <<>> THEN new
    ELSE LET t == Head(path)
             c == Rebuild(TheOne(Child(v, t)), Tail(path), new)
         IN  IF IsObj(v) THEN [obj |-> [v.obj EXCEPT ![t.name] = c]]
             ELSE [arr |-> [v.arr EXCEPT ![t.at + 1] = c]]

\* Mutation of ArrayInsert: the value goes behind the index.
ArrayInsertBehind(a, i, value) == InsertAt(a, IF i = Len(a) THEN i + 1 ELSE i + 2, value)
ArrayInsert(a, i, value) == InsertAt(a, i + 1, value)

JsonPointerRemove(v, path) ==
    LET parents == IF path = <<>> THEN None ELSE JsonPointerGet(v, Front(path))
        parent == TheOne(parents)
        t == Last(path)
    IN  IF path = <<>> THEN Failed("unsupported")
        ELSE IF parents = None THEN Failed("precondition")
        ELSE IF IsArr(parent) /\ ~IsIndex(t) THEN Failed("unsupported")
        ELSE IF Child(parent, t) = None THEN Failed("precondition")
        ELSE Rebuild(v, Front(path),
            IF IsObj(parent) THEN [obj |-> [k \in DOMAIN parent.obj \ {t.name} |-> parent.obj[k]]]
            ELSE [arr |-> RemoveAt(parent.arr, t.at + 1)])

JsonPointerSet(v, path, value, add) ==
    LET parents == IF path = <<>> THEN None ELSE JsonPointerGet(v, Front(path))
        parent == TheOne(parents)
        t == Last(path)
        put(p) == Rebuild(v, Front(path), p)
    IN  IF path = <<>> THEN value
        ELSE IF parents = None THEN Failed("precondition")
        ELSE IF IsObj(parent)
        THEN IF ~add /\ t.name \notin DOMAIN parent.obj THEN Failed("precondition")
             ELSE put([obj |-> [k \in DOMAIN parent.obj \cup {t.name} |->
                                    IF k = t.name THEN value ELSE parent.obj[k]]])
        ELSE IF ~IsArr(parent) THEN Failed("precondition")
        ELSE IF t.kind = "end" THEN put([arr |-> Append(parent.arr, value)])
        ELSE IF ~IsIndex(t) THEN Failed("unsupported")
        ELSE IF t.at > Len(parent.arr) \/ (~add /\ t.at = Len(parent.arr)) THEN Failed("precondition")
        ELSE put([arr |-> IF add THEN ArrayInsert(parent.arr, t.at, value)
                          ELSE [parent.arr EXCEPT ![t.at + 1] = value]])

\* One operation; the rest of the patch is skipped once one has failed.
JsonOperation(v, op) ==
    LET got == JsonPointerGet(v, op.from)
    IN  CASE ~IsOk(v) -> v
        [] op.op = "add" -> JsonPointerSet(v, op.path, op.value, TRUE)
        [] op.op = "replace" -> JsonPointerSet(v, op.path, op.value, FALSE)
        [] op.op = "remove" -> JsonPointerRemove(v, op.path)
        [] op.op = "test" ->
            IF JsonPointerGet(v, op.path) = Some(op.value) THEN v ELSE Failed("precondition")
        [] op.op = "copy" ->
            IF got = None THEN Failed("precondition") ELSE JsonPointerSet(v, op.path, TheOne(got), TRUE)
        [] op.op = "move" ->
            IF got = None THEN Failed("precondition")
            ELSE LET cut == JsonPointerRemove(v, op.from)
                 IN  IF IsOk(cut) THEN JsonPointerSet(cut, op.path, TheOne(got), TRUE) ELSE cut
        [] OTHER -> Failed("unsupported")

ApplyJsonPatch(v, ops) == FoldLeft(JsonOperation, v, ops)

----------------------------------------------------------------------------
(* Preconditions, ranges and headers.                                      *)

\* Mutation of EvaluatePreconditions: If-Match is looked at only when the
\* resource exists.
EvaluatePreconditionsLate(method, etag, ifMatch, ifNoneMatch) ==
    LET names(h) == \E tags \in h : "*" \in tags \/ etag \cap tags # {}
    IN  FirstOf(<<
        <<"PreconditionFailed", ifMatch # None /\ etag # None /\ ~names(ifMatch)>>,
        <<IF method = "GET" THEN "NotModified" ELSE "PreconditionFailed", etag # None /\ names(ifNoneMatch)>>>>,
        "Proceed")
\* If-Match and If-None-Match are None, Some({"*"}) or the tags without their
\* quotes and W/ prefix; etag is None for a resource that does not exist.
EvaluatePreconditions(method, etag, ifMatch, ifNoneMatch) ==
    LET safe == method \in {"GET", "HEAD"}
        names(h) == \E tags \in h : "*" \in tags \/ etag \cap tags # {}
        namesStrictly(h) == \E tags \in h : tags = {"*"} \/ etag \cap tags # {}
    IN  FirstOf(<<
        <<"PreconditionFailed", ifMatch # None /\ (etag = None \/ ~names(ifMatch))>>,
        <<"NotModified", etag # None /\ namesStrictly(ifNoneMatch) /\ safe>>,
        <<"PreconditionFailed", etag # None /\ namesStrictly(ifNoneMatch)>>>>, "Proceed")

\* Mutation of LastByte: the end asked for is not cut at the end of the body.
LastByteAsked(end, total) == IF end = None THEN total - 1 ELSE TheOne(end)
LastByte(end, total) ==
    IF end = None \/ TheOne(end) > total - 1 THEN total - 1 ELSE TheOne(end)

\* parse_range_header_v2.  The header is None or [form, start, end]; the form
\* is "bytes" unless the unit, the dash, or a number is wrong.
ParseRangeHeaderV2(header, total) ==
    LET h == TheOne(header)
        start == IF h.start = None
                 THEN IF total > TheOne(h.end) THEN total - TheOne(h.end) ELSE 0
                 ELSE TheOne(h.start)
        end == IF h.start = None THEN total - 1 ELSE LastByte(h.end, total)
    IN  IF header = None THEN [kind |-> "Full"]
        ELSE IF h.form \in {"unit", "multi", "no_dash"} THEN Failed("unsupported")
        ELSE IF total = 0 THEN [kind |-> "NotSatisfiable"]
        ELSE IF h.form = "not_a_number" THEN Failed("unsupported")
        ELSE IF h.start = None /\ TheOne(h.end) = 0 THEN [kind |-> "NotSatisfiable"]
        ELSE IF start > end \/ start >= total THEN [kind |-> "NotSatisfiable"]
        ELSE [kind |-> "Partial", start |-> start, end |-> end]

\* parse_range_header: the same grammar, with an error where v2 says 416
ParseRangeHeader(header, total) ==
    LET r == ParseRangeHeaderV2(header, total)
    IN  IF IsOk(r) /\ r.kind = "NotSatisfiable" THEN Failed("precondition") ELSE r

\* slice_range on a body of n bytes: the positions returned, from 0
SliceRange(n, r) ==
    LET endExcl == IF r.end + 1 < n THEN r.end + 1 ELSE n
    IN  {i \in 0..(n - 1) : r.start <= i /\ i < endExcl}

OptionsFor(p) == [
    allow |-> {"GET", "HEAD", "OPTIONS", "DELETE"} \cup
              (IF IsContainer(p) THEN {"POST"} ELSE {"PUT", "PATCH"}),
    acceptPost |-> IsContainer(p), acceptRanges |-> ~IsContainer(p)]

VaryHeader(conneg) == {"Authorization", "Origin"} \cup (IF conneg THEN {"Accept"} ELSE {})
RdfTypes == {"text/turtle", "application/turtle", "application/x-turtle", "application/ld+json",
    "application/json+ld", "application/n-triples", "text/plain+ntriples", "text/n3", "application/trig"}
CacheControlFor(type) == IF type \in RdfTypes THEN Some("private, no-cache, must-revalidate") ELSE None

NotFoundHeaders(p, conneg) == [
    allow |-> {"GET", "HEAD", "OPTIONS", "PUT", "PATCH"},
    link |-> AclKey(p), vary |-> VaryHeader(conneg),
    cache |-> IF conneg THEN CacheControlFor("text/turtle") ELSE None,
    acceptPost |-> IsContainer(p)]
=============================================================================
