----------------------------- MODULE WebAccess -----------------------------
(***************************************************************************)
(* Web Access Control (wac/ and the path helpers of ldp.rs): where the ACL   *)
(* of a path is kept, the walk towards the root, and what a document grants. *)
(*                                                                         *)
(* A path is its segments and the number of ".acl" suffixes of the last one. *)
(* A container's last segment is empty: "/" is <<"">>, "/c/" is <<"c", "">>, *)
(* "/c/.acl" is <<"c", "">> with acl = 1, "/c.acl" is <<"c">> with acl = 1.  *)
(***************************************************************************)
EXTENDS Naturals, Sequences, SequencesExt

Path(s) == [segs |-> s, acl |-> 0]

\* The empty segment behind a trailing slash.
Slash == ""
Root == Path(<<Slash>>)

\* ldp::is_container
IsContainer(p) == p.acl = 0 /\ Last(p.segs) = Slash

\* trim_end_matches('/'): repeated slashes were merged when the request came in
Trimmed(p) == IF IsContainer(p) THEN Path(Front(p.segs)) ELSE p

\* The key a step of find_effective_acl reads.
AclKey(p) == IF p = Root THEN [Root EXCEPT !.acl = 1]
             ELSE [Trimmed(p) EXCEPT !.acl = @ + 1]

\* The key that link_headers names as rel="acl".
AclLink(p) == [p EXCEPT !.acl = @ + 1]

\* Mutation of Parent: the walk jumps to the root.
ParentRoot(p) == Root

\* trimmed.rfind('/'): the path one level up, without its slash.
Parent(p) ==
    LET t == Trimmed(p).segs
    IN  IF Len(t) <= 1 THEN Root ELSE Path(Front(t))

\* A slug is a name and its ".acl" suffixes: "x.acl" is "x" with acl = 1, ".acl"
\* the empty name with acl = 1.  InvalidSlug stands for one with a slash, "..",
\* NUL, a character outside [A-Za-z0-9._-] or over 255 bytes.
Slug(n, k) == [name |-> n, acl |-> k]
InvalidSlug == Slug("/", 0)

\* resolve_slug: the child that a POST to the container c names s, an ACL key when
\* the slug ends in ".acl".  A request without a slug gets a name of its own.
ResolveSlug(c, s) == [segs |-> Append(Trimmed(c).segs, s.name), acl |-> s.acl]

----------------------------------------------------------------------------
(* A document is a set of authorizations: records of modes, agents (an       *)
(* agent or a class), accessTo and default, the two sets of target paths.    *)

NoAgent == "no agent"
Everyone == "foaf:Agent"
Authenticated == "acl:AuthenticatedAgent"

MapMode(m) == IF m = "Write" THEN {"Write", "Append"} ELSE {m}

AgentMatches(auth, agent) ==
    \/ agent # NoAgent /\ agent \in auth.agents
    \/ Everyone \in auth.agents
    \/ agent # NoAgent /\ Authenticated \in auth.agents

\* path_matches on normalized paths: accessTo covers the target and its
\* direct children, default everything below it.
PathMatches(rule, p, isDefault) ==
    LET r == Trimmed(rule)
        q == Trimmed(p)
    IN  \/ q = r
        \/ /\ r.acl = 0 /\ IsStrictPrefix(r.segs, q.segs)
           /\ isDefault \/ Len(q.segs) = Len(r.segs) + 1

\* evaluate_access, for authorizations without conditions and without origin
Grants(doc, agent, p, mode) ==
    \E auth \in doc :
        /\ \E m \in auth.modes : mode \in MapMode(m)
        /\ AgentMatches(auth, agent)
        /\ \/ \E t \in auth.accessTo : PathMatches(t, p, FALSE)
           \/ \E t \in auth.default : PathMatches(t, p, TRUE)
=============================================================================
