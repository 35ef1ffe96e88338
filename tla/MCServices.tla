----------------------------- MODULE MCServices -----------------------------
\* Small instances of every service.
EXTENDS Services, TLC

----------------------------------------------------------------------------
(* Git: reads and pushes with and without a token, odd paths and queries, and  *)
(* bodies and replies longer than a pipe, also before the body is read.        *)

GitPath(segs, service) == [segs |-> segs, service |-> service]
GitToken(path, query) == [valid |-> TRUE, url |-> [path |-> path, query |-> query],
                          method |-> "POST", key |-> "k1"]
NoHeader == [scheme |-> "none", decodes |-> TRUE, user |-> "", token |-> None]
Basic(user, token) == [scheme |-> "Basic", decodes |-> TRUE, user |-> user, token |-> token]
GitReq(path, query, auth, body, reply) ==
    [method |-> "POST", path |-> path, query |-> query, inner |-> FALSE,
     auth |-> auth, body |-> body, reply |-> reply, early |-> IF reply = 0 THEN 0 ELSE 1]
Name(text) == <<text>>
RepoA == <<Name("a")>>
Service(name, value, escaped) == <<[name |-> name, value |-> value, escaped |-> escaped]>>
Push == GitPath(RepoA, "receive")
Refs == GitPath(RepoA, "refs")
MCGitRequests ==
    {GitReq(Push, <<>>, h, 2, 3) : h \in {NoHeader, Basic("nostr", Some(GitToken(Push, <<>>))),
         Basic("me", Some(GitToken(Push, <<>>))), Basic("nostr", Some(GitToken(Refs, <<>>)))}}
    \cup {GitReq(Refs, q, NoHeader, 0, 1) : q \in {<<>>, Service("service", "upload", FALSE),
         Service("service", "receive", FALSE), Service("service", "receive", TRUE),
         Service("myservice", "receive-x", FALSE),
         Service("service", "receive", FALSE) \o Service("service", "upload", TRUE)}}
    \cup {GitReq(GitPath(s, "upload"), <<>>, NoHeader, 2, 1) :
              s \in {<<NoName>> \o RepoA, <<Name("a"), DotDot, Name("b")>>, <<DotDot, Name("a")>>,
                     <<Dot, Name("a")>>, <<<<"a", ".", ".", "b">>>>, <<<<"a", ".", ".", ".">>>>,
                     <<<<"a", ".", "b">>>>, <<Name("p")>>}}
    \cup {[GitReq(GitPath(RepoA, "upload"), <<>>, NoHeader, 0, 1) EXCEPT !.inner = TRUE]}
    \cup {[GitReq(GitPath(RepoA, "upload"), <<>>, NoHeader, b, 3) EXCEPT !.early = 2] : b \in {1, 2}}
    \cup {[GitReq(Push, <<>>, NoHeader, 0, 0) EXCEPT !.method = "OPTIONS"]}
MCGitRepos == RepoA :> "regular" @@ <<Name("a"), Name("b")>> :> "bare" @@ <<Name("p")>> :> "plain"
    @@ <<<<"a", "b">>>> :> "bare" @@ <<<<"a", ".", "b">>>> :> "bare"

----------------------------------------------------------------------------

MCLower(e) == IF e = "A" THEN "a" ELSE e

----------------------------------------------------------------------------
(* Inbox: a Follow for two actors under one id, another Follow, its Undo, an   *)
(* Accept, and activities without effect, id or type.                        *)

Act(id, local, type, inner) ==
    [id |-> id, local |-> local, type |-> type, inner |-> inner, actor |-> "r1", target |-> "r1"]
MCActivities == {Act("f1", "l1", "Follow", ""), Act("f1", "l2", "Follow", ""),
    Act("f2", "l1", "Follow", ""), Act("u1", "l1", "Undo", "Follow"), Act("u2", "l1", "Undo", "Like"),
    Act("a1", "l1", "Accept", "Follow"), Act("", "l1", "Follow", ""), Act("n1", "l1", "", "")}

----------------------------------------------------------------------------
(* Relay: two events for one replaceable slot, one of each other class, one    *)
(* that does not verify; one filter without limit and one with.              *)

Event(id, kind, at, d, ok) ==
    [id |-> id, key |-> "k", kind |-> kind, at |-> at, d |-> d, tags |-> {<<"e", "x">>}, ok |-> ok]
MCEvents == {Event("p1", 10000, 1, None, TRUE), Event("p2", 10000, 2, None, TRUE),
    Event("q1", 30000, 1, Some("d"), TRUE), Event("r1", 1, 1, None, TRUE),
    Event("t1", 20000, 1, None, TRUE), Event("b1", 1, 1, None, FALSE)}
AnyEvent == [ids |-> None, authors |-> None, kinds |-> None, since |-> None, until |-> None,
             limit |-> None, tags |-> {}]
MCRequests == {<<[AnyEvent EXCEPT !.tags = {[name |-> "e", values |-> Some({"x"})]},
                                  !.kinds = Some({1, 10000}), !.until = Some(1)],
                 [AnyEvent EXCEPT !.limit = Some(1)]>>}

----------------------------------------------------------------------------
(* Legacy notifications: a container, the resource whose name it has, and two  *)
(* slashes behind it.                                                       *)

Uri(o, p, d) == [origin |-> o, path |-> p, dir |-> d]
Line(op, u, long) == [op |-> op, uri |-> u, long |-> long]
MCLines == {Line("sub", Uri("o", <<"c">>, TRUE), FALSE), Line("unsub", Uri("o", <<"c">>, TRUE), FALSE),
    Line("sub", Uri("o", <<"c">>, FALSE), FALSE), Line("sub", Uri("x", <<"c">>, TRUE), FALSE),
    Line("sub", Uri("o", <<"c", "y">>, FALSE), TRUE), Line("blank", Uri("o", <<>>, FALSE), FALSE),
    Line("sub", Uri("o", <<>>, TRUE), FALSE), Line("other", Uri("o", <<>>, FALSE), FALSE)}
MCChanged == {Uri("o", <<"c", "y">>, FALSE), Uri("o", <<"c">>, FALSE), Uri("o", <<"c", "">>, TRUE)}
MCOrigins == {None, Some("o")}

----------------------------------------------------------------------------
(* Pods: plans with and without a root ACL, one with a path that is no         *)
(* container.                                                              *)

MCPlans == {[containers |-> {}, stray |-> FALSE, acl |-> TRUE],
            [containers |-> {}, stray |-> FALSE, acl |-> FALSE],
            [containers |-> {"/docs/"}, stray |-> TRUE, acl |-> FALSE]}
MCTrackerQuotas == {None, Some(3)}
=============================================================================
