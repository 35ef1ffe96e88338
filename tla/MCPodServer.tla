---------------------------- MODULE MCPodServer ----------------------------
\* A pod with the container /c/ and the resource /c/x, an owner and a guest.
EXTENDS PodServer, TLC

c == Path(<<"c", "">>)
x == Path(<<"c", "x">>)

Auth(agents, modes, t) == [agents |-> agents, modes |-> modes, accessTo |-> {t}, default |-> {}]
Inherited(agents, modes, t) == [agents |-> agents, modes |-> modes, accessTo |-> {}, default |-> {t}]

f == Member("f")
g == Member("g")
h == Member("h")

OwnerDoc == Turtle({Inherited({"owner"}, {"Write"}, Root)})
GuestAuth == Auth({Everyone}, {"Write"}, x)
OpenDoc == Json({Inherited({Authenticated}, {"Append"}, c), GuestAuth})

Req(m, p, a, b, s) == [method |-> m, path |-> p, agent |-> a, body |-> b, slug |-> s]
Put(p, a, b) == Req("PUT", p, a, b, InvalidSlug)
Post(a, b, s) == Req("POST", c, a, b, s)
Patch(p, a, d, w, del, ins) ==
    Req("PATCH", p, a, [dialect |-> d, where |-> w, deletes |-> del, inserts |-> ins], InvalidSlug)

RootAcl == AclKey(Root)
Stores == {(RootAcl :> OwnerDoc), (x :> Json({f}))}

AclInputs ==
    {Put(k, "owner", OpenDoc) : k \in {RootAcl, AclKey(c), AclKey(x)}}
    \cup {Put(AclKey(c), "owner", b) : b \in {Json({Nested}), Json({Bulk}), Opaque}}
    \cup {Put(AclKey(x), "owner", Json({f}))}
    \cup {Put(x, a, Json({f})) : a \in {"owner", "guest", NoAgent}}
    \cup {Put(c, "owner", Json({})), Req("POST", Root, "owner", Json({}), Slug("c", 1))}
    \cup {Post(a, Json({g}), Slug("x", 0)) : a \in {"guest", NoAgent}}
    \cup {Post("guest", OpenDoc, Slug("x", 1)), Post("guest", Json({}), Slug("", 1)),
              Post("guest", Json({}), InvalidSlug)}
    \cup {Req("DELETE", k, "owner", NoBody, InvalidSlug) : k \in {RootAcl, AclKey(x), x}}
    \cup {Patch(x, "guest", "json", {}, {f}, {g}), Patch(x, "owner", "json", {g}, {}, {h}),
              Patch(x, "owner", "n3", {}, {}, {g})}
    \cup {Patch(AclKey(x), "guest", "json", {}, {}, {GuestAuth}),
              Patch(AclKey(x), "guest", "n3", {}, {}, {GuestAuth})}

LinkInputs == {Put(AclLink(c), "owner", OpenDoc), Put(x, "guest", Json({f}))}
=============================================================================
