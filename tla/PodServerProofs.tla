-------------------------- MODULE PodServerProofs --------------------------
(***************************************************************************)
(* Proofs about PodServer, for any requests, any number of them at a time     *)
(* and any pod at the start: the nearest ACL decides, a pod without an ACL    *)
(* stays as it is, and an undisturbed JSON Patch does what it says.          *)
(***************************************************************************)
EXTENDS PodServer, SequenceTheorems, TLAPS

Settling == {"acl", "too_deep"}

\* The walk for p counted from the root: level 0 is the root, level Depth(p) the
\* path itself, and KeyAt the key that is read there.
Depth(p) == Len(Trimmed(p).segs)
AtLevel(p, n) == IF n = Depth(p) THEN p ELSE IF n = 0 THEN Root ELSE Path(SubSeq(p.segs, 1, n))
KeyAt(p, n) == AclAt(p, n, AclKey)

\* What the walk makes of what is stored under a key.
Reads(k) == ReadAs(BodyAt(k))
Granting(k) == Authorizations(BodyAt(k))

\* The levels below n, towards the resource, decide nothing.
PassedOver(p, n) == \A m \in (n + 1)..Depth(p) : Reads(KeyAt(p, m)) \notin Settling

\* A walk stands at one level of its path, and if no ACL changed since it began
\* it has passed over the levels below.
WalkStands(w) ==
    pc[w] = "walk" =>
        \E n \in 0..Depth(req[w].path) :
            /\ at[w] = AtLevel(req[w].path, n)
            /\ quiet[w] => PassedOver(req[w].path, n)

\* Some level holds a document that grants the request, and the levels below it
\* decide nothing.
NearestGrants(i) ==
    \E n \in 0..Depth(i.path) :
        /\ PassedOver(i.path, n) /\ Reads(KeyAt(i.path, n)) = "acl"
        /\ Grants(Granting(KeyAt(i.path, n)), i.agent, i.path, Mode(i))

VerdictStands(w) ==
    pc[w] = "decided" /\ quiet[w] => (granted[w] <=> NearestGrants(req[w]))

\* The types but for the place of the walk.
Shape ==
    /\ \A k \in DOMAIN store : store[k].kind \in BodyKinds
    /\ pc \in [Workers -> {"idle", "walk", "decided", "write"}]
    /\ req \in [Workers -> Inputs]
    /\ DOMAIN at = Workers /\ DOMAIN base = Workers
    /\ granted \in [Workers -> BOOLEAN]
    /\ sent \in 0..MaxRequests
    /\ quiet \in [Workers -> BOOLEAN] /\ alone \in [Workers -> BOOLEAN]

\* Only a granted PATCH has read; what it read is what is stored unless somebody
\* wrote there since.
ReadStands(w) ==
    pc[w] = "write" =>
        /\ granted[w]
        /\ alone[w] => base[w] = BodyAt(req[w].path)

PodInv == Shape /\ \A w \in Workers : WalkStands(w) /\ VerdictStands(w) /\ ReadStands(w)

----------------------------------------------------------------------------
(* Paths.                                                                  *)

LEMMA PathShape ==
    ASSUME NEW p, WellFormed(p)
    PROVE /\ p = [segs |-> p.segs, acl |-> p.acl]
          /\ p.acl \in Nat /\ Len(p.segs) \in Nat \ {0}
          /\ \A j \in 1..(Len(p.segs) - 1) : p.segs[j] # Slash
          /\ \E S : p.segs \in Seq(S) /\ Slash \in S
<1>1. /\ p = [segs |-> p.segs, acl |-> p.acl]
      /\ p.acl \in Nat /\ p.segs \in Seq(STRING) /\ p.segs # <<>>
      /\ \A j \in 1..(Len(p.segs) - 1) : p.segs[j] # Slash
  BY DEF WellFormed
<1>2. PICK S : S = STRING \cup {Slash}
  OBVIOUS
<1>3. Len(p.segs) \in Nat /\ \A j \in 1..Len(p.segs) : p.segs[j] \in S
  BY <1>1, <1>2, LenProperties, ElementOfSeq
<1>4. Len(p.segs) # 0
  BY <1>1, EmptySeq
<1>5. p.segs \in Seq(S)
  BY <1>1, <1>3, <1>2
<1> QED BY <1>1, <1>2, <1>3, <1>4, <1>5

LEMMA PrefixOf ==
    ASSUME NEW S, NEW s \in Seq(S), NEW n \in 0..Len(s)
    PROVE /\ SubSeq(s, 1, n) \in Seq(S) /\ Len(SubSeq(s, 1, n)) = n
          /\ \A i \in 1..n : SubSeq(s, 1, n)[i] = s[i]
<1>1. Len(s) \in Nat /\ \A i \in 1..n : s[i] \in S
  BY LenProperties, ElementOfSeq
<1>2. /\ SubSeq(s, 1, n) \in Seq(S)
      /\ Len(SubSeq(s, 1, n)) = IF 1 <= n THEN n - 1 + 1 ELSE 0
      /\ \A i \in 1..(n - 1 + 1) : SubSeq(s, 1, n)[i] = s[1 + i - 1]
  BY <1>1, SubSeqProperties
<1> QED BY <1>1, <1>2

\* The front of a prefix is the next shorter one.
LEMMA FrontOfPrefix ==
    ASSUME NEW S, NEW s \in Seq(S), NEW n \in 1..Len(s)
    PROVE Front(SubSeq(s, 1, n)) = SubSeq(s, 1, n - 1)
<1>1. Len(s) \in Nat /\ n \in 0..Len(s) /\ n - 1 \in 0..Len(s)
  BY LenProperties
<1>2. PICK t : t = SubSeq(s, 1, n)
  OBVIOUS
<1>3. t \in Seq(S) /\ Len(t) = n /\ \A i \in 1..n : t[i] = s[i]
  BY <1>1, <1>2, PrefixOf
<1>4. /\ SubSeq(t, 1, n - 1) \in Seq(S) /\ Len(SubSeq(t, 1, n - 1)) = n - 1
      /\ \A i \in 1..(n - 1) : SubSeq(t, 1, n - 1)[i] = t[i]
  BY <1>1, <1>3, PrefixOf
<1>5. /\ SubSeq(s, 1, n - 1) \in Seq(S) /\ Len(SubSeq(s, 1, n - 1)) = n - 1
      /\ \A i \in 1..(n - 1) : SubSeq(s, 1, n - 1)[i] = s[i]
  BY <1>1, PrefixOf
<1>6. \A i \in 1..(n - 1) : SubSeq(t, 1, n - 1)[i] = SubSeq(s, 1, n - 1)[i]
  BY <1>1, <1>3, <1>4, <1>5
<1>7. SubSeq(t, 1, n - 1) = SubSeq(s, 1, n - 1)
  BY <1>4, <1>5, <1>6, SeqEqual
<1> QED BY <1>2, <1>3, <1>7 DEF Front

\* A sequence is its own longest prefix.
LEMMA WholePrefix ==
    ASSUME NEW S, NEW s \in Seq(S)
    PROVE SubSeq(s, 1, Len(s)) = s
<1>1. Len(s) \in Nat /\ Len(s) \in 0..Len(s)
  BY LenProperties
<1>2. /\ SubSeq(s, 1, Len(s)) \in Seq(S) /\ Len(SubSeq(s, 1, Len(s))) = Len(s)
      /\ \A i \in 1..Len(s) : SubSeq(s, 1, Len(s))[i] = s[i]
  BY <1>1, PrefixOf
<1> QED BY <1>2, SeqEqual

\* A prefix that is cut short of an appended segment is what it was.
LEMMA FrontOfAppend ==
    ASSUME NEW S, NEW s \in Seq(S), NEW e \in S
    PROVE Front(Append(s, e)) = s /\ Last(Append(s, e)) = e
<1>1. PICK t : t = Append(s, e)
  OBVIOUS
<1>2. /\ t \in Seq(S) /\ Len(s) \in Nat /\ Len(t) = Len(s) + 1
      /\ \A i \in 1..Len(s) : t[i] = s[i]
      /\ t[Len(s) + 1] = e
  BY <1>1, AppendProperties, LenProperties
<1>3. /\ SubSeq(t, 1, Len(s)) \in Seq(S) /\ Len(SubSeq(t, 1, Len(s))) = Len(s)
      /\ \A i \in 1..Len(s) : SubSeq(t, 1, Len(s))[i] = t[i]
  BY <1>2, PrefixOf
<1>4. SubSeq(t, 1, Len(s)) = s
  BY <1>2, <1>3, SeqEqual
<1> QED BY <1>1, <1>2, <1>4 DEF Front, Last

\* Trimming cuts the empty last segment.
LEMMA TrimmedShape ==
    ASSUME NEW p, WellFormed(p)
    PROVE /\ IsContainer(p) => /\ Trimmed(p) = Path(SubSeq(p.segs, 1, Len(p.segs) - 1))
                               /\ p.acl = 0 /\ p.segs[Len(p.segs)] = Slash
                               /\ Depth(p) = Len(p.segs) - 1
          /\ ~IsContainer(p) => Trimmed(p) = p /\ Depth(p) = Len(p.segs)
          /\ Depth(p) \in 0..Len(p.segs)
          /\ Trimmed(p).segs = SubSeq(p.segs, 1, Depth(p))
<1>1. PICK S : p.segs \in Seq(S) /\ Slash \in S
  BY PathShape
<1>2. Len(p.segs) \in Nat \ {0}
  BY PathShape
<1>3. CASE IsContainer(p)
  <2>1. Trimmed(p) = Path(SubSeq(p.segs, 1, Len(p.segs) - 1))
    BY <1>3 DEF Trimmed, Front
  <2>2. Trimmed(p).segs = SubSeq(p.segs, 1, Len(p.segs) - 1)
    BY <2>1 DEF Path
  <2>3. Len(SubSeq(p.segs, 1, Len(p.segs) - 1)) = Len(p.segs) - 1
    BY <1>1, <1>2, PrefixOf
  <2>4. Depth(p) = Len(p.segs) - 1
    BY <2>2, <2>3 DEF Depth
  <2> QED BY <1>2, <1>3, <2>1, <2>2, <2>4 DEF IsContainer, Last
<1>4. CASE ~IsContainer(p)
  <2>1. Trimmed(p) = p /\ Depth(p) = Len(p.segs)
    BY <1>4 DEF Trimmed, Depth
  <2> QED BY <1>1, <1>2, <1>4, <2>1, WholePrefix
<1> QED BY <1>3, <1>4

\* Above the path itself the walk stands at containers written without their slash.
LEMMA InnerLevel ==
    ASSUME NEW p, WellFormed(p), NEW n \in 1..(Depth(p) - 1)
    PROVE LET q == Path(SubSeq(p.segs, 1, n))
          IN  /\ AtLevel(p, n) = q /\ Trimmed(q) = q /\ q # Root
              /\ Len(q.segs) = n /\ q.segs = SubSeq(p.segs, 1, n)
              /\ Trimmed(Path(Append(q.segs, Slash))) = q
              /\ Path(Append(q.segs, Slash)) # Root
<1>1. PICK S : p.segs \in Seq(S) /\ Slash \in S
  BY PathShape
<1>2. Len(p.segs) \in Nat \ {0} /\ Depth(p) \in 0..Len(p.segs) /\ n \in 1..(Len(p.segs) - 1)
  BY PathShape, TrimmedShape
<1>3. PICK s : s = SubSeq(p.segs, 1, n)
  OBVIOUS
<1>4. s \in Seq(S) /\ Len(s) = n /\ s[n] = p.segs[n]
  BY <1>1, <1>2, <1>3, PrefixOf
<1>5. s[n] # Slash
  BY <1>2, <1>4, PathShape
<1>6. AtLevel(p, n) = Path(s)
  BY <1>2, <1>3 DEF AtLevel
<1>7. Path(s).segs = s /\ Path(s).acl = 0
  BY DEF Path
<1>8. Trimmed(Path(s)) = Path(s)
  BY <1>4, <1>5, <1>7 DEF Trimmed, IsContainer, Last
<1>9. Path(s) # Root
  <2>1. Root.segs = <<Slash>>
    BY DEF Root, Path
  <2>2. Len(<<Slash>>) = 1 /\ <<Slash>>[1] = Slash
    OBVIOUS
  <2> QED BY <1>4, <1>5, <1>7, <2>1, <2>2
<1>10. /\ Front(Append(s, Slash)) = s /\ Last(Append(s, Slash)) = Slash
       /\ Len(Append(s, Slash)) = n + 1
  BY <1>1, <1>4, FrontOfAppend, AppendProperties
<1>11. /\ Path(Append(s, Slash)).segs = Append(s, Slash)
       /\ Path(Append(s, Slash)).acl = 0
  BY DEF Path
<1>12. Trimmed(Path(Append(s, Slash))) = Path(s)
  BY <1>10, <1>11 DEF Trimmed, IsContainer
<1>13. Path(Append(s, Slash)) # Root
  <2>1. Root.segs = <<Slash>> /\ Len(<<Slash>>) = 1
    BY DEF Root, Path
  <2> QED BY <1>2, <1>10, <1>11, <2>1
<1> QED BY <1>3, <1>4, <1>6, <1>7, <1>8, <1>9, <1>12, <1>13

\* Only the root is at level 0.
LEMMA RootLevel ==
    ASSUME NEW p, WellFormed(p), NEW n \in 0..Depth(p)
    PROVE AtLevel(p, n) = Root <=> n = 0
<1>1. Len(p.segs) \in Nat \ {0} /\ Depth(p) \in 0..Len(p.segs)
  BY PathShape, TrimmedShape
<1>2. Root.segs = <<Slash>> /\ Root.acl = 0 /\ Len(<<Slash>>) = 1 /\ <<Slash>>[1] = Slash
  BY DEF Root, Path
<1>3. CASE n \in 1..(Depth(p) - 1)
  BY <1>3, InnerLevel
<1>4. CASE n = 0 /\ Depth(p) # 0
  BY <1>4 DEF AtLevel
<1>5. CASE n = 0 /\ Depth(p) = 0
  <2>1. IsContainer(p) /\ Len(p.segs) = 1 /\ p.acl = 0 /\ p.segs[1] = Slash
    <3>1. IsContainer(p)
      BY <1>1, <1>5, TrimmedShape
    <3>2. p.acl = 0 /\ p.segs[Len(p.segs)] = Slash /\ Depth(p) = Len(p.segs) - 1
      BY <3>1, TrimmedShape
    <3>3. Len(p.segs) = 1
      BY <1>1, <1>5, <3>2
    <3> QED BY <3>1, <3>2, <3>3
  <2>2. PICK S : p.segs \in Seq(S) /\ Slash \in S
    BY PathShape
  <2>3. <<Slash>> \in Seq(S)
    BY <2>2
  <2>4. p.segs = <<Slash>>
    BY <1>2, <2>1, <2>2, <2>3, SeqEqual
  <2>5. p = [segs |-> <<Slash>>, acl |-> 0]
    BY <2>1, <2>4, PathShape
  <2> QED BY <1>5, <2>5 DEF AtLevel, Root, Path
<1>6. CASE n = Depth(p) /\ Depth(p) # 0
  <2>1. SUFFICES ASSUME p = Root PROVE FALSE
    BY <1>6 DEF AtLevel
  <2>2. IsContainer(p) /\ Len(p.segs) = 1
    BY <1>2, <2>1 DEF IsContainer, Last
  <2> QED BY <1>6, <2>2, TrimmedShape
<1> QED BY <1>1, <1>3, <1>4, <1>5, <1>6

\* The key the code reads at a level is the one the reference names.
LEMMA KeyOfLevel ==
    ASSUME NEW p, WellFormed(p), NEW n \in 0..Depth(p)
    PROVE AclKey(AtLevel(p, n)) = KeyAt(p, n)
<1>1. Depth(p) \in Nat
  BY PathShape, TrimmedShape
<1>2. CASE n = Depth(p)
  BY <1>2 DEF AtLevel, KeyAt, AclAt, Depth
<1>3. CASE n # Depth(p) /\ n = 0
  BY <1>3 DEF AtLevel, KeyAt, AclAt, Depth
<1>4. CASE n # Depth(p) /\ n # 0
  <2>1. PICK q : q = Path(SubSeq(p.segs, 1, n))
    OBVIOUS
  <2>2. PICK c : c = Path(Append(SubSeq(p.segs, 1, n), Slash))
    OBVIOUS
  <2>3. n \in 1..(Depth(p) - 1)
    BY <1>1, <1>4
  <2>4. /\ AtLevel(p, n) = q /\ Trimmed(q) = q /\ q # Root
        /\ q.segs = SubSeq(p.segs, 1, n)
    BY <2>1, <2>3, InnerLevel
  <2>5. Trimmed(c) = q /\ c # Root
    BY <2>1, <2>2, <2>3, <2>4, InnerLevel
  <2>6. KeyAt(p, n) = AclKey(c)
    BY <1>4, <2>2 DEF KeyAt, AclAt, Depth
  <2> QED BY <2>4, <2>5, <2>6 DEF AclKey
<1> QED BY <1>2, <1>3, <1>4

\* One turn of the loop is one level up.
LEMMA ParentLevel ==
    ASSUME NEW p, WellFormed(p), NEW n \in 1..Depth(p)
    PROVE Parent(AtLevel(p, n)) = AtLevel(p, n - 1)
<1>1. PICK S : p.segs \in Seq(S) /\ Slash \in S
  BY PathShape
<1>2. Len(p.segs) \in Nat \ {0} /\ Depth(p) \in 0..Len(p.segs) /\ n \in 1..Len(p.segs)
  BY PathShape, TrimmedShape
<1>3. Trimmed(AtLevel(p, n)).segs = SubSeq(p.segs, 1, n)
  <2>1. CASE n = Depth(p)
    BY <2>1, TrimmedShape DEF AtLevel
  <2>2. CASE n # Depth(p)
    <3>1. n \in 1..(Depth(p) - 1)
      BY <1>2, <2>2
    <3> QED BY <3>1, InnerLevel
  <2> QED BY <2>1, <2>2
<1>4. Len(SubSeq(p.segs, 1, n)) = n
  BY <1>1, <1>2, PrefixOf
<1>5. Front(SubSeq(p.segs, 1, n)) = SubSeq(p.segs, 1, n - 1)
  BY <1>1, <1>2, FrontOfPrefix
<1>6. Parent(AtLevel(p, n)) = IF n <= 1 THEN Root ELSE Path(SubSeq(p.segs, 1, n - 1))
  BY <1>3, <1>4, <1>5 DEF Parent
<1>7. n - 1 # Depth(p) /\ (n <= 1 <=> n - 1 = 0)
  BY <1>2
<1> QED BY <1>6, <1>7 DEF AtLevel

\* The walk stays on the way from the path to the root.
LEMMA LevelIsPrefix ==
    ASSUME NEW p, WellFormed(p), NEW n \in 0..Depth(p)
    PROVE IsPrefix(Trimmed(AtLevel(p, n)).segs, p.segs)
<1>1. PICK S : p.segs \in Seq(S) /\ Slash \in S
  BY PathShape
<1>2. Len(p.segs) \in Nat \ {0} /\ Depth(p) \in 0..Len(p.segs) /\ n \in 0..Len(p.segs)
  BY PathShape, TrimmedShape
<1>3. PICK s : s = SubSeq(p.segs, 1, n)
  OBVIOUS
<1>4. s \in Seq(S) /\ Len(s) = n
  BY <1>1, <1>2, <1>3, PrefixOf
<1>5. SubSeq(s, 1, Len(s)) = s
  BY <1>4, WholePrefix
<1>6. IsPrefix(s, p.segs)
  BY <1>2, <1>3, <1>4, <1>5 DEF IsPrefix
<1>7. Trimmed(AtLevel(p, n)).segs = s
  <2>1. CASE n = Depth(p)
    BY <1>3, <2>1, TrimmedShape DEF AtLevel
  <2>2. CASE n # Depth(p) /\ n # 0
    <3>1. n \in 1..(Depth(p) - 1)
      BY <1>2, <2>2
    <3> QED BY <1>3, <3>1, InnerLevel
  <2>3. CASE n # Depth(p) /\ n = 0
    <3>1. AtLevel(p, n) = Root
      BY <2>3, RootLevel
    <3>2. Root.segs = <<Slash>> /\ Root.acl = 0 /\ Last(<<Slash>>) = Slash
      BY DEF Root, Path, Last
    <3>3. Trimmed(Root) = Path(Front(<<Slash>>))
      BY <3>2 DEF Trimmed, IsContainer
    <3>4. Front(<<Slash>>) = SubSeq(<<Slash>>, 1, 0)
      BY DEF Front
    <3>5. SubSeq(<<Slash>>, 1, 0) = <<>> /\ s = <<>>
      BY <1>3, <2>3, SubSeqEmpty
    <3> QED BY <3>1, <3>3, <3>4, <3>5 DEF Path
  <2> QED BY <2>1, <2>2, <2>3
<1> QED BY <1>6, <1>7

\* What the walk reads is an ACL key.
LEMMA KeysAreAcls ==
    ASSUME NEW p, WellFormed(p), NEW n \in 0..Depth(p)
    PROVE KeyAt(p, n).acl \in Nat \ {0}
<1>1. Root.acl = 0 /\ Root = [segs |-> <<Slash>>, acl |-> 0]
  BY DEF Root, Path
<1>2. ASSUME NEW q, Trimmed(q) = [segs |-> Trimmed(q).segs, acl |-> Trimmed(q).acl],
             Trimmed(q).acl \in Nat
      PROVE AclKey(q).acl \in Nat \ {0}
  BY <1>1, <1>2 DEF AclKey
<1>3. Depth(p) \in Nat
  BY PathShape, TrimmedShape
<1>4. AclKey(AtLevel(p, n)) = KeyAt(p, n)
  BY KeyOfLevel
<1>5. CASE AtLevel(p, n) = Root
  BY <1>1, <1>4, <1>5 DEF AclKey
<1>6. CASE AtLevel(p, n) # Root /\ n = Depth(p)
  <2>1. AtLevel(p, n) = p
    BY <1>6 DEF AtLevel
  <2>2. Trimmed(p) = [segs |-> Trimmed(p).segs, acl |-> Trimmed(p).acl] /\ Trimmed(p).acl \in Nat
    BY PathShape, TrimmedShape DEF Path
  <2> QED BY <1>2, <1>4, <2>1, <2>2
<1>7. CASE AtLevel(p, n) # Root /\ n # Depth(p)
  <2>1. n # 0
    BY <1>7, RootLevel
  <2>2. n \in 1..(Depth(p) - 1)
    BY <1>3, <1>7, <2>1
  <2>3. PICK q : q = Path(SubSeq(p.segs, 1, n))
    OBVIOUS
  <2>4. AtLevel(p, n) = q /\ Trimmed(q) = q
    BY <2>2, <2>3, InnerLevel
  <2>5. q = [segs |-> q.segs, acl |-> q.acl] /\ q.acl \in Nat
    BY <2>3 DEF Path
  <2> QED BY <1>2, <1>4, <2>4, <2>5
<1> QED BY <1>5, <1>6, <1>7

----------------------------------------------------------------------------
(* The invariant.                                                          *)

\* A body reads in one of three ways.
LEMMA ReadingsOf ==
    ASSUME NEW b
    PROVE /\ ReadAs(b) \in {"acl", "too_deep", "none"}
          /\ "acl" # "too_deep" /\ "acl" # "none" /\ "too_deep" # "none"
  BY DEF ReadAs

\* The property's nearest level, a maximum, is the one the walk stops at.
LEMMA NearestIsFirst ==
    ASSUME NEW i, WellFormed(i.path)
    PROVE GrantedByNearest(i, Settling, AclKey) <=> NearestGrants(i)
<1>1. Depth(i.path) \in Nat
  BY PathShape, TrimmedShape
<1>2. PICK D : D = {n \in 0..Depth(i.path) : Reads(KeyAt(i.path, n)) \in Settling}
  OBVIOUS
<1>3. GrantedByNearest(i, Settling, AclKey) <=>
        \E n \in D : /\ \A m \in D : m <= n
                     /\ Reads(KeyAt(i.path, n)) = "acl"
                     /\ Grants(Granting(KeyAt(i.path, n)), i.agent, i.path, Mode(i))
  BY <1>2 DEF GrantedByNearest, Levels, KeyAt, Depth, Reads, Granting
<1>4. ASSUME NEW n \in D PROVE (\A m \in D : m <= n) <=> PassedOver(i.path, n)
  BY <1>1, <1>2 DEF PassedOver
<1>5. NearestGrants(i) <=>
        \E n \in D : /\ PassedOver(i.path, n) /\ Reads(KeyAt(i.path, n)) = "acl"
                     /\ Grants(Granting(KeyAt(i.path, n)), i.agent, i.path, Mode(i))
  BY <1>2 DEF NearestGrants, Settling
<1> QED BY <1>3, <1>4, <1>5

LEMMA RequestsWellFormed ==
    ASSUME Shape, NEW w \in Workers
    PROVE req[w] \in Inputs /\ WellFormed(req[w].path)
  BY PodAssumption DEF Shape

LEMMA PodInitial == Init => PodInv
<1> SUFFICES ASSUME Init PROVE PodInv
  OBVIOUS
<1>1. SomeRequest \in Inputs
  BY PodAssumption DEF SomeRequest
<1>2. Shape
  BY <1>1, PodAssumption DEF Init, Shape
<1>3. ASSUME NEW w \in Workers PROVE pc[w] = "idle"
  BY DEF Init
<1>4. ASSUME NEW w \in Workers PROVE WalkStands(w) /\ VerdictStands(w) /\ ReadStands(w)
  BY <1>3 DEF WalkStands, VerdictStands, ReadStands
<1> QED BY <1>2, <1>4 DEF PodInv

\* No ACL was stored or removed.
AclsKept ==
    \A j : j.acl \in Nat \ {0} =>
        /\ j \in DOMAIN store' <=> j \in DOMAIN store
        /\ j \in DOMAIN store => store'[j] = store[j]

\* A worker that does nothing keeps its place and its verdict when others do not
\* touch the ACLs; when they do, it is no longer quiet.
LEMMA OthersStand ==
    ASSUME PodInv, NEW w \in Workers,
           pc'[w] = pc[w], req'[w] = req[w], at'[w] = at[w], granted'[w] = granted[w],
           quiet'[w] => quiet[w] /\ AclsKept
    PROVE WalkStands(w)' /\ VerdictStands(w)'
<1>1. PICK i : i = req[w]
  OBVIOUS
<1>2. WellFormed(i.path) /\ Depth(i.path) \in Nat
  BY <1>1, RequestsWellFormed, PathShape, TrimmedShape DEF PodInv
<1>3. ASSUME AclsKept, NEW n \in 0..Depth(i.path)
      PROVE /\ Reads(KeyAt(i.path, n))' = Reads(KeyAt(i.path, n))
            /\ Granting(KeyAt(i.path, n))' = Granting(KeyAt(i.path, n))
  <2>1. PICK k : k = KeyAt(i.path, n)
    OBVIOUS
  <2>2. k.acl \in Nat \ {0}
    BY <1>2, <2>1, KeysAreAcls
  <2>3. BodyAt(k)' = BodyAt(k)
    BY <1>3, <2>2 DEF AclsKept, BodyAt, Present
  <2> QED BY <2>1, <2>3 DEF Reads, Granting
<1>4. ASSUME AclsKept, NEW n \in 0..Depth(i.path) PROVE PassedOver(i.path, n)' <=> PassedOver(i.path, n)
  BY <1>2, <1>3, <1>4 DEF PassedOver
<1>5. ASSUME AclsKept PROVE NearestGrants(i)' <=> NearestGrants(i)
  BY <1>3, <1>4, <1>5 DEF NearestGrants
<1>6. WalkStands(w)'
  BY <1>1, <1>4 DEF PodInv, WalkStands
<1>7. VerdictStands(w)'
  BY <1>1, <1>5 DEF PodInv, VerdictStands
<1> QED BY <1>6, <1>7

\* A write changes one key: who is still quiet saw no ACL change, and who is
\* still alone has another resource in hand.
LEMMA WritesAreNoticed ==
    ASSUME Shape, NEW k, NEW w \in Workers,
           \/ StoreDelete(k)
           \/ \E b : StorePut(k, b)
    PROVE /\ quiet'[w] => quiet[w] /\ AclsKept
          /\ alone'[w] => /\ alone[w]
                          /\ req[w].path \in DOMAIN store' <=> req[w].path \in DOMAIN store
                          /\ req[w].path \in DOMAIN store =>
                                store'[req[w].path] = store[req[w].path]
<1>1. quiet'[w] = (quiet[w] /\ k.acl = 0) /\ alone'[w] = (alone[w] /\ k # req[w].path)
  BY DEF StoreDelete, StorePut
<1>2. \A j : j # k => /\ j \in DOMAIN store' <=> j \in DOMAIN store
                      /\ j \in DOMAIN store => store'[j] = store[j]
  BY DEF StoreDelete, StorePut
<1>3. ASSUME k.acl = 0 PROVE AclsKept
  BY <1>2, <1>3 DEF AclsKept
<1> QED BY <1>1, <1>2, <1>3

LEMMA AcceptStep ==
    ASSUME PodInv, NEW w \in Workers, NEW i \in Inputs, Accept(w, i)
    PROVE PodInv'
<1>1. Shape'
  BY PodAssumption DEF PodInv, Shape, Accept
<1>2. WellFormed(i.path) /\ Depth(i.path) \in Nat
  BY PodAssumption, PathShape, TrimmedShape
<1>3. ASSUME NEW v \in Workers PROVE WalkStands(v)' /\ VerdictStands(v)' /\ ReadStands(v)'
  <2>1. CASE v = w
    <3>1. pc'[w] = "walk" /\ req'[w] = i /\ at'[w] = i.path
      BY DEF PodInv, Shape, Accept
    <3>2. PassedOver(i.path, Depth(i.path))' /\ AtLevel(i.path, Depth(i.path)) = i.path
      BY <1>2 DEF PassedOver, AtLevel
    <3> QED BY <1>2, <2>1, <3>1, <3>2 DEF WalkStands, VerdictStands, ReadStands
  <2>2. CASE v # w
    <3>1. /\ pc'[v] = pc[v] /\ req'[v] = req[v] /\ at'[v] = at[v] /\ quiet'[v] = quiet[v]
          /\ UNCHANGED <<store, base, granted, alone>>
      BY <2>2 DEF PodInv, Shape, Accept
    <3>2. AclsKept
      BY <3>1 DEF AclsKept
    <3>3. WalkStands(v)' /\ VerdictStands(v)'
      BY <3>1, <3>2, OthersStand
    <3>4. ReadStands(v)'
      BY <3>1 DEF PodInv, ReadStands, BodyAt, Present
    <3> QED BY <3>3, <3>4
  <2> QED BY <2>1, <2>2
<1> QED BY <1>1, <1>3 DEF PodInv

\* One turn of the walk: a document decides as the nearest one, an empty level is
\* passed over, and the root ends it.
LEMMA LookupStep ==
    ASSUME PodInv, NEW w \in Workers, Lookup(w)
    PROVE PodInv'
<1>1. PICK i : i = req[w]
  OBVIOUS
<1>2. i \in Inputs /\ WellFormed(i.path) /\ Depth(i.path) \in Nat
  BY <1>1, RequestsWellFormed, PathShape, TrimmedShape DEF PodInv
<1>3. pc[w] = "walk" /\ UNCHANGED <<store, req, base, sent, quiet, alone>>
  BY DEF Lookup
<1>4. PICK n \in 0..Depth(i.path) : at[w] = AtLevel(i.path, n) /\ (quiet[w] => PassedOver(i.path, n))
  BY <1>1, <1>3 DEF PodInv, WalkStands
<1>5. PICK k : k = KeyAt(i.path, n)
  OBVIOUS
<1>6. AclKey(at[w]) = k
  BY <1>2, <1>4, <1>5, KeyOfLevel
<1>7. \/ /\ Reads(k) = "acl" /\ Decide(w, Grants(Granting(k), i.agent, i.path, Mode(i)))
         /\ UNCHANGED at
      \/ Reads(k) = "too_deep" /\ Decide(w, FALSE) /\ UNCHANGED at
      \/ /\ Reads(k) \notin Settling /\ at[w] = Root /\ Decide(w, FALSE) /\ UNCHANGED at
      \/ /\ Reads(k) \notin Settling /\ at[w] # Root
         /\ at' = [at EXCEPT ![w] = Parent(at[w])] /\ UNCHANGED <<pc, granted>>
  BY <1>1, <1>6, ReadingsOf DEF Lookup, Settling, Reads, Granting
<1>8. Grants(Granting(k), i.agent, i.path, Mode(i)) \in BOOLEAN
  BY DEF Grants
<1>9. Shape'
  BY <1>3, <1>7, <1>8 DEF PodInv, Shape, Decide
<1>10. ASSUME NEW v \in Workers, v # w PROVE WalkStands(v)' /\ VerdictStands(v)' /\ ReadStands(v)'
  <2>1. pc'[v] = pc[v] /\ req'[v] = req[v] /\ at'[v] = at[v] /\ granted'[v] = granted[v]
    BY <1>3, <1>7, <1>10 DEF PodInv, Shape, Decide
  <2>2. AclsKept
    BY <1>3 DEF AclsKept
  <2>3. WalkStands(v)' /\ VerdictStands(v)'
    BY <1>3, <2>1, <2>2, OthersStand
  <2>4. ReadStands(v)'
    BY <1>3, <2>1 DEF PodInv, ReadStands, BodyAt, Present
  <2> QED BY <2>3, <2>4
<1>11. WalkStands(w)' /\ VerdictStands(w)' /\ ReadStands(w)'
  <2>1. CASE Reads(k) \in Settling \/ at[w] = Root
    <3>1. pc'[w] = "decided"
      BY <1>7, <2>1 DEF PodInv, Shape, Decide, Settling
    <3>2. ASSUME quiet[w] PROVE granted'[w] <=> NearestGrants(i)
      <4>1. PassedOver(i.path, n)
        BY <1>4, <3>2
      <4>2. ASSUME NEW m \in 0..Depth(i.path), PassedOver(i.path, m), Reads(KeyAt(i.path, m)) = "acl"
            PROVE m = n \/ (m < n /\ Reads(k) \notin Settling)
        BY <1>2, <1>5, <4>1, <4>2 DEF PassedOver, Settling
      <4>3. CASE Reads(k) = "acl"
        <5>1. granted'[w] = Grants(Granting(k), i.agent, i.path, Mode(i))
          BY <1>7, <4>3 DEF PodInv, Shape, Decide, Settling
        <5>2. NearestGrants(i) <=> Grants(Granting(k), i.agent, i.path, Mode(i))
          BY <1>5, <4>1, <4>2, <4>3 DEF NearestGrants, Settling
        <5> QED BY <5>1, <5>2
      <4>4. CASE Reads(k) = "too_deep"
        <5>1. granted'[w] = FALSE
          BY <1>7, <4>4 DEF PodInv, Shape, Decide, Settling
        <5>2. ~NearestGrants(i)
          BY <1>5, <4>2, <4>4 DEF NearestGrants, Settling
        <5> QED BY <5>1, <5>2
      <4>5. CASE Reads(k) \notin Settling
        <5>1. granted'[w] = FALSE /\ n = 0
          BY <1>2, <1>4, <1>7, <2>1, <4>5, RootLevel DEF PodInv, Shape, Decide, Settling
        <5>2. ~NearestGrants(i)
          BY <1>5, <4>2, <4>5, <5>1 DEF NearestGrants, Settling
        <5> QED BY <5>1, <5>2
      <4> QED BY <4>3, <4>4, <4>5 DEF Settling
    <3>3. NearestGrants(i)' <=> NearestGrants(i)
      BY <1>3 DEF NearestGrants, PassedOver, Reads, Granting, BodyAt, Present
    <3> QED BY <1>1, <1>3, <3>1, <3>2, <3>3 DEF WalkStands, VerdictStands, ReadStands
  <2>2. CASE Reads(k) \notin Settling /\ at[w] # Root
    <3>1. pc'[w] = "walk" /\ at'[w] = Parent(at[w])
      BY <1>3, <1>7, <2>2 DEF PodInv, Shape, Settling
    <3>2. n \in 1..Depth(i.path) /\ n - 1 \in 0..Depth(i.path)
      BY <1>2, <1>4, <2>2, RootLevel
    <3>3. at'[w] = AtLevel(i.path, n - 1)
      BY <1>2, <1>4, <3>1, <3>2, ParentLevel
    <3>4. quiet[w] => PassedOver(i.path, n - 1)
      BY <1>2, <1>4, <1>5, <2>2 DEF PassedOver
    <3>5. PassedOver(i.path, n - 1)' <=> PassedOver(i.path, n - 1)
      BY <1>3 DEF PassedOver, Reads, Granting, BodyAt, Present
    <3> QED BY <1>1, <1>3, <3>1, <3>2, <3>3, <3>4, <3>5 DEF WalkStands, VerdictStands, ReadStands
  <2> QED BY <2>1, <2>2
<1> QED BY <1>9, <1>10, <1>11 DEF PodInv

\* The end of a request: nothing is stored, or one body under one key.
LEMMA EndStep ==
    ASSUME PodInv, NEW w \in Workers, Done(w), UNCHANGED <<req, at, base, granted, sent>>, NEW k,
           \/ UNCHANGED <<store, quiet, alone>>
           \/ StoreDelete(k)
           \/ \E b : b.kind \in BodyKinds /\ StorePut(k, b)
    PROVE PodInv'
<1>1. Shape'
  <2>1. pc' \in [Workers -> {"idle", "walk", "decided", "write"}]
    BY DEF PodInv, Shape, Done
  <2>2. \A j \in DOMAIN store' : store'[j].kind \in BodyKinds
    BY DEF PodInv, Shape, StoreDelete, StorePut
  <2>3. quiet' \in [Workers -> BOOLEAN] /\ alone' \in [Workers -> BOOLEAN]
    BY DEF PodInv, Shape, StoreDelete, StorePut
  <2> QED BY <2>1, <2>2, <2>3 DEF PodInv, Shape
<1>2. ASSUME NEW v \in Workers PROVE WalkStands(v)' /\ VerdictStands(v)' /\ ReadStands(v)'
  <2>1. CASE v = w
    <3>1. pc'[v] = "idle"
      BY <2>1 DEF PodInv, Shape, Done
    <3> QED BY <3>1 DEF WalkStands, VerdictStands, ReadStands
  <2>2. CASE v # w
    <3>1. pc'[v] = pc[v]
      BY <2>2 DEF PodInv, Shape, Done
    <3>2. /\ quiet'[v] => quiet[v] /\ AclsKept
          /\ alone'[v] => /\ alone[v]
                          /\ req[v].path \in DOMAIN store' <=> req[v].path \in DOMAIN store
                          /\ req[v].path \in DOMAIN store =>
                                store'[req[v].path] = store[req[v].path]
      <4>1. CASE UNCHANGED <<store, quiet, alone>>
        BY <4>1 DEF AclsKept
      <4>2. CASE StoreDelete(k) \/ \E b : StorePut(k, b)
        BY <4>2, WritesAreNoticed DEF PodInv
      <4> QED BY <4>1, <4>2
    <3>3. WalkStands(v)' /\ VerdictStands(v)'
      BY <3>1, <3>2, OthersStand
    <3>4. ReadStands(v)'
      BY <3>1, <3>2 DEF PodInv, ReadStands, BodyAt, Present
    <3> QED BY <3>3, <3>4
  <2> QED BY <2>1, <2>2
<1> QED BY <1>1, <1>2 DEF PodInv

\* What a patch makes of a body is none or a body of its dialect.
LEMMA PatchedKinds ==
    ASSUME NEW q, NEW b
    PROVE Patched(q, b) = NoBody \/ Patched(q, b).kind \in BodyKinds
  BY DEF Patched, Json, Turtle, BodyKinds

LEMMA EffectsStep ==
    ASSUME PodInv, NEW w \in Workers,
           Deny(w) \/ PutResource(w) \/ PostChild(w) \/ DeleteResource(w) \/ PatchWrite(w)
    PROVE PodInv'
<1>1. req[w] \in Inputs
  BY RequestsWellFormed DEF PodInv
<1>2. CASE Deny(w)
  BY <1>2, EndStep DEF Deny
<1>3. CASE PutResource(w)
  <2>1. req[w].body.kind \in BodyKinds
    BY <1>1, <1>3, PodAssumption DEF PutResource
  <2> QED BY <1>3, <2>1, EndStep DEF PutResource
<1>4. CASE PostChild(w)
  <2>1. req[w].body.kind \in BodyKinds
    BY <1>1, <1>4, PodAssumption DEF PostChild
  <2> QED BY <1>4, <2>1, EndStep DEF PostChild
<1>5. CASE DeleteResource(w)
  BY <1>5, EndStep DEF DeleteResource
<1>6. CASE PatchWrite(w)
  BY <1>6, PatchedKinds, EndStep DEF PatchWrite
<1> QED BY <1>2, <1>3, <1>4, <1>5, <1>6

LEMMA PatchReadStep ==
    ASSUME PodInv, NEW w \in Workers, PatchRead(w)
    PROVE PodInv'
<1>1. Shape'
  BY DEF PodInv, Shape, PatchRead
<1>2. ASSUME NEW v \in Workers PROVE WalkStands(v)' /\ VerdictStands(v)' /\ ReadStands(v)'
  <2>1. CASE v = w
    <3>1. /\ pc'[w] = "write" /\ granted'[w] /\ req'[w] = req[w] /\ store' = store
          /\ base'[w] = BodyAt(req[w].path)
      BY DEF PodInv, Shape, PatchRead
    <3> QED BY <2>1, <3>1 DEF WalkStands, VerdictStands, ReadStands, BodyAt, Present
  <2>2. CASE v # w
    <3>1. /\ pc'[v] = pc[v] /\ base'[v] = base[v] /\ alone'[v] = alone[v]
          /\ UNCHANGED <<store, req, at, granted, sent, quiet>>
      BY <2>2 DEF PodInv, Shape, PatchRead
    <3>2. AclsKept
      BY <3>1 DEF AclsKept
    <3>3. WalkStands(v)' /\ VerdictStands(v)'
      BY <3>1, <3>2, OthersStand
    <3>4. ReadStands(v)'
      BY <3>1 DEF PodInv, ReadStands, BodyAt, Present
    <3> QED BY <3>3, <3>4
  <2> QED BY <2>1, <2>2
<1> QED BY <1>1, <1>2 DEF PodInv

LEMMA PodStutters ==
    ASSUME PodInv, UNCHANGED vars
    PROVE PodInv'
  BY DEF vars, PodInv, Shape, WalkStands, VerdictStands, ReadStands, NearestGrants,
         PassedOver, Reads, Granting, BodyAt, Present

LEMMA PodInvariant == Spec => []PodInv
<1>1. PodInv /\ [Next]_vars => PodInv'
  <2> SUFFICES ASSUME PodInv, [Next]_vars PROVE PodInv'
    OBVIOUS
  <2>1. ASSUME NEW w \in Workers, NEW i \in Inputs, Accept(w, i) PROVE PodInv'
    BY <2>1, AcceptStep
  <2>2. ASSUME NEW w \in Workers, Serve(w) PROVE PodInv'
    BY <2>2, LookupStep, EffectsStep, PatchReadStep DEF Serve
  <2>3. CASE UNCHANGED vars
    BY <2>3, PodStutters
  <2> QED BY <2>1, <2>2, <2>3 DEF Next
<1> QED BY <1>1, PodInitial, PTL DEF Spec

----------------------------------------------------------------------------
(* The properties.                                                         *)

\* find_effective_acl_dyn reads one level after another while other requests
\* write, ACLs too and by any method: if no ACL changed since the request came in,
\* enforce_write decides by the nearest ACL that parses, for any depth of path and
\* number of requests, and the walk only visits the ancestors of the path.
THEOREM NearestAclDecidesAlways == Spec => []NearestAclDecides
<1>1. ASSUME PodInv PROVE NearestAclDecides
  <2>1. TypeOK
    <3>1. ASSUME NEW w \in Workers, pc[w] = "walk"
          PROVE IsPrefix(Trimmed(at[w]).segs, req[w].path.segs)
      BY <1>1, <3>1, RequestsWellFormed, LevelIsPrefix DEF PodInv, WalkStands
    <3> QED BY <1>1, <3>1 DEF PodInv, Shape, TypeOK
  <2>2. Verdicts(Settling, AclKey)
    <3>1. ASSUME NEW w \in Workers, pc[w] = "decided", quiet[w]
          PROVE granted[w] <=> GrantedByNearest(req[w], Settling, AclKey)
      BY <1>1, <3>1, RequestsWellFormed, NearestIsFirst DEF PodInv, VerdictStands
    <3> QED BY <3>1 DEF Verdicts
  <2> QED BY <2>1, <2>2 DEF NearestAclDecides, Settling
<1> QED BY <1>1, PodInvariant, PTL

\* Deny by default is absorbing: in a pod whose ACLs hold no authorization, once no
\* granted request is left to act, no request there will ever be changes what is
\* stored.
THEOREM UnownedStaysFrozen == Spec => FrozenWithoutAcl
<1>1. ASSUME PodInv, [Next]_vars PROVE [Unowned => Unowned' /\ UNCHANGED store]_vars
  <2> SUFFICES ASSUME Unowned, Next PROVE Unowned' /\ UNCHANGED store
    BY <1>1
  <2>1. ASSUME NEW w \in Workers, NEW i \in Inputs, Accept(w, i)
        PROVE Unowned' /\ UNCHANGED store
    BY <1>1, <2>1 DEF Unowned, Accept, PodInv, Shape
  <2>2. ASSUME NEW w \in Workers, Lookup(w) PROVE Unowned' /\ UNCHANGED store
    <3> DEFINE k == AclKey(at[w])
    <3>1. k.acl \in Nat \ {0} /\ store' = store
      <4>1. pc[w] = "walk" /\ store' = store
        BY <2>2 DEF Lookup
      <4>2. PICK n \in 0..Depth(req[w].path) : at[w] = AtLevel(req[w].path, n)
        BY <1>1, <4>1 DEF PodInv, WalkStands
      <4>3. WellFormed(req[w].path)
        BY <1>1, RequestsWellFormed DEF PodInv
      <4> QED BY <4>1, <4>2, <4>3, KeyOfLevel, KeysAreAcls
    <3>2. ReadAs(BodyAt(k)) = "acl" => Authorizations(BodyAt(k)) = {}
      BY <3>1 DEF Unowned, BodyAt, Present, NoBody, Authorizations
    <3>3. ReadAs(BodyAt(k)) = "acl" => ~Grants(Authorizations(BodyAt(k)), req[w].agent, req[w].path, Mode(req[w]))
      BY <3>2 DEF Grants
    <3>4. Grants(Authorizations(BodyAt(k)), req[w].agent, req[w].path, Mode(req[w])) \in BOOLEAN
      BY DEF Grants
    <3>5. \/ UNCHANGED <<pc, granted>>
          \/ /\ granted' = [granted EXCEPT ![w] = FALSE]
             /\ pc' = [pc EXCEPT ![w] = "decided"]
      BY <2>2, <3>3, <3>4 DEF Lookup, Decide
    <3> QED BY <1>1, <3>1, <3>5 DEF Unowned, PodInv, Shape
  <2>3. ASSUME NEW w \in Workers, Deny(w) PROVE Unowned' /\ UNCHANGED store
    BY <1>1, <2>3 DEF Unowned, Deny, Done, PodInv, Shape
  <2>4. ASSUME NEW w \in Workers,
               PutResource(w) \/ PostChild(w) \/ DeleteResource(w) \/ PatchRead(w)
        PROVE FALSE
    BY <2>4 DEF Unowned, PutResource, PostChild, DeleteResource, PatchRead
  <2>5. ASSUME NEW w \in Workers, PatchWrite(w) PROVE FALSE
    BY <1>1, <2>5 DEF Unowned, PatchWrite, PodInv, ReadStands
  <2> QED BY <2>1, <2>2, <2>3, <2>4, <2>5 DEF Next, Serve
<1>2. Spec => [][Unowned => Unowned' /\ UNCHANGED store]_vars
  BY <1>1, PodInvariant, PTL DEF Spec
<1> QED BY <1>2 DEF FrozenWithoutAcl

\* handle_patch holds no lock between its read and its write: when nobody wrote the
\* resource in between, a JSON Patch that applies turns the stored members into what
\* it says, and one that does not apply stores nothing.
THEOREM UndisturbedPatchApplies == Spec => UndisturbedPatch
<1> DEFINE PatchSays(w) ==
      LET p == req[w].path
          q == req[w].body
      IN  (pc[w] = "write" /\ pc'[w] = "idle" /\ alone[w] /\ q.dialect = "json" /\ BodyAt(p).kind = "json") =>
              IF q.where \cup q.deletes \subseteq store[p].facts
              THEN store'[p] = Json((store[p].facts \ q.deletes) \cup q.inserts)
              ELSE UNCHANGED store
<1>1. ASSUME PodInv, Next, NEW w \in Workers PROVE PatchSays(w)
  <2> SUFFICES ASSUME pc[w] = "write", pc'[w] = "idle", alone[w],
                      req[w].body.dialect = "json", BodyAt(req[w].path).kind = "json"
               PROVE IF req[w].body.where \cup req[w].body.deletes \subseteq store[req[w].path].facts
                     THEN store'[req[w].path] =
                            Json((store[req[w].path].facts \ req[w].body.deletes) \cup req[w].body.inserts)
                     ELSE UNCHANGED store
    OBVIOUS
  <2>1. PICK p, q, s : p = req[w].path /\ q = req[w].body /\ s = store[p]
    OBVIOUS
  <2>2. base[w] = s /\ s.kind = "json" /\ p \in DOMAIN store
    <3>1. base[w] = BodyAt(p) /\ BodyAt(p).kind = "json"
      BY <1>1, <2>1 DEF PodInv, ReadStands
    <3>2. NoBody.kind # "json"
      BY DEF NoBody
    <3> QED BY <2>1, <3>1, <3>2 DEF BodyAt, Present
  <2>3. PatchWrite(w)
    <3>1. ASSUME NEW v \in Workers, NEW i \in Inputs, Accept(v, i) PROVE FALSE
      BY <1>1, <3>1 DEF Accept, PodInv, Shape
    <3>2. ASSUME NEW v \in Workers,
                 Lookup(v) \/ Deny(v) \/ PutResource(v) \/ PostChild(v)
                 \/ DeleteResource(v) \/ PatchRead(v)
          PROVE FALSE
      BY <1>1, <3>2 DEF Lookup, Decide, Deny, PutResource, PostChild, DeleteResource, PatchRead,
                        Done, PodInv, Shape
    <3>3. ASSUME NEW v \in Workers, PatchWrite(v) PROVE v = w
      BY <1>1, <3>3 DEF PatchWrite, Done, PodInv, Shape
    <3> QED BY <1>1, <3>1, <3>2, <3>3 DEF Next, Serve
  <2>4. s # NoBody /\ JsonSeed(s) = s.facts
    BY <2>2 DEF NoBody, JsonSeed
  <2>5. CASE q.where \cup q.deletes \subseteq s.facts
    <3>1. PICK out : out = Json((s.facts \ q.deletes) \cup q.inserts)
      OBVIOUS
    <3>2. Patched(q, s) = out /\ out # NoBody
      BY <2>1, <2>4, <2>5, <3>1 DEF Patched, Apply, Json, NoBody
    <3>3. StorePut(p, out)
      BY <2>1, <2>2, <2>3, <3>2 DEF PatchWrite
    <3>4. store'[p] = out
      BY <3>3 DEF StorePut
    <3> QED BY <2>1, <2>5, <3>1, <3>4
  <2>6. CASE ~(q.where \cup q.deletes \subseteq s.facts)
    <3>1. Patched(q, s) = NoBody
      BY <2>1, <2>4, <2>6 DEF Patched
    <3>2. store' = store
      BY <2>1, <2>2, <2>3, <3>1 DEF PatchWrite
    <3> QED BY <2>1, <2>6, <3>2
  <2> QED BY <2>5, <2>6
<1>2. ASSUME PodInv, [Next]_vars PROVE [\A w \in Workers : PatchSays(w)]_vars
  BY <1>1, <1>2
<1>3. Spec => [][\A w \in Workers : PatchSays(w)]_vars
  BY <1>2, PodInvariant, PTL DEF Spec
<1> QED BY <1>3 DEF UndisturbedPatch
=============================================================================
