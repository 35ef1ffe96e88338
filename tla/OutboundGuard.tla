--------------------------- MODULE OutboundGuard ---------------------------
(***************************************************************************)
(* The guard on outbound requests (security/ssrf.rs): classification of an   *)
(* address, the operator's policy, and the free functions with the strict    *)
(* default policy.  An address is [v, parts]: four octets or eight segments. *)
(***************************************************************************)
EXTENDS Chains

V4(o) == [v |-> 4, parts |-> o]
V6(s) == [v |-> 6, parts |-> s]

\* 100.64.0.0/10, carrier-grade NAT
IsCgnatHalf(o) == o[1] = 100 /\ o[2] \in 64..95
IsCgnat(o) == o[1] = 100 /\ o[2] \in 64..127

ClassifyV4(o) == FirstOf(<<
    <<"Reserved",  o = <<169, 254, 169, 254>>>>,
    <<"Reserved",  o = <<0, 0, 0, 0>> \/ o = <<255, 255, 255, 255>>>>,
    <<"Reserved",  SubSeq(o, 1, 3) \in {<<192, 0, 2>>, <<198, 51, 100>>, <<203, 0, 113>>}>>,
    <<"Loopback",  o[1] = 127>>,
    <<"LinkLocal", o[1] = 169 /\ o[2] = 254>>,
    <<"Multicast", o[1] \in 224..239>>,
    <<"Private",   o[1] = 10 \/ (o[1] = 172 /\ o[2] \in 16..31) \/ (o[1] = 192 /\ o[2] = 168)>>,
    <<"Reserved",  o[1] = 0>>,
    <<"Reserved",  IsCgnat(o)>>,
    <<"Reserved",  o[1] = 192 /\ SubSeq(o, 2, 3) \in {<<0, 0>>, <<88, 99>>}>>,
    <<"Reserved",  o[1] = 198 /\ o[2] \in {18, 19}>>,
    <<"Reserved",  o[1] \in 240..255>>>>, "Public")

\* ::ffff:a.b.c.d; an IPv4-compatible address ::a.b.c.d is not unwrapped.
IsMapped(s) == SubSeq(s, 1, 6) = <<0, 0, 0, 0, 0, 65535>>
MappedV4(s) == <<s[7] \div 256, s[7] % 256, s[8] \div 256, s[8] % 256>>

\* fd00:ec2::254, ::, ::1, ff00::/8, mapped, fe80::/10, fc00::/7, fec0::/10,
\* 100::/64 and 2001:db8::/32, in this order.
ClassifyV6(s) == FirstOf(<<
    <<"Reserved",  s = <<64768, 3778, 0, 0, 0, 0, 0, 596>>>>,
    <<"Reserved",  s = <<0, 0, 0, 0, 0, 0, 0, 0>>>>,
    <<"Loopback",  s = <<0, 0, 0, 0, 0, 0, 0, 1>>>>,
    <<"Multicast", s[1] \in 65280..65535>>,
    <<ClassifyV4(MappedV4(s)), IsMapped(s)>>,
    <<"LinkLocal", s[1] \in 65152..65215>>,
    <<"Private",   s[1] \in 64512..65023>>,
    <<"Private",   s[1] \in 65216..65279>>,
    <<"Reserved",  SubSeq(s, 1, 4) = <<256, 0, 0, 0>>>>,
    <<"Reserved",  s[1] = 8193 /\ s[2] = 3512>>>>, "Public")

Classify(ip) == IF ip.v = 4 THEN ClassifyV4(ip.parts) ELSE ClassifyV6(ip.parts)

----------------------------------------------------------------------------
(* A host as written: a name, whether it has capitals, a port or 0, and      *)
(* whether it is a bracketed IPv6 literal.                                   *)

\* What stands before the first colon, in lower case; an IPv6 literal is cut
\* at its own first colon.
HostPart(h) == IF h.literal6 THEN "[" ELSE h.name

ListContainsHost(list, name) == \E e \in list : HostPart(e) # "" /\ HostPart(e) = name

MetadataHosts == {"metadata.google.internal", "metadata", "metadata.goog"}
IsKnownMetadataHostname(h) == HostPart(h) \in MetadataHosts

\* env_bool and env_csv: the toggles are off and the lists empty when unset.
EnvBool(v) == v \in {"1", "true", "yes", "on"}
PolicyFromEnv(env) == [
    private |-> EnvBool(env.private), loopback |-> EnvBool(env.loopback),
    linkLocal |-> EnvBool(env.linkLocal),
    allow |-> {e \in env.allow : e.name # ""}, deny |-> {e \in env.deny : e.name # ""}]

Permits(policy, class) ==
    \/ class = "Public"
    \/ class = "Private" /\ policy.private
    \/ class = "Loopback" /\ policy.loopback
    \/ class = "LinkLocal" /\ policy.linkLocal

\* The answer used; the unspecified address stands for no answer.
FirstAddr(dns) == IF dns.addrs = <<>> THEN V4(<<0, 0, 0, 0>>) ELSE Head(dns.addrs)

\* SsrfPolicy::resolve_and_check: the first answer of the resolver is checked
\* and returned; the lists are keyed by the host, the denylist goes first.
\* dns is what the resolver says: [ok, addrs].
ResolveAndCheckPolicy(policy, host, dns) == FirstOf(<<
    <<[err |-> "MissingHost"], host.name = "">>,
    <<[err |-> "DnsFailure"], ~dns.ok>>,
    <<[err |-> "NoAddresses"], dns.addrs = <<>>>>,
    <<[err |-> "Denylisted"], ListContainsHost(policy.deny, host.name)>>,
    <<[ip |-> FirstAddr(dns)], ListContainsHost(policy.allow, host.name)>>,
    <<[ip |-> FirstAddr(dns)], Permits(policy, Classify(FirstAddr(dns)))>>>>,
    [err |-> "BlockedClass"])

CheckIpSafe(ip) == Classify(ip) = "Public"

\* Mutation of AllSafe: only the address that will be used is looked at.
FirstSafe(addrs) == addrs = <<>> \/ CheckIpSafe(addrs[1])
AllSafe(addrs) == \A i \in DOMAIN addrs : CheckIpSafe(addrs[i])

\* resolve_and_check: every answer has to be public; the first is returned.
ResolveAndCheck(host, dns) == FirstOf(<<
    <<[err |-> "BlockedClass"], IsKnownMetadataHostname(host)>>,
    <<[err |-> "DnsFailure"], ~dns.ok>>,
    <<[err |-> "BlockedClass"], ~AllSafe(dns.addrs)>>,
    <<[err |-> "NoAddresses"], dns.addrs = <<>>>>>>,
    [ip |-> FirstAddr(dns)])

\* is_safe_url: an address literal is checked, a name is only compared.
IsSafeUrl(host) ==
    IF host.ip # None THEN CheckIpSafe(TheOne(host.ip))
    ELSE host.name # "" /\ ~IsKnownMetadataHostname(host)

----------------------------------------------------------------------------
(* The reference: longest match in the table of special-purpose ranges that  *)
(* the comments of ssrf.rs list, Teredo (2001::/32) among them.              *)

Range4(c, base, len) == [class |-> c, base |-> base, len |-> len, width |-> 8]
Range6(c, base, len) == [class |-> c, base |-> base, len |-> len, width |-> 16]
Zeros6(s) == s \o [i \in 1..(8 - Len(s)) |-> 0]

Table4 == {
    Range4("Public", <<0, 0, 0, 0>>, 0), Range4("Reserved", <<0, 0, 0, 0>>, 8),
    Range4("Private", <<10, 0, 0, 0>>, 8), Range4("Reserved", <<100, 64, 0, 0>>, 10),
    Range4("Loopback", <<127, 0, 0, 0>>, 8), Range4("LinkLocal", <<169, 254, 0, 0>>, 16),
    Range4("Reserved", <<169, 254, 169, 254>>, 32), Range4("Private", <<172, 16, 0, 0>>, 12),
    Range4("Reserved", <<192, 0, 0, 0>>, 24), Range4("Reserved", <<192, 0, 2, 0>>, 24),
    Range4("Reserved", <<192, 88, 99, 0>>, 24), Range4("Private", <<192, 168, 0, 0>>, 16),
    Range4("Reserved", <<198, 18, 0, 0>>, 15), Range4("Reserved", <<198, 51, 100, 0>>, 24),
    Range4("Reserved", <<203, 0, 113, 0>>, 24), Range4("Multicast", <<224, 0, 0, 0>>, 4),
    Range4("Reserved", <<240, 0, 0, 0>>, 4)}

Table6 == {
    Range6("Public", Zeros6(<<>>), 0), Range6("Reserved", Zeros6(<<>>), 128),
    Range6("Loopback", <<0, 0, 0, 0, 0, 0, 0, 1>>, 128), Range6("Multicast", Zeros6(<<65280>>), 8),
    Range6("LinkLocal", Zeros6(<<65152>>), 10), Range6("Private", Zeros6(<<64512>>), 7),
    Range6("Private", Zeros6(<<65216>>), 10), Range6("Reserved", Zeros6(<<256>>), 64),
    Range6("Reserved", Zeros6(<<8193, 3512>>), 32), Range6("Reserved", Zeros6(<<8193, 0>>), 32),
    Range6("Reserved", <<64768, 3778, 0, 0, 0, 0, 0, 596>>, 128)}

\* The first len bits of the address and of the range's base agree.
InRange(parts, r) == \A i \in DOMAIN parts :
    LET left == r.len - r.width * (i - 1)
        bits == IF left < 0 THEN 0 ELSE IF left > r.width THEN r.width ELSE left
    IN  parts[i] \div 2^(r.width - bits) = r.base[i] \div 2^(r.width - bits)

LongestMatch(parts, table) ==
    LET r == CHOOSE r \in table : /\ InRange(parts, r)
                                  /\ \A q \in table : InRange(parts, q) => q.len <= r.len
    IN  r.class

\* ::a.b.c.d, which a comment routes through IPv4; :: and ::1 go first.
IsCompatible(s) ==
    SubSeq(s, 1, 6) = <<0, 0, 0, 0, 0, 0>> /\ SubSeq(s, 7, 8) \notin {<<0, 0>>, <<0, 1>>}

DocumentedClass(ip) ==
    IF ip.v = 4 THEN LongestMatch(ip.parts, Table4)
    ELSE IF IsMapped(ip.parts) \/ IsCompatible(ip.parts) THEN LongestMatch(MappedV4(ip.parts), Table4)
    ELSE LongestMatch(ip.parts, Table6)

\* The two rows of the comments that classify_v6 has no test for.
Overlooked(ip) == ip.v = 6 /\ (IsCompatible(ip.parts) \/ (ip.parts[1] = 8193 /\ ip.parts[2] = 0))
=============================================================================
