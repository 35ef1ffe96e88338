------------------------- MODULE LegacyNotifications -------------------------
(***************************************************************************)
(* One legacy WebSocket connection (solid-0.1): the channel's subscriptions   *)
(* (notifications/legacy.rs) and the loop that multiplexes client lines,      *)
(* storage events and heartbeats onto a bounded queue                       *)
(* (handlers/legacy_notifications.rs).  A URI is [origin, path, dir]: its     *)
(* segments and whether it ends in a slash.                                 *)
(***************************************************************************)
EXTENDS Chains

CONSTANTS
    Lines,          \* client lines: records [op, uri, long]
    ChangedUris,    \* resources that storage events name
    ServerOrigins,  \* what may be configured as the origin: None or Some(origin)
    MaxSubs,        \* MAX_SUBSCRIPTIONS_PER_CONNECTION
    OutboundCap,    \* capacity of the outbound queue
    EventCap,       \* capacity of the storage broadcast
    MaxInputs       \* bound: lines, events, ticks and policy changes

ASSUME LegacyAssumption ==
    /\ MaxSubs \in Nat /\ OutboundCap \in Nat \ {0} /\ EventCap \in Nat \ {0}
    /\ {l.uri : l \in Lines} \cup ChangedUris
           \subseteq [origin : STRING, path : Seq(STRING), dir : BOOLEAN]

VARIABLES
    serverOrigin,  \* the server origin of this channel
    readable,      \* URIs the authoriser lets this client read now
    subs,          \* the subscription set
    outbound,      \* frames in the queue to the transport
    waiting,       \* a frame whose send waits for room: the loop waits with it
    pendingEvents, \* storage events this connection has not received
    wire,          \* history: frames that reached the transport
    granted,       \* history: acknowledged subscriptions, with consent
    loopRuns,      \* the loop has not returned
    inputs

legacyVars == <<serverOrigin, readable, subs, outbound, waiting, pendingEvents, wire, granted, loopRuns, inputs>>

\* new: without an authoriser everything is denied; the greeting goes first
LegacyInit ==
    /\ serverOrigin \in ServerOrigins
    /\ readable \in {{}, {l.uri : l \in Lines}}
    /\ subs = {}
    /\ outbound = <<[op |-> "protocol"]>>
    /\ waiting = None
    /\ pendingEvents = <<>> /\ wire = <<>> /\ granted = {} /\ loopRuns = TRUE /\ inputs = 0

Input == inputs < MaxInputs /\ inputs' = inputs + 1
LoopReady == loopRuns /\ waiting = None

\* send().await: queued, or the loop waits
SendFrame(f) ==
    IF Len(outbound) < OutboundCap
    THEN outbound' = Append(outbound, f) /\ UNCHANGED waiting
    ELSE waiting' = Some(f) /\ UNCHANGED outbound

----------------------------------------------------------------------------
(* Client lines.                                                           *)

\* subscribe: length, origin, limit, authoriser, in this order
SubscribeVerdict(line) == FirstOf(<<
    <<"url-too-long", line.long>>,
    <<"forbidden", serverOrigin # None /\ line.uri.origin # TheOne(serverOrigin)>>,
    <<"subscription-limit", Cardinality(subs) >= MaxSubs /\ line.uri \notin subs>>,
    <<"forbidden", line.uri \notin readable>>>>, "ack")

\* handle_line: a blank line is ignored, unsub has no answer, and an unknown
\* opcode asks the transport to close; the loop itself goes on
HandleLine(line) ==
    LET verdict == SubscribeVerdict(line) IN
    /\ LoopReady /\ Input
    /\ CASE line.op = "sub" ->
              /\ subs' = IF verdict = "ack" THEN subs \cup {line.uri} ELSE subs
              /\ granted' = IF verdict = "ack"
                            THEN granted \cup {[uri |-> line.uri, consent |-> line.uri \in readable]}
                            ELSE granted
              /\ SendFrame(IF verdict = "ack" THEN [op |-> "ack", uri |-> line.uri]
                           ELSE [op |-> "err", reason |-> verdict])
         [] line.op = "unsub" ->
              subs' = subs \ {line.uri} /\ UNCHANGED <<granted, outbound, waiting>>
         [] line.op = "blank" -> UNCHANGED <<subs, granted, outbound, waiting>>
         [] OTHER -> SendFrame([op |-> "close"]) /\ UNCHANGED <<subs, granted>>
    /\ UNCHANGED <<serverOrigin, readable, pendingEvents, wire, loopRuns>>

----------------------------------------------------------------------------
(* Storage events.                                                         *)

\* the broadcast keeps the last EventCap events; next_event skips the rest
StorageChange(uri) ==
    /\ Input
    /\ pendingEvents' = Append(IF Len(pendingEvents) = EventCap THEN Tail(pendingEvents) ELSE pendingEvents, uri)
    /\ UNCHANGED <<serverOrigin, readable, subs, outbound, waiting, wire, granted, loopRuns>>

Inside(uri, c) == c.dir /\ c.origin = uri.origin /\ Len(c.path) < Len(uri.path)
                  /\ SubSeq(uri.path, 1, Len(c.path)) = c.path
\* Mutation of MatchesSubscription: a prefix is enough, slash or not.
MatchesPrefix(uri) == \E s \in subs : s = uri \/ Inside(uri, [s EXCEPT !.dir = TRUE])
\* matches_subscription: the URI itself, or below a container
MatchesSubscription(uri) == \E s \in subs : s = uri \/ Inside(uri, s)

\* a pub line, dropped when the queue is full
NextEvent ==
    LET uri == Head(pendingEvents) IN
    /\ LoopReady /\ pendingEvents # <<>>
    /\ pendingEvents' = Tail(pendingEvents)
    /\ outbound' = IF MatchesSubscription(uri) /\ Len(outbound) < OutboundCap
                   THEN Append(outbound, [op |-> "pub", uri |-> uri]) ELSE outbound
    /\ UNCHANGED <<serverOrigin, readable, subs, waiting, wire, granted, loopRuns, inputs>>

Heartbeat ==
    /\ LoopReady /\ Input
    /\ SendFrame([op |-> "beat"])
    /\ UNCHANGED <<serverOrigin, readable, subs, pendingEvents, wire, granted, loopRuns>>

----------------------------------------------------------------------------

\* the transport takes a frame, which makes room for the one that waits
Transport ==
    /\ loopRuns /\ outbound # <<>>
    /\ wire' = Append(wire, Head(outbound))
    /\ outbound' = Tail(outbound) \o (IF waiting = None THEN <<>> ELSE <<TheOne(waiting)>>)
    /\ waiting' = None
    /\ UNCHANGED <<serverOrigin, readable, subs, pendingEvents, granted, loopRuns, inputs>>

\* the transport is gone, or the broadcast closed: the loop returns
LoopReturns ==
    /\ loopRuns
    /\ loopRuns' = FALSE
    /\ UNCHANGED <<serverOrigin, readable, subs, outbound, waiting, pendingEvents, wire, granted, inputs>>

\* access is withdrawn elsewhere; subscriptions are not looked at again
Withdraw ==
    /\ Input /\ readable # {}
    /\ readable' = {}
    /\ UNCHANGED <<serverOrigin, subs, outbound, waiting, pendingEvents, wire, granted, loopRuns>>

LegacyNext ==
    \/ \E l \in Lines : HandleLine(l)
    \/ \E u \in ChangedUris : StorageChange(u)
    \/ NextEvent \/ Heartbeat \/ Transport \/ LoopReturns \/ Withdraw

----------------------------------------------------------------------------

Sent == wire \o outbound

\* Lines, events and heartbeats share a bounded queue, pubs may be dropped and
\* the rest waits for room.  Whatever the interleaving, the greeting comes
\* first, and a pub comes behind the ack of a target that the authoriser
\* allowed, of this origin, which is the resource or a container around it.
LegacyPubsCovered ==
    /\ Sent[1].op = "protocol"
    /\ \A i \in DOMAIN Sent : Sent[i].op = "pub" =>
           \E j \in 1..i - 1 :
               /\ Sent[j].op = "ack"
               /\ Sent[j].uri = Sent[i].uri \/ Inside(Sent[i].uri, Sent[j].uri)
               /\ [uri |-> Sent[j].uri, consent |-> TRUE] \in granted
               /\ serverOrigin # None => Sent[j].uri.origin = TheOne(serverOrigin)
    /\ Cardinality(subs) <= MaxSubs
=============================================================================
