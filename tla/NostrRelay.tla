----------------------------- MODULE NostrRelay -----------------------------
(***************************************************************************)
(* The embedded Nostr relay (relay.rs) and its WebSocket loop (ws.rs):        *)
(* publishers ingest events while a subscriber's socket replays history and   *)
(* follows the live broadcast.  An event is a record [id, key, kind, at, d,    *)
(* tags, ok]: ok is what Event::verify finds of its id and signature.         *)
(***************************************************************************)
EXTENDS Chains

CONSTANTS
    Events,          \* events clients publish
    Requests,        \* filter lists a client asks for
    Publishers,      \* sockets that publish
    MaxEvents,       \* capacity of the event store
    LiveCapacity,    \* capacity of the broadcast channel
    MaxIngests,      \* bound: events published
    MaxFrames        \* bound: frames from the subscriber

\* InMemoryEventStore::new and Relay::new raise both capacities to one
ASSUME RelayAssumption == {MaxEvents, LiveCapacity} \subseteq Nat \ {0}

VARIABLES
    stored,      \* the event store, oldest first
    live,        \* every event broadcast; a receiver reaches back LiveCapacity
    ingesting,   \* publisher -> its event and what is left to do with it
    socket,      \* the subscriber's socket
    ingests, frames,
    overlapped   \* history: slots of replaceable events with two ingests at once

relayVars == <<stored, live, ingesting, socket, ingests, frames, overlapped>>

----------------------------------------------------------------------------
(* Kinds and filters.                                                      *)

IsReplaceable(kind) == kind \in {0, 3} \/ kind \in 10000..19999
IsEphemeral(kind) == kind \in 20000..29999
IsParameterised(kind) == kind \in 30000..39999

\* what replace_where compares; regular events have no slot
Slot(e) == IF IsReplaceable(e.kind) THEN <<e.key, e.kind, None>> ELSE <<e.key, e.kind, e.d>>
HasSlot(e) == IsReplaceable(e.kind) \/ IsParameterised(e.kind)

\* Filter::matches.  An absent field is no constraint; a tag filter that is
\* not a list matches nothing.
In(field, v) == field = None \/ v \in TheOne(field)
Matches(f, e) ==
    /\ In(f.ids, e.id) /\ In(f.authors, e.key) /\ In(f.kinds, e.kind)
    /\ \A s \in f.since : e.at >= s
    /\ \A u \in f.until : e.at <= u
    /\ \A t \in f.tags : t.values # None /\ \E v \in TheOne(t.values) : <<t.name, v>> \in e.tags

\* history: each filter's last limit matches, without repeating an id
LastOf(places, limit) ==
    {i \in places : \A n \in limit : Cardinality({j \in places : j > i}) < n}
Found(f) == LastOf({i \in DOMAIN stored : Matches(f, stored[i])}, f.limit)
History(filters) ==
    UNION {{stored[i].id : i \in Found(filters[n])} : n \in DOMAIN filters}

----------------------------------------------------------------------------

NoIngest == [todo |-> <<>>]
NoSocket == [open |-> FALSE, cursor |-> 0, stalled |-> FALSE, sub |-> None, lagged |-> FALSE, sent |-> {}]

RelayInit ==
    /\ stored = <<>> /\ live = <<>>
    /\ ingesting = [p \in Publishers |-> NoIngest]
    /\ socket = [NoSocket EXCEPT !.open = TRUE]
    /\ ingests = 0 /\ frames = 0 /\ overlapped = {}

\* Mutation of Pipeline: a replaceable event is stored like any other.
PipelineNeverReplaces(e) ==
    IF IsEphemeral(e.kind) THEN <<"send">> ELSE <<"put", "send">>
\* Mutation of Pipeline: subscribers hear of a regular event before it is stored.
PipelineSendFirst(e) ==
    IF IsEphemeral(e.kind) THEN <<"send">>
    ELSE IF HasSlot(e) THEN <<"replace", "send">> ELSE <<"send", "put">>
\* ingest: ephemeral events are only broadcast; the others are stored first
Pipeline(e) ==
    IF IsEphemeral(e.kind) THEN <<"send">>
    ELSE IF HasSlot(e) THEN <<"replace", "send">> ELSE <<"put", "send">>

Ingesting(p, e) == ingesting[p].todo # <<>> /\ HasSlot(ingesting[p].event)
                   /\ Slot(ingesting[p].event) = Slot(e)

\* handle_event: an event that does not verify is answered with OK false
HandleEvent(p, e) ==
    /\ ingesting[p].todo = <<>> /\ ingests < MaxIngests
    /\ ingests' = ingests + 1
    /\ ingesting' = [ingesting EXCEPT ![p] =
           IF e.ok THEN [event |-> e, todo |-> Pipeline(e)] ELSE NoIngest]
    /\ overlapped' = overlapped \cup
           (IF e.ok /\ HasSlot(e) /\ \E q \in Publishers : Ingesting(q, e) THEN {Slot(e)} ELSE {})
    /\ UNCHANGED <<stored, live, socket, frames>>

At(p, stage) == ingesting[p].todo # <<>> /\ Head(ingesting[p].todo) = stage

\* replace_where: the first event of the slot, whichever is newer; else put
ReplaceWhere(p) ==
    LET e == ingesting[p].event
        same == {i \in DOMAIN stored : HasSlot(stored[i]) /\ Slot(stored[i]) = Slot(e)}
        first == CHOOSE i \in same : \A j \in same : i <= j
        rest == Tail(ingesting[p].todo)
    IN
    /\ At(p, "replace")
    /\ stored' = IF same # {} THEN [stored EXCEPT ![first] = e] ELSE stored
    /\ ingesting' = [ingesting EXCEPT ![p].todo = IF same # {} THEN rest ELSE <<"put">> \o rest]
    /\ UNCHANGED <<live, socket, ingests, frames, overlapped>>

\* put: at capacity the oldest goes
StorePut(p) ==
    /\ At(p, "put")
    /\ stored' = Append(IF Len(stored) >= MaxEvents THEN Tail(stored) ELSE stored, ingesting[p].event)
    /\ ingesting' = [ingesting EXCEPT ![p].todo = Tail(@)]
    /\ UNCHANGED <<live, socket, ingests, frames, overlapped>>

Broadcast(p) ==
    /\ At(p, "send")
    /\ live' = Append(live, ingesting[p].event)
    /\ ingesting' = [ingesting EXCEPT ![p].todo = Tail(@)]
    /\ UNCHANGED <<stored, socket, ingests, frames, overlapped>>

----------------------------------------------------------------------------
(* The subscriber's loop: select over the wire and the broadcast.             *)

Frame == socket.open /\ frames < MaxFrames /\ frames' = frames + 1

\* handle_req: history, then the subscription, which replaces one of its name
HandleReq(filters) ==
    /\ Frame
    /\ socket' = [socket EXCEPT !.sub = Some(filters), !.sent = History(filters),
                                !.stalled = FALSE, !.lagged = FALSE]
    /\ UNCHANGED <<stored, live, ingesting, ingests, overlapped>>

\* handle_close
HandleClose ==
    /\ Frame
    /\ socket' = [socket EXCEPT !.sub = None, !.sent = {}, !.stalled = FALSE]
    /\ UNCHANGED <<stored, live, ingesting, ingests, overlapped>>

\* any other frame: a ping, or one that is answered with a NOTICE; it changes
\* nothing but that the loop selects anew
OtherFrame ==
    /\ Frame /\ socket.stalled
    /\ socket' = [socket EXCEPT !.stalled = FALSE]
    /\ UNCHANGED <<stored, live, ingesting, ingests, overlapped>>

\* recv: the next event.  A receiver that fell behind gets an error instead,
\* which switches the branch off until the wire has had its turn.
Behind == Len(live) - socket.cursor > LiveCapacity
LiveEvent ==
    LET e == live[socket.cursor + 1] IN
    /\ socket.open /\ ~socket.stalled /\ socket.cursor < Len(live)
    /\ socket' =
           IF Behind
           THEN [socket EXCEPT !.cursor = Len(live) - LiveCapacity, !.stalled = TRUE, !.lagged = TRUE]
           ELSE [socket EXCEPT !.cursor = @ + 1, !.sent = @ \cup
                    (IF socket.sub # None /\ \E i \in DOMAIN TheOne(socket.sub) :
                            Matches(TheOne(socket.sub)[i], e)
                     THEN {e.id} ELSE {})]
    /\ UNCHANGED <<stored, live, ingesting, ingests, frames, overlapped>>

\* a close frame, an error on the wire, or a send that fails
SocketEnds ==
    /\ socket.open
    /\ socket' = NoSocket
    /\ UNCHANGED <<stored, live, ingesting, ingests, frames, overlapped>>

RelayNext ==
    \/ \E p \in Publishers :
           \/ \E e \in Events : HandleEvent(p, e)
           \/ ReplaceWhere(p) \/ StorePut(p) \/ Broadcast(p)
    \/ \E r \in Requests : HandleReq(r)
    \/ HandleClose \/ OtherFrame \/ LiveEvent \/ SocketEnds

----------------------------------------------------------------------------

\* History is read once and the broadcast followed from before: a subscriber
\* that asked without a limit and has not fallen behind misses nothing.  Once
\* it has read what was broadcast, it was sent every stored event its filters
\* match, but for those still between the store and the broadcast.
RelayHasNoGap ==
    (socket.sub # None /\ ~socket.lagged /\ socket.cursor = Len(live)) =>
        \A i \in DOMAIN stored, f \in {TheOne(socket.sub)[j] : j \in DOMAIN TheOne(socket.sub)} :
            (Matches(f, stored[i]) /\ f.limit = None) =>
                \/ stored[i].id \in socket.sent
                \/ \E p \in Publishers : ingesting[p].todo # <<>> /\ ingesting[p].event = stored[i]

\* replace_where and put are two locked sections: a replaceable event is stored
\* once, unless two ingests for its slot overlapped.
ReplaceableStoredOnce ==
    \A i, j \in DOMAIN stored :
        (HasSlot(stored[i]) /\ HasSlot(stored[j]) /\ Slot(stored[i]) = Slot(stored[j])) =>
            i = j \/ Slot(stored[i]) \in overlapped

\* The store and what subscribers were sent agree, and the store holds one
\* event for each slot.
RelayConsistent == RelayHasNoGap /\ ReplaceableStoredOnce
=============================================================================
