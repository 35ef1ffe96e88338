--------------------------- MODULE MemoryBackend ---------------------------
(***************************************************************************)
(* The in-memory storage backend (storage/memory.rs) with its watchers.      *)
(*                                                                         *)
(* The map is guarded by one RwLock, but a change event is sent after the    *)
(* guard is dropped.  Every watcher is a task that copies the events under   *)
(* its root from a shared broadcast ring into a bounded channel of its own.  *)
(* A path is the sequence of its segments: "/" is <<"">>, "/a/" <<"a", "">>. *)
(***************************************************************************)
EXTENDS Integers, Sequences, SequencesExt, FiniteSets

CONSTANTS
    Clients,     \* concurrent callers of get, put and delete
    Watchers,    \* calls of watch
    Keys,        \* stored paths
    Roots,       \* paths given to watch
    Entries,     \* what a put stores: a body and a content type
    NoEntry,
    RingCap,     \* broadcast::channel(256)
    OutCap,      \* mpsc::channel(64)
    MaxEvents    \* bound: changes made

ASSUME MemoryAssumption ==
    /\ NoEntry \notin Entries /\ Keys \cup Roots \subseteq Seq(STRING)
    /\ RingCap \in Nat \ {0} /\ OutCap \in Nat \ {0} /\ MaxEvents \in Nat

VARIABLES
    data,      \* the HashMap behind the RwLock
    answer,    \* what each caller's last operation returned
    unsent,    \* events of changes made whose send is still to come
    log,       \* everything ever sent on the broadcast channel
    task,      \* state of each watcher's task
    root,      \* filter_path
    pos,       \* index in log of the next event the task receives
    held,      \* the event the task is sending to the caller's channel
    out,       \* the caller's channel
    open,      \* whether the caller still holds the receiver
    got, from  \* history: events the caller took, log index at subscription

store == <<data, answer>>
watch == <<task, root, pos, held, out, open, got, from>>
vars == <<store, unsent, log, watch>>

Kinds == {"Created", "Updated", "Deleted"}
Events == [kind : Kinds, path : Keys]
Event(kind, k) == [kind |-> kind, path |-> k]
NoEvent == [kind |-> "None"]

Contract == INSTANCE ResourceStore

\* The map, the ring and the bounded channel of each watcher.
TypeOK ==
    /\ data \in [Keys -> Entries \cup {NoEntry}]
    /\ answer \in [Clients -> Contract!Answers]
    /\ unsent \in [Clients -> Events \cup {NoEvent}]
    /\ log \in Seq(Events) /\ Len(log) <= MaxEvents
    /\ task \in [Watchers -> {"none", "recv", "send", "ended"}]
    /\ root \in [Watchers -> Roots]
    /\ pos \in [Watchers -> 1..(MaxEvents + 1)]
    /\ held \in [Watchers -> Events \cup {NoEvent}]
    /\ \A w \in Watchers : out[w] \in Seq(Events) /\ Len(out[w]) <= OutCap
    /\ open \in [Watchers -> BOOLEAN]
    /\ \A w \in Watchers : got[w] \in Seq(Events)
    /\ from \in [Watchers -> 1..(MaxEvents + 1)]

Init ==
    /\ Contract!Init
    /\ unsent = [c \in Clients |-> NoEvent]
    /\ log = <<>>
    /\ task = [w \in Watchers |-> "none"]
    /\ root \in [Watchers -> Roots]
    /\ pos = [w \in Watchers |-> 1]
    /\ held = [w \in Watchers |-> NoEvent]
    /\ out = [w \in Watchers |-> <<>>]
    /\ open = [w \in Watchers |-> TRUE]
    /\ got = [w \in Watchers |-> <<>>]
    /\ from = [w \in Watchers |-> 1]

----------------------------------------------------------------------------
(* The callers.                                                            *)

InFlight == {c \in Clients : unsent[c] # NoEvent}
Idle(c) == unsent[c] = NoEvent
Room == Len(log) + Cardinality(InFlight) < MaxEvents

\* Mutation of Put: create only, the stored entry of an existing path is kept.
PutKeepsOld(c, k, e) ==
    /\ Idle(c) /\ Room
    /\ data' = [data EXCEPT ![k] = IF @ = NoEntry THEN e ELSE @]
    /\ answer' = [answer EXCEPT ![c] = Contract!Ok(e)]
    /\ unsent' = [unsent EXCEPT
          ![c] = Event(IF data[k] = NoEntry THEN "Created" ELSE "Updated", k)]
    /\ UNCHANGED <<log, watch>>

\* Under the write guard; the event is chosen here and sent after the drop.
Put(c, k, e) ==
    /\ Idle(c) /\ Room
    /\ data' = [data EXCEPT ![k] = e]
    /\ answer' = [answer EXCEPT ![c] = Contract!Ok(e)]
    /\ unsent' = [unsent EXCEPT
          ![c] = Event(IF data[k] = NoEntry THEN "Created" ELSE "Updated", k)]
    /\ UNCHANGED <<log, watch>>

\* Removing nothing is NotFound and sends nothing.
Delete(c, k) ==
    /\ Idle(c) /\ Room
    /\ \/ /\ data[k] = NoEntry
          /\ answer' = [answer EXCEPT ![c] = Contract!NotFound]
          /\ UNCHANGED <<data, unsent>>
       \/ /\ data[k] # NoEntry
          /\ data' = [data EXCEPT ![k] = NoEntry]
          /\ answer' = [answer EXCEPT ![c] = Contract!Ok(NoEntry)]
          /\ unsent' = [unsent EXCEPT ![c] = Event("Deleted", k)]
    /\ UNCHANGED <<log, watch>>

\* get, head and exists look the path up under the read guard.
Get(c, k) ==
    /\ Idle(c)
    /\ answer' = [answer EXCEPT ![c] =
          IF data[k] = NoEntry THEN Contract!NotFound ELSE Contract!Ok(data[k])]
    /\ UNCHANGED <<data, unsent, log, watch>>

\* events.send, outside the lock; an error (no receiver) is ignored.
SendEvent(c) ==
    /\ unsent[c] # NoEvent
    /\ log' = Append(log, unsent[c])
    /\ unsent' = [unsent EXCEPT ![c] = NoEvent]
    /\ UNCHANGED <<store, watch>>

----------------------------------------------------------------------------
(* The watchers.                                                           *)

\* The empty segment behind a trailing slash.
Slash == ""

Trimmed(p) == IF Last(p) = Slash THEN Front(p) ELSE p

\* is_under compares whole segments, and "/" covers everything but itself.
IsUnder(p, container) ==
    IF container = <<Slash>> THEN p # <<Slash>> ELSE IsPrefix(Trimmed(container), p)

\* list: the first segment below the container of every stored path, with a
\* trailing slash when the path goes on; the container itself is left out.
List(container) ==
    LET dir == Trimmed(container)
        below == {k \in Keys : /\ data[k] # NoEntry
                               /\ Len(k) > Len(dir) /\ IsPrefix(dir, k)}
        rest == {SubSeq(k, Len(dir) + 1, Len(k)) : k \in below} \ {<<Slash>>}
    IN {IF Len(r) = 1 THEN r ELSE <<r[1], Slash>> : r \in rest}

\* subscribe only sees events sent from now on.
Watch(w) ==
    /\ task[w] = "none"
    /\ task' = [task EXCEPT ![w] = "recv"]
    /\ pos' = [pos EXCEPT ![w] = Len(log) + 1]
    /\ from' = [from EXCEPT ![w] = Len(log) + 1]
    /\ UNCHANGED <<store, unsent, log, root, held, out, open, got>>

\* The ring keeps the last RingCap events; the next one may be overwritten.
Lagged(w) == Len(log) - pos[w] >= RingCap

\* Mutation of Receive: a lagging task resumes at the oldest event kept.
ReceiveSkippingLag(w) ==
    /\ task[w] = "recv"
    /\ pos[w] <= Len(log)
    /\ LET i == IF Lagged(w) THEN Len(log) - RingCap + 1 ELSE pos[w] IN
       /\ pos' = [pos EXCEPT ![w] = i + 1]
       /\ IF IsUnder(log[i].path, root[w])
          THEN /\ task' = [task EXCEPT ![w] = "send"]
               /\ held' = [held EXCEPT ![w] = log[i]]
          ELSE UNCHANGED <<task, held>>
    /\ UNCHANGED <<store, unsent, log, root, out, open, got, from>>

\* while let Ok(event) = rx.recv(): the loop also ends on Err(Lagged).
Receive(w) ==
    /\ task[w] = "recv"
    /\ IF Lagged(w)
       THEN /\ task' = [task EXCEPT ![w] = "ended"]
            /\ UNCHANGED <<pos, held>>
       ELSE /\ pos[w] <= Len(log)
            /\ pos' = [pos EXCEPT ![w] = @ + 1]
            /\ IF IsUnder(log[pos[w]].path, root[w])
               THEN /\ task' = [task EXCEPT ![w] = "send"]
                    /\ held' = [held EXCEPT ![w] = log[pos[w]]]
               ELSE UNCHANGED <<task, held>>
    /\ UNCHANGED <<store, unsent, log, root, out, open, got, from>>

\* Mutation of Forward: try_send, a full channel loses the event.
ForwardOrLose(w) ==
    /\ task[w] = "send"
    /\ task' = [task EXCEPT ![w] = IF open[w] THEN "recv" ELSE "ended"]
    /\ out' = [out EXCEPT ![w] =
          IF open[w] /\ Len(@) < OutCap THEN Append(@, held[w]) ELSE @]
    /\ held' = [held EXCEPT ![w] = NoEvent]
    /\ UNCHANGED <<store, unsent, log, root, pos, open, got, from>>

\* tx.send waits for room and fails once the receiver is gone.
Forward(w) ==
    /\ task[w] = "send"
    /\ \/ /\ ~open[w]
          /\ task' = [task EXCEPT ![w] = "ended"]
          /\ UNCHANGED out
       \/ /\ open[w] /\ Len(out[w]) < OutCap
          /\ task' = [task EXCEPT ![w] = "recv"]
          /\ out' = [out EXCEPT ![w] = Append(@, held[w])]
    /\ held' = [held EXCEPT ![w] = NoEvent]
    /\ UNCHANGED <<store, unsent, log, root, pos, open, got, from>>

\* The holder of the receiver takes an event.
Consume(w) ==
    /\ open[w] /\ out[w] # <<>>
    /\ got' = [got EXCEPT ![w] = Append(@, Head(out[w]))]
    /\ out' = [out EXCEPT ![w] = Tail(@)]
    /\ UNCHANGED <<store, unsent, log, task, root, pos, held, open, from>>

\* The holder drops the receiver, and with it whatever the channel holds.
Close(w) ==
    /\ task[w] # "none" /\ open[w]
    /\ open' = [open EXCEPT ![w] = FALSE]
    /\ out' = [out EXCEPT ![w] = <<>>]
    /\ UNCHANGED <<store, unsent, log, task, root, pos, held, got, from>>

Next ==
    \/ \E c \in Clients, k \in Keys :
          \/ \E e \in Entries : Put(c, k, e)
          \/ Delete(c, k)
          \/ Get(c, k)
    \/ \E c \in Clients : SendEvent(c)
    \/ \E w \in Watchers :
          Watch(w) \/ Receive(w) \/ Forward(w) \/ Consume(w) \/ Close(w)

Spec == Init /\ [][Next]_vars

\* A put that has changed the map goes on to send, the tasks are polled by
\* the runtime, and a caller that holds a receiver keeps reading it.
Fairness ==
    /\ \A c \in Clients : WF_vars(SendEvent(c))
    /\ \A w \in Watchers :
          WF_vars(Receive(w)) /\ WF_vars(Forward(w)) /\ WF_vars(Consume(w))

FairSpec == Spec /\ Fairness

----------------------------------------------------------------------------
(* Properties.                                                             *)

Sent(kind, k) ==
    {i \in 1..Len(log) : log[i] = Event(kind, k)}
Pending(kind, k) == {c \in Clients : unsent[c] = Event(kind, k)}
Count(kind, k) ==
    Cardinality(Sent(kind, k)) + Cardinality(Pending(kind, k))

\* However puts and deletes interleave, the events sent and about to be sent
\* account for the map: a path that exists was created once more often than
\* it was deleted, a path that does not was deleted as often as created.
EventsAccountForMap ==
    \A k \in Keys :
        Count("Created", k) - Count("Deleted", k)
            = IF data[k] = NoEntry THEN 0 ELSE 1

\* Where the log holds, at i..j, the events a watcher of r is to see.
Covered(r, i, j) == {n \in i..j : n <= Len(log) /\ IsUnder(log[n].path, r)}

\* What the task has passed on: taken, in the channel, or being sent.
Handed(w) ==
    got[w] \o out[w] \o (IF task[w] = "send" THEN <<held[w]>> ELSE <<>>)

\* What a caller has been handed is a gap-free run of the events under its
\* root since it subscribed, in the order they were sent, even when its task
\* lagged behind the ring: a stream may end early but never skips an event.
StreamHasNoGap ==
    \A w \in Watchers : open[w] =>
        LET due == Covered(root[w], from[w], pos[w] - 1)
            places == 1..Len(Handed(w))
        IN \E at \in [places -> due] :
              /\ \A n \in due : \E m \in places : at[m] = n
              /\ \A m, n \in places : m < n => at[m] < at[n]
              /\ \A m \in places : Handed(w)[m] = log[at[m]]

\* The containers on the way to a path.
Containers ==
    UNION {{SubSeq(k, 1, i - 1) \o <<Slash>> : i \in 1..Len(k)} : k \in Keys}

\* Walking down from "/" through what list returns visits every stored path
\* and nothing else: each container on the way to a stored path lists the
\* next step, and every name listed leads to a stored path.
ListingFindsExactlyStored ==
    \A dir \in Containers :
        LET d == Trimmed(dir) stored == {k \in Keys : data[k] # NoEntry} IN
        /\ \A k \in stored :
              (IsPrefix(d, k) /\ Len(k) > Len(d) /\ k # dir) =>
                  \E n \in List(dir) : IF Last(n) = Slash
                                      THEN IsPrefix(d \o Front(n), k)
                                      ELSE d \o n = k
        /\ \A n \in List(dir) : /\ Len(Trimmed(n)) = 1
                               /\ \E k \in stored : IF Last(n) = Slash
                                                   THEN /\ IsPrefix(d \o Front(n), k)
                                                        /\ Len(k) > Len(d) + 1
                                                   ELSE d \o n = k

\* What readers other than get are shown: the events account for the map, a
\* stream of watch has no gap, and list leads to every stored path and no other.
ReadersSound ==
    TypeOK /\ EventsAccountForMap /\ StreamHasNoGap /\ ListingFindsExactlyStored

\* The backend implements the contract of the trait.
ImplementsContract == Contract!Spec

\* Every event under the root of a watcher whose receiver stays open reaches
\* the holder, unless the task was ended.
EventsReachWatcher ==
    \A w \in Watchers : \A i \in 1..MaxEvents :
        (task[w] \in {"recv", "send"} /\ i >= from[w] /\ i <= Len(log))
            ~> (\/ Len(got[w]) >= Cardinality(Covered(root[w], from[w], i))
                \/ task[w] = "ended" \/ ~open[w])
=============================================================================
